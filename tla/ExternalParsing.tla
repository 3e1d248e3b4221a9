---- MODULE ExternalParsing ----
(* The parsing of one PDF item of an ingestion job (jobs/service.py), by
   the external parsers the deployment allows (parsing/external.py and
   parsing/adapters), or by the local text parser.  MinerU works remotely:
   its task is submitted, recorded as a ticket and polled once per claim
   of the item, so the wait outlives the worker and the process.  Qwen3-VL
   answers page by page within the call.  A request may fail in a way
   worth retrying or not, the dispatch may time out wherever it waits, and
   an error no adapter foresees leaves it past every other parser.
   Leases and cancellation are those of IngestJobs and left out. *)
EXTENDS Naturals, Sequences, SequencesExt

CONSTANTS
    XpDeployments,   \* sequences of adapters a deployment may configure
    XpWait,          \* timeout_seconds, in ticks
    XpMaxPages,      \* max_pages of Qwen3-VL
    XpMaxAttempts, XpMaxPolls, XpMaxCrashes  \* bounds; the first is max_attempts

ASSUME XpAssumption ==
    /\ XpDeployments \subseteq {<<>>, <<"mineru">>, <<"qwen">>, <<"mineru", "qwen">>}
    /\ XpWait \in Nat \ {0} /\ XpMaxPages \in Nat \ {0} /\ XpMaxAttempts \in Nat

VARIABLES
    xpAdapters,      \* the adapters of this process; <<>> when external parsing is off
    xpAllowed,       \* the policy admits this source, its size and its path
    xpPages,         \* pages of the PDF, if it can be drawn
    xpText,          \* what the local parser finds: a text layer, none, or no readable PDF
    xpItem,          \* status, attempts, and which parser made its document
    xpTicket,        \* knowledge_external_parse: adapter, task, state, ticks since submitted
    xpTasks,         \* the remote tasks in order, each in its state
    xpWork,          \* the worker that holds the item
    xpCount          \* history and bounds: polls, crashes

xpInput == <<xpPages, xpText>>
xpVars  == <<xpAdapters, xpAllowed, xpInput, xpItem, xpTicket, xpTasks, xpWork, xpCount>>

XpResumable == {"mineru"}
XpTexts     == {"text", "scanned", "unreadable"}
XpActive    == {"queued", "running"}
XpTerminal  == {"completed", "failed", "fallback", "timed_out"}
XpNoTicket  == [adapter |-> "none", task |-> 0, state |-> "none", age |-> 0]

\* The locals of _parse_document and dispatch: external_state, the adapter's
\* place, the retryability of the failures so far, the task, the page in work,
\* the kind of external_error and which parser completed.
XpIdle == [pc |-> "idle", seen |-> XpNoTicket, at |-> 0, from |-> 0, failures |-> <<>>,
           task |-> 0, stage |-> "queued", page |-> 0, error |-> "none", by |-> "none"]

XpAt(pc) == xpWork.pc = pc
XpGoto(pc) == xpWork' = [xpWork EXCEPT !.pc = pc]

--------------------
(* The dispatch over the adapters. *)

\* The call the adapter at this place gets: the ticket goes to the first only.
XpCall(adapter, resumed) ==
    IF resumed THEN IF adapter \in XpResumable THEN "poll" ELSE "no_poll"
    ELSE IF adapter \in XpResumable THEN "create" ELSE "render"

XpTry(work, place, resumed) ==
    [work EXCEPT !.at = place, !.pc = XpCall(xpAdapters[place], resumed), !.task = IF resumed THEN @ ELSE 0,
                 !.page = 0]

\* ExternalParsingTransientError if any failure was worth a retry.
XpExhausted(failures) == IF TRUE \in ToSet(failures) THEN "transient" ELSE "failed"

\* An adapter failed: the next one is tried, or the dispatch raises.
XpFailed(retryable) ==
    LET failures == Append(xpWork.failures, retryable)
        work == [xpWork EXCEPT !.failures = failures]
    IN xpWork' = IF xpWork.at < Len(xpAdapters) THEN XpTry(work, xpWork.at + 1, FALSE)
                 ELSE [work EXCEPT !.pc = "refused", !.error = XpExhausted(failures)]

XpFail(retryable) ==
    /\ XpFailed(retryable)
    /\ UNCHANGED <<xpAdapters, xpAllowed, xpInput, xpItem, xpTicket, xpCount>>

\* The dispatch of a ticket, or of none: policy, candidates, first call.
XpDispatch(work, ticket) ==
    LET place == IF ticket = XpNoTicket THEN 1 ELSE SelectInSeq(xpAdapters, LAMBDA a : a = ticket.adapter)
    IN CASE ~xpAllowed -> [work EXCEPT !.pc = "refused", !.error = "policy"]
         [] xpAllowed /\ place = 0 -> [work EXCEPT !.pc = "refused", !.error = "failed"]
         [] OTHER -> XpTry([work EXCEPT !.from = place, !.task = ticket.task], place, ticket # XpNoTicket)

\* A claim of the item; _parse_document reads the ticket and dispatches.
XpBegin ==
    LET work == [XpIdle EXCEPT !.seen = xpTicket]
        active == xpTicket.state \in XpActive
    IN
    /\ XpAt("idle")
    /\ xpItem.status \in {"queued", "retry_wait", "external_wait"}
    /\ xpItem' = [xpItem EXCEPT !.attempts = IF xpItem.status = "external_wait" THEN @ ELSE @ + 1,
                                !.status = "parsing"]
    /\ xpWork' = CASE xpAdapters = <<>> -> [work EXCEPT !.pc = "local"]
                   [] xpAdapters # <<>> /\ active /\ xpTicket.age >= XpWait ->
                        [work EXCEPT !.pc = "expire", !.error = "transient"]
                   [] OTHER -> XpDispatch(work, IF active THEN xpTicket ELSE XpNoTicket)
    /\ UNCHANGED <<xpAdapters, xpAllowed, xpInput, xpTicket, xpTasks, xpCount>>

--------------------
(* The adapters.  retryable is what ExternalAdapterError says: the network,
   429, 5xx and the upstream codes -10001 and -60001 are; another status, a
   malformed or oversized answer, an unsafe URL are not. *)

\* MinerU: the task is created; the answer may be lost.
XpCreate(outcome, lost) ==
    /\ XpAt("create")
    /\ xpTasks' = IF outcome = "ok" \/ lost THEN Append(xpTasks, "created") ELSE xpTasks
    /\ IF outcome = "ok"
       THEN /\ xpWork' = [xpWork EXCEPT !.pc = "upload", !.task = Len(xpTasks) + 1]
            /\ UNCHANGED <<xpAdapters, xpAllowed, xpInput, xpItem, xpTicket, xpCount>>
       ELSE /\ lost => outcome = "retryable"
            /\ XpFail(outcome = "retryable")

\* MinerU: the file is sent; the task is queued.
XpUpload(outcome, lost) ==
    /\ XpAt("upload")
    /\ xpTasks' = IF outcome = "ok" \/ lost THEN [xpTasks EXCEPT ![xpWork.task] = "queued"] ELSE xpTasks
    /\ IF outcome = "ok"
       THEN /\ xpWork' = [xpWork EXCEPT !.pc = "pending", !.stage = "queued"]
            /\ UNCHANGED <<xpAdapters, xpAllowed, xpInput, xpItem, xpTicket, xpCount>>
       ELSE /\ lost => outcome = "retryable"
            /\ XpFail(outcome = "retryable")

\* MinerU: one poll.
XpPoll(outcome) ==
    LET state == xpTasks[xpWork.task] IN
    /\ XpAt("poll")
    /\ IF outcome = "ok" /\ state # "failed"
       THEN /\ xpWork' = [xpWork EXCEPT !.pc = IF state = "done" THEN "download" ELSE "pending",
                                        !.stage = IF state = "running" THEN "running" ELSE "queued"]
            /\ UNCHANGED <<xpAdapters, xpAllowed, xpInput, xpItem, xpTicket, xpCount>>
       ELSE \E retryable \in BOOLEAN :
                /\ outcome # "ok" => retryable = (outcome = "retryable")
                /\ XpFail(retryable)
    /\ UNCHANGED xpTasks

\* A ticket of an adapter that cannot resume.
XpNoPoll == XpAt("no_poll") /\ XpFail(FALSE) /\ UNCHANGED xpTasks

\* MinerU: the Markdown is fetched, bounded, decoded and made a document.
XpDownload(outcome) ==
    /\ XpAt("download")
    /\ IF outcome = "ok"
       THEN /\ xpWork' = [xpWork EXCEPT !.pc = "accept", !.by = "mineru"]
            /\ UNCHANGED <<xpAdapters, xpAllowed, xpInput, xpItem, xpTicket, xpCount>>
       ELSE XpFail(outcome = "retryable")
    /\ UNCHANGED xpTasks

\* Qwen3-VL: the pages are drawn, unless they are none, too many or too large.
XpRender(drawn) ==
    /\ XpAt("render")
    /\ IF drawn
       THEN /\ XpGoto("page")
            /\ UNCHANGED <<xpAdapters, xpAllowed, xpInput, xpItem, xpTicket, xpCount>>
       ELSE XpFail(FALSE)
    /\ UNCHANGED xpTasks

\* Qwen3-VL: one page is transcribed; the document is made after the last.
XpPage(outcome) ==
    LET page == xpWork.page + 1 IN
    /\ XpAt("page")
    /\ IF outcome = "ok"
       THEN /\ xpWork' = [xpWork EXCEPT !.page = page,
                                        !.pc = IF page = xpPages THEN "accept" ELSE "page",
                                        !.by = IF page = xpPages THEN "qwen" ELSE @]
            /\ UNCHANGED <<xpAdapters, xpAllowed, xpInput, xpItem, xpTicket, xpCount>>
       ELSE XpFail(outcome = "retryable")
    /\ UNCHANGED xpTasks

\* asyncio.timeout, wherever an adapter waits.
XpTimeout ==
    /\ xpWork.pc \in {"create", "upload", "poll", "download", "render", "page"}
    /\ XpFail(TRUE)
    /\ UNCHANGED xpTasks

\* A broken HTTP exchange or a malformed choice is no ExternalAdapterError: it
\* leaves the dispatch and _parse_document for fail_item, which retries it.
\* The request may have arrived.
XpEscape(arrived) ==
    /\ xpWork.pc \in {"create", "upload", "poll", "download", "page"}
    /\ xpTasks' = CASE arrived /\ XpAt("create") -> Append(xpTasks, "created")
                    [] arrived /\ XpAt("upload") -> [xpTasks EXCEPT ![xpWork.task] = "queued"]
                    [] OTHER -> xpTasks
    /\ xpWork' = [xpWork EXCEPT !.pc = "raise", !.error = "escaped"]
    /\ UNCHANGED <<xpAdapters, xpAllowed, xpInput, xpItem, xpTicket, xpCount>>

--------------------
(* What _parse_document does with the outcome. *)

XpMark(state) == xpTicket' = IF xpTicket = XpNoTicket THEN xpTicket ELSE [xpTicket EXCEPT !.state = state]

XpUnmoved == UNCHANGED <<xpAdapters, xpAllowed, xpInput, xpTasks>>

\* Another ticket than the one read: the one of the record is closed first.
XpSupersede ==
    /\ XpAt("pending")
    /\ IF xpWork.seen # XpNoTicket /\ xpWork.task # xpWork.seen.task
       THEN XpMark("failed") ELSE UNCHANGED xpTicket
    /\ XpGoto("defer")
    /\ UNCHANGED <<xpItem, xpCount>> /\ XpUnmoved

\* The record would change its ticket while that is active.
XpDeferConflict ==
    xpTicket # XpNoTicket /\ xpTicket.task # xpWork.task /\ xpTicket.state \notin XpTerminal

XpDefer ==
    /\ XpAt("defer")
    /\ xpCount.polls < XpMaxPolls
    /\ xpCount' = [xpCount EXCEPT !.polls = @ + 1]
    /\ IF XpDeferConflict
       THEN /\ xpWork' = [xpWork EXCEPT !.pc = "raise", !.error = "failed"]
            /\ UNCHANGED <<xpTicket, xpItem>>
       ELSE /\ xpTicket' = IF xpTicket.task = xpWork.task
                           THEN [xpTicket EXCEPT !.state = xpWork.stage]
                           ELSE [adapter |-> "mineru", task |-> xpWork.task, state |-> xpWork.stage, age |-> 0]
            /\ xpItem' = [xpItem EXCEPT !.status = "external_wait"]
            /\ xpWork' = XpIdle
    /\ XpUnmoved

\* A document of an adapter: the ticket read is completed, or was passed over.
XpAccept ==
    /\ XpAt("accept")
    /\ IF xpWork.seen # XpNoTicket
       THEN XpMark(IF xpWork.by = xpWork.seen.adapter THEN "completed" ELSE "fallback")
       ELSE UNCHANGED xpTicket
    /\ XpGoto("parsed")
    /\ UNCHANGED <<xpItem, xpCount>> /\ XpUnmoved

\* The wait limit of the ticket is over.
XpExpire ==
    /\ XpAt("expire")
    /\ XpMark("timed_out")
    /\ XpGoto("local")
    /\ UNCHANGED <<xpItem, xpCount>> /\ XpUnmoved

\* The dispatch raised: the ticket read, if it was active, is closed.
XpRefused ==
    /\ XpAt("refused")
    /\ IF xpWork.seen.state \in XpActive THEN XpMark("failed") ELSE UNCHANGED xpTicket
    /\ XpGoto("local")
    /\ UNCHANGED <<xpItem, xpCount>> /\ XpUnmoved

\* The local parser reads the text layer.  Without one the item fails with the
\* external error, if any; an unreadable PDF fails it whatever that was.
XpLocal ==
    LET failed == xpWork.error # "none"
    IN
    /\ XpAt("local")
    /\ xpWork' =
         CASE xpText = "text" ->
                [xpWork EXCEPT !.by = "local",
                               !.pc = IF failed /\ xpWork.seen # XpNoTicket THEN "fallback" ELSE "parsed"]
           [] xpText = "scanned" -> [xpWork EXCEPT !.pc = "raise", !.error = IF failed THEN @ ELSE "ocr"]
           [] xpText = "unreadable" -> [xpWork EXCEPT !.pc = "raise", !.error = "unreadable"]
    /\ UNCHANGED <<xpItem, xpTicket, xpCount>> /\ XpUnmoved

XpFallback ==
    /\ XpAt("fallback")
    /\ XpMark("fallback")
    /\ XpGoto("parsed")
    /\ UNCHANGED <<xpItem, xpCount>> /\ XpUnmoved

\* The item goes on to its proposal.
XpFinish ==
    /\ XpAt("parsed")
    /\ xpItem' = [xpItem EXCEPT !.status = "parsed", !.by = xpWork.by]
    /\ xpWork' = XpIdle
    /\ UNCHANGED <<xpTicket, xpCount>> /\ XpUnmoved

\* fail_item: a transient failure, or one nobody foresaw, waits for its retry;
\* any other ends the item.
XpRaise ==
    LET again == xpWork.error \in {"transient", "escaped"} /\ xpItem.attempts < XpMaxAttempts IN
    /\ XpAt("raise")
    /\ xpItem' = [xpItem EXCEPT !.status = IF again THEN "retry_wait" ELSE "dead_letter"]
    /\ IF again THEN UNCHANGED xpTicket ELSE XpMark("failed")
    /\ xpWork' = [XpIdle EXCEPT !.failures = xpWork.failures, !.error = xpWork.error]
    /\ UNCHANGED xpCount /\ XpUnmoved

--------------------
(* The environment. *)

\* The remote service works on its tasks.
XpRemote(t) ==
    /\ \E next \in {"running", "done", "failed"} :
           /\ xpTasks[t] \in {"queued", "running"} /\ next # xpTasks[t]
           /\ xpTasks' = [xpTasks EXCEPT ![t] = next]
    /\ UNCHANGED <<xpAdapters, xpAllowed, xpInput, xpItem, xpTicket, xpWork, xpCount>>

XpTick ==
    /\ xpTicket.state \in XpActive /\ xpTicket.age < XpWait
    /\ xpTicket' = [xpTicket EXCEPT !.age = @ + 1]
    /\ UNCHANGED <<xpAdapters, xpAllowed, xpInput, xpItem, xpTasks, xpWork, xpCount>>

\* The process dies and another, perhaps configured otherwise, recovers the
\* lease of the item.
XpRestart(adapters, allowed) ==
    /\ xpCount.crashes < XpMaxCrashes
    /\ xpAdapters' = adapters /\ xpAllowed' = allowed
    /\ xpItem' = [xpItem EXCEPT !.status = IF @ = "parsing" THEN "retry_wait" ELSE @]
    /\ xpWork' = IF XpAt("idle") THEN xpWork ELSE XpIdle
    /\ xpCount' = [xpCount EXCEPT !.crashes = @ + 1]
    /\ UNCHANGED <<xpInput, xpTicket, xpTasks>>

XpInit ==
    /\ xpAdapters \in XpDeployments
    /\ xpAllowed \in BOOLEAN
    /\ xpPages \in 1..XpMaxPages
    /\ xpText \in XpTexts
    /\ xpItem = [status |-> "queued", attempts |-> 0, by |-> "none"]
    /\ xpTicket = XpNoTicket
    /\ xpTasks = <<>>
    /\ xpWork = XpIdle
    /\ xpCount = [polls |-> 0, crashes |-> 0]

XpNext ==
    \/ XpBegin \/ XpNoPoll \/ XpTimeout
    \/ \E outcome \in {"ok", "retryable", "refused"} :
           \/ \E lost \in BOOLEAN : XpCreate(outcome, lost) \/ XpUpload(outcome, lost)
           \/ XpPoll(outcome) \/ XpDownload(outcome) \/ XpPage(outcome)
    \/ \E drawn \in BOOLEAN : XpRender(drawn)
    \/ \E arrived \in BOOLEAN : XpEscape(arrived)
    \/ XpSupersede \/ XpDefer \/ XpAccept \/ XpExpire \/ XpRefused \/ XpLocal \/ XpFallback
    \/ XpFinish \/ XpRaise
    \/ \E t \in DOMAIN xpTasks : XpRemote(t)
    \/ XpTick
    \/ \E adapters \in XpDeployments, allowed \in BOOLEAN : XpRestart(adapters, allowed)

XpSpec == XpInit /\ [][XpNext]_xpVars

--------------------
\* The types of the state.
XpTypeOK ==
    /\ xpAdapters \in XpDeployments /\ xpAllowed \in BOOLEAN
    /\ xpPages \in Nat /\ xpText \in XpTexts
    /\ xpItem.status \in {"queued", "parsing", "external_wait", "retry_wait", "parsed", "dead_letter"}
    /\ xpItem.by \in {"none", "mineru", "qwen", "local"}
    /\ xpTicket.state \in XpActive \cup XpTerminal \cup {"none"}
    /\ xpTicket.task \in 0..Len(xpTasks)
    /\ xpWork.task \in 0..Len(xpTasks)
    /\ xpWork.failures \in Seq(BOOLEAN)
    /\ xpWork.error \in {"none", "transient", "failed", "policy", "ocr", "unreadable", "escaped"}

\* A ticket is never replaced while it is active, whatever crashed between
\* the submission and its record (defer_external_parse never refuses).
XpTicketIsFree == XpAt("defer") => ~XpDeferConflict

\* A ticket names a task whose file has been sent; no other is ever polled.
XpTicketIsSent ==
    /\ xpTicket # XpNoTicket => xpTasks[xpTicket.task] # "created"
    /\ XpAt("poll") => xpTasks[xpWork.task] # "created"

\* An item is given up only with its last attempt on an error no adapter
\* foresees, or when no parser could have done better: the local parser cannot
\* read the PDF, and the policy or the deployment ruled out external parsing,
\* the attempts are spent, or every adapter failed for good.
XpGivenUpForGood ==
    xpItem.status = "dead_letter" =>
        \/ xpWork.error = "escaped" /\ xpItem.attempts >= XpMaxAttempts
        \/ /\ xpText # "text"
           /\ \/ xpWork.error \in {"policy", "ocr", "unreadable"}
              \/ xpItem.attempts >= XpMaxAttempts
              \/ xpWork.error = "failed" /\ TRUE \notin ToSet(xpWork.failures)

\* When the item is parsed or given up while external parsing is on, its
\* ticket is closed, and closed as what happened: completed exactly when the
\* document is the ticket's.
XpTicketTellsOutcome ==
    xpAdapters # <<>> /\ xpCount.crashes = 0 /\ xpTicket # XpNoTicket =>
        /\ xpItem.status \in {"parsed", "dead_letter"} => xpTicket.state \in XpTerminal
        /\ xpItem.status = "parsed" => (xpTicket.state = "completed") <=> (xpItem.by = xpTicket.adapter)

\* Without a crash, a second task is only sent by a later attempt: however
\* often it is polled, one attempt uploads the source once.
XpUploads == {t \in DOMAIN xpTasks : xpTasks[t] # "created"}
XpOneUpload ==
    xpCount.crashes = 0 => \A t \in XpUploads : t <= xpItem.attempts

\* The states of an external parse and its ticket agree with what the
\* parsers did (the properties above).
XpParsingHolds ==
    XpTicketIsFree /\ XpTicketIsSent /\ XpGivenUpForGood /\ XpTicketTellsOutcome /\ XpOneUpload
====
