---------------------------- MODULE ModelService ----------------------------
(***************************************************************************)
(* A model service (dense, OCR, caption) and the HTTP clients of the       *)
(* gateway that call it.  The handlers for images are coroutines: one is   *)
(* suspended only while it reads an upload, and the inference itself holds *)
(* the event loop, so that nothing else of the service moves.  A client    *)
(* gives up after its timeout (300 s) and its caller tries again; the      *)
(* service does not notice and works for nobody.  The handlers for texts   *)
(* are functions that run on threads, but are begun and answered by the    *)
(* same loop.  Time passes in ticks, only during an inference: what else   *)
(* the loop does takes no time.                                            *)
(***************************************************************************)
EXTENDS Naturals, FiniteSets, SequencesExt

CONSTANTS
    Uploaders,   \* clients that send images
    Texters,     \* clients that send texts to the dense service
    MaxBatch,    \* bound: images of a call of the dense service
    Names,       \* names for temporary files
    Timeout, Normal, Slow,  \* ticks of a client's patience and of an inference
    MaxSlow,     \* bound: inferences that are slow
    MaxFaults,   \* bound: failed or empty uploads, failed inferences
    MaxCalls     \* bound: calls in the service

ASSUME ModelServiceAssumption ==
    /\ Uploaders \cap Texters = {} /\ MaxBatch \in Nat \ {0} /\ "none" \notin Names
    /\ {Timeout, Normal, Slow, MaxSlow, MaxFaults, MaxCalls} \subseteq Nat
    /\ Normal > 0 /\ Slow > 0

Clients == Uploaders \cup Texters
Nobody == "nobody"      \* the client of a call that was given up
None == "none"
Calm == Timeout + 1     \* the patience of a client that waits for nothing

VARIABLES
    oneImage, \* whether this is the OCR or caption service, whose calls bring one
              \* image, or the dense service
    calls,    \* calls in the service, in the order of their arrival
    files,    \* temporary files on the service's disk
    busy,     \* ticks that the inference at work still takes
    waiting,  \* of each client: ticks it has waited, or Calm
    served,   \* of each client: whether its last call was answered
    slow, faults

vars == <<oneImage, calls, files, busy, waiting, served, slow, faults>>

Index == 1..Len(calls)
Init ==
    /\ oneImage \in BOOLEAN
    /\ calls = <<>> /\ files = {} /\ busy = 0
    /\ waiting = [c \in Clients |-> Calm] /\ served = [c \in Clients |-> FALSE]
    /\ slow = 0 /\ faults = 0

-----------------------------------------------------------------------------
LoopIsFree == \A n \in Index : calls[n].stage # "infer"
Fault == faults < MaxFaults /\ faults' = faults + 1

\* The call goes on in another stage, or ends with an answer.
Becomes(n, call) == calls' = [calls EXCEPT ![n] = call]
Answer(n, ok) ==
    /\ calls' = RemoveAt(calls, n)
    /\ IF calls[n].client = Nobody THEN UNCHANGED <<waiting, served>>
       ELSE /\ waiting' = [waiting EXCEPT ![calls[n].client] = Calm]
            /\ served' = [served EXCEPT ![calls[n].client] = ok]

\* A client posts the next request, or the same one again.
Send(c) ==
    /\ waiting[c] = Calm /\ Len(calls) < MaxCalls
    /\ c \in Texters => ~oneImage
    /\ \E images \in IF c \in Texters THEN {0} ELSE 1..(IF oneImage THEN 1 ELSE MaxBatch) :
          calls' = Append(calls, [client |-> c, stage |-> "new", todo |-> images,
                                  open |-> None, files |-> {}])
    /\ waiting' = [waiting EXCEPT ![c] = 0] /\ served' = [served EXCEPT ![c] = FALSE]
    /\ UNCHANGED <<oneImage, files, busy, slow, faults>>

\* httpx's timeout: the client has an exception, and the service a call without
\* a client.
GiveUp(c) ==
    /\ waiting[c] = Timeout
    /\ waiting' = [waiting EXCEPT ![c] = Calm]
    /\ calls' = [n \in Index |-> IF calls[n].client = c THEN [calls[n] EXCEPT !.client = Nobody] ELSE calls[n]]
    /\ UNCHANGED <<oneImage, files, busy, served, slow, faults>>

-----------------------------------------------------------------------------
\* Mistake: the file has the name of the upload, which is its client's choice.
OpenNamed(n) ==
    /\ LoopIsFree /\ calls[n].todo > 0 /\ calls[n].open = None
    /\ Names \ calls[n].files # {}
    /\ LET f == CHOOSE g \in Names \ calls[n].files : TRUE
       IN /\ files' = files \cup {f}
          /\ Becomes(n, [calls[n] EXCEPT !.stage = "upload", !.open = f])
    /\ UNCHANGED <<oneImage, busy, waiting, served, slow, faults>>

\* NamedTemporaryFile makes a file of a new name (one for all of them, for names
\* are alike); then the upload is awaited.
Open(n) ==
    /\ LoopIsFree /\ calls[n].todo > 0 /\ calls[n].open = None
    /\ Names \ files # {}
    /\ LET f == CHOOSE g \in Names \ files : TRUE
       IN /\ files' = files \cup {f}
          /\ Becomes(n, [calls[n] EXCEPT !.stage = "upload", !.open = f])
    /\ UNCHANGED <<oneImage, busy, waiting, served, slow, faults>>

\* The upload is read and written, and its path put on temp_paths.
Read(n) ==
    /\ LoopIsFree /\ calls[n].open # None
    /\ Becomes(n, [calls[n] EXCEPT !.open = None, !.todo = @ - 1, !.files = @ \cup {calls[n].open}])
    /\ UNCHANGED <<oneImage, files, busy, waiting, served, slow, faults>>

\* Mistake: no finally clause around the loop over the uploads.
ReadFailsAtOnce(n) ==
    /\ LoopIsFree /\ calls[n].open # None /\ Fault
    /\ Answer(n, FALSE)
    /\ UNCHANGED <<oneImage, files, busy, slow>>

\* Reading or writing raises: the file that is open is on no list.
ReadFails(n) ==
    /\ LoopIsFree /\ calls[n].open # None /\ Fault
    /\ files' = files \ calls[n].files
    /\ Answer(n, FALSE)
    /\ UNCHANGED <<oneImage, busy, slow>>

\* upload_to_tempfile refuses an empty upload; the dense service does not look.
RefuseEmpty(n) ==
    /\ LoopIsFree /\ oneImage /\ calls[n].open # None /\ Fault
    /\ files' = files \ {calls[n].open}
    /\ Answer(n, FALSE)
    /\ UNCHANGED <<oneImage, busy, slow>>

\* Mistake: the model is loaded anew for every call.
InferAnew(n) ==
    /\ LoopIsFree /\ calls[n].stage = "upload" /\ calls[n].todo = 0
    /\ Becomes(n, [calls[n] EXCEPT !.stage = "infer"])
    /\ busy' = Slow
    /\ UNCHANGED <<oneImage, files, waiting, served, slow, faults>>

\* The model is called, and the loop is not free until it returns.
Infer(n) ==
    /\ LoopIsFree /\ calls[n].stage = "upload" /\ calls[n].todo = 0
    /\ Becomes(n, [calls[n] EXCEPT !.stage = "infer"])
    /\ \/ busy' = Normal /\ UNCHANGED slow
       \/ busy' = Slow /\ slow < MaxSlow /\ slow' = slow + 1
    /\ UNCHANGED <<oneImage, files, waiting, served, faults>>

\* The model returns or raises, and the finally clause removes the files.
Finish(n) ==
    /\ calls[n].stage = "infer" /\ busy = 0
    /\ \/ Answer(n, TRUE) /\ UNCHANGED faults
       \/ Answer(n, FALSE) /\ Fault
    /\ files' = files \ calls[n].files
    /\ UNCHANGED <<oneImage, busy, slow>>

\* encode_text_batch: handed to a thread, computed there, answered by the loop.
Text(n) ==
    /\ \/ /\ LoopIsFree /\ calls[n].stage = "new" /\ calls[n].todo = 0
          /\ Becomes(n, [calls[n] EXCEPT !.stage = "thread"]) /\ UNCHANGED <<waiting, served>>
       \/ /\ calls[n].stage = "thread"
          /\ Becomes(n, [calls[n] EXCEPT !.stage = "reply"]) /\ UNCHANGED <<waiting, served>>
       \/ LoopIsFree /\ calls[n].stage = "reply" /\ Answer(n, TRUE)
    /\ UNCHANGED <<oneImage, files, busy, slow, faults>>

Handle(n) == Open(n) \/ Read(n) \/ Infer(n) \/ Finish(n) \/ Text(n)

\* Time passes while a model is at work and nothing else can happen at once.
Tick ==
    /\ busy > 0 /\ busy' = busy - 1
    /\ \A c \in Clients : waiting[c] # Timeout
    /\ \A n \in Index : calls[n].stage # "thread"
    /\ waiting' = [c \in Clients |-> IF waiting[c] = Calm THEN Calm ELSE waiting[c] + 1]
    /\ UNCHANGED <<oneImage, calls, files, served, slow, faults>>

Next ==
    \/ \E c \in Clients : Send(c) \/ GiveUp(c)
    \/ \E n \in Index : Handle(n) \/ ReadFails(n) \/ RefuseEmpty(n)
    \/ Tick

Spec == Init /\ [][Next]_vars

\* Callers retry, clocks run, and the loop takes its tasks in turn: it comes to
\* the calls of each client, and to those that nobody waits for.
Fairness ==
    /\ \A c \in Clients : WF_vars(Send(c)) /\ WF_vars(GiveUp(c))
    /\ \A c \in Clients \cup {Nobody} : SF_vars(\E n \in Index : calls[n].client = c /\ Handle(n))
    /\ WF_vars(Tick)
FairSpec == Spec /\ Fairness

-----------------------------------------------------------------------------
Owned == UNION {calls[n].files \cup ({calls[n].open} \ {None}) : n \in Index}

\* While the model works, the files it was given are there: no other call, and
\* no call that ends, has files of the same name.
InferenceHasItsFiles ==
    \A n \in Index : calls[n].stage = "infer" =>
        /\ calls[n].files # {} /\ calls[n].files \subseteq files
        /\ \A m \in Index \ {n} : calls[m].files \cap calls[n].files = {}

\* A failed upload leaves one file at most, however many its call brought, and
\* nothing else is left behind, by calls without a client neither.
OneFileAFault == Cardinality(files \ Owned) <= faults

\* Long-lasting work for nobody does not lock the callers out: after slow calls,
\* while each retry waits for those before it, a caller has answers again.
RetriesAreAnswered == \A c \in Uploaders : []<>served[c]
=============================================================================
