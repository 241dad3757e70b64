------------------------------- MODULE WebAsync --------------------------------
(***************************************************************************)
(* Asynchronous requests to the web server: handleAsyncAPI and the         *)
(* asyncProgress handler of sim/web/main.go, the registry of abort signals *)
(* (sim/core/simsignals/api.go), the goroutine of a raid sim               *)
(* (RunRaidSimConcurrentAsync) and the one of a bulk sim, which registers, *)
(* generates its candidates, hands its id back and lets bulk.BulkSimAsync  *)
(* register it again.                                                      *)
(*                                                                         *)
(* The run itself is what SimRequest promises: reports, then one outcome.  *)
(* It may report for ever; only an abort has to end it.  Trigger is one    *)
(* step here (ConcurrentSim has its two).                                  *)
(***************************************************************************)
EXTENDS Integers, Sequences, FiniteSets

CONSTANTS
    Requests,   \* the requests clients send
    Ids,        \* the request ids they carry
    IdOf(_),    \* the id of each: nothing makes them differ
    Bulk,       \* those to /bulkSimAsync; the others are to /raidSimAsync
    Cap,        \* capacity of a reporter channel (100)
    Polling,    \* those whose client polls; the others' has gone away
    Timeouts,   \* whether a reader may run into asyncProgressSilenceTimeout
    None        \* no registration, no message

ASSUME WebAssumption ==
    /\ \A r \in Requests : IdOf(r) \in Ids
    /\ Bulk \subseteq Requests /\ Polling \subseteq Requests
    /\ Cap \in Nat \ {0} /\ Timeouts \in BOOLEAN
    /\ None \notin [owner : Requests, number : 1..2]   \* nil points to no registration

VARIABLES
    registry,   \* trackedIds: the registration an id leads to
    triggered,  \* registrations whose signal is triggered
    rpc,        \* where the request's goroutine stands
    held,       \* the registration it holds: 0, or its first or second
    verdict,    \* the outcome it is about to report
    reporter,   \* its channel
    reading,    \* requests whose reader goroutine is there
    entries,    \* asyncProgresses
    latest,     \* latestProgress of each entry
    cpc,        \* where the client's poll stands
    loaded,     \* what the poll has loaded
    looked,     \* the registration the client's abort has found
    asked,      \* requests the client has aborted
    timedOut    \* those whose reader ran into the timeout

runVars == <<rpc, held, verdict>>
readVars == <<reading, entries, latest, timedOut>>
clientVars == <<cpc, loaded, looked, asked>>
webVars == <<registry, triggered, runVars, reporter, readVars, clientVars>>

Outcomes == {"ok", "aborted", "error"}
IsFinal(msg) == msg \in Outcomes
Registration(r, n) == [owner |-> r, number |-> n]

WebInit ==
    /\ registry = [i \in Ids |-> None]
    /\ triggered = {}
    /\ rpc = [r \in Requests |-> "idle"]
    /\ held = [r \in Requests |-> 0]
    /\ verdict = [r \in Requests |-> None]
    /\ reporter = [r \in Requests |-> <<>>]
    /\ reading = {} /\ entries = {}
    /\ latest = [r \in Requests |-> None]
    /\ cpc = [r \in Requests |-> "idle"]
    /\ loaded = [r \in Requests |-> None]
    /\ looked = [r \in Requests |-> None]
    /\ asked = {} /\ timedOut = {}

-----------------------------------------------------------------------------
(* The request's goroutine *)

Goes(r, from, to) == rpc[r] = from /\ rpc' = [rpc EXCEPT ![r] = to]

\* RegisterWithId refuses an id that is registered.
Free(r) == registry[IdOf(r)] = None

Registers(r, n) ==
    /\ registry' = [registry EXCEPT ![IdOf(r)] = Registration(r, n)]
    /\ held' = [held EXCEPT ![r] = n]

\* The reader and the entry handleAsyncAPI leaves behind.
Served(r) ==
    /\ reading' = reading \cup {r}
    /\ entries' = entries \cup {r}
    /\ cpc' = [cpc EXCEPT ![r] = "poll"]

\* A raid sim registers in the handler; a bulk sim does on its own goroutine.
SubmitRaid(r) ==
    /\ r \notin Bulk /\ rpc[r] = "idle"
    /\ IF Free(r)
         THEN Registers(r, 1) /\ rpc' = [rpc EXCEPT ![r] = "run"] /\ UNCHANGED reporter
         ELSE /\ reporter' = [reporter EXCEPT ![r] = <<"error">>]
              /\ rpc' = [rpc EXCEPT ![r] = "done"]
              /\ UNCHANGED <<registry, held>>
    /\ Served(r)
    /\ UNCHANGED <<triggered, verdict, latest, timedOut, loaded, looked, asked>>

SubmitBulk(r) ==
    /\ r \in Bulk /\ Goes(r, "idle", "register")
    /\ Served(r)
    /\ UNCHANGED <<registry, triggered, held, verdict, reporter, latest, timedOut,
                   loaded, looked, asked>>

Elsewhere == UNCHANGED <<triggered, reporter, readVars, clientVars>>
Decides(r, o) == verdict' = [verdict EXCEPT ![r] = o]

RegisterFirst(r) ==
    /\ rpc[r] = "register"
    /\ IF Free(r)
         THEN Goes(r, "register", "generate") /\ Registers(r, 1) /\ UNCHANGED verdict
         ELSE Goes(r, "register", "final") /\ Decides(r, "error") /\ UNCHANGED <<registry, held>>
    /\ Elsewhere

\* EnsureBulkSimCandidatesGenerated, which may fail.
Generate(r) ==
    /\ \/ Goes(r, "generate", "check") /\ UNCHANGED verdict
       \/ Goes(r, "generate", "final") /\ Decides(r, "error")
    /\ UNCHANGED <<registry, held>> /\ Elsewhere

Aborted(r) == Registration(r, held[r]) \in triggered

Check(r) ==
    /\ IF Aborted(r) THEN Goes(r, "check", "final") /\ Decides(r, "aborted")
                     ELSE Goes(r, "check", "handBack") /\ UNCHANGED verdict
    /\ UNCHANGED <<registry, held>> /\ Elsewhere

Unregisters(r) ==
    /\ registry' = [registry EXCEPT ![IdOf(r)] = None]
    /\ held' = [held EXCEPT ![r] = 0]

HandBack(r) == Goes(r, "handBack", "registerAgain") /\ Unregisters(r) /\ UNCHANGED verdict /\ Elsewhere

\* bulk.BulkSimAsync.
RegisterAgain(r) ==
    /\ rpc[r] = "registerAgain"
    /\ IF Free(r)
         THEN Goes(r, "registerAgain", "run") /\ Registers(r, 2) /\ UNCHANGED verdict
         ELSE Goes(r, "registerAgain", "final") /\ Decides(r, "error") /\ UNCHANGED <<registry, held>>
    /\ Elsewhere

\* The run looks at its signal before every report, and at its end does not.
Run(r) ==
    /\ IF Aborted(r) THEN Goes(r, "run", "final") /\ Decides(r, "aborted")
                     ELSE Goes(r, "run", "report") /\ UNCHANGED verdict
    /\ UNCHANGED <<registry, held>> /\ Elsewhere

RunFinishes(r) ==
    /\ \E o \in {"ok", "error"} : Goes(r, "run", "final") /\ Decides(r, o)
    /\ UNCHANGED <<registry, held>> /\ Elsewhere

Sends(r, msg) ==
    /\ Len(reporter[r]) < Cap
    /\ reporter' = [reporter EXCEPT ![r] = Append(@, msg)]
    /\ UNCHANGED <<registry, triggered, held, verdict, readVars, clientVars>>

Report(r) == Goes(r, "report", "run") /\ Sends(r, "progress")
SendFinal(r) == Goes(r, "final", "unregister") /\ Sends(r, verdict[r])

\* Mutant: the id is unregistered whether or not it is the request's own.
MutUnregister(r) ==
    /\ Goes(r, "unregister", "done")
    /\ Unregisters(r) /\ UNCHANGED verdict /\ Elsewhere

\* The channel is closed, and then the deferred UnregisterId runs if the
\* goroutine got as far as registering.
Unregister(r) ==
    /\ Goes(r, "unregister", "done")
    /\ IF held[r] = 0 THEN UNCHANGED <<registry, held>> ELSE Unregisters(r)
    /\ UNCHANGED verdict /\ Elsewhere

RunStep(r) ==
    \/ RegisterFirst(r) \/ Generate(r) \/ Check(r) \/ HandBack(r) \/ RegisterAgain(r)
    \/ Run(r) \/ RunFinishes(r) \/ Report(r) \/ SendFinal(r) \/ Unregister(r)

-----------------------------------------------------------------------------
(* The reader goroutine of handleAsyncAPI *)

\* Mutant: the reader stops at a final message without storing it.
MutRead(r) ==
    /\ r \in reading /\ reporter[r] # <<>>
    /\ reporter' = [reporter EXCEPT ![r] = Tail(@)]
    /\ IF IsFinal(Head(reporter[r]))
         THEN reading' = reading \ {r} /\ UNCHANGED latest
         ELSE latest' = [latest EXCEPT ![r] = Head(reporter[r])] /\ UNCHANGED reading
    /\ UNCHANGED <<registry, triggered, runVars, entries, timedOut, clientVars>>

Read(r) ==
    /\ r \in reading /\ reporter[r] # <<>>
    /\ latest' = [latest EXCEPT ![r] = Head(reporter[r])]
    /\ reporter' = [reporter EXCEPT ![r] = Tail(@)]
    /\ reading' = IF IsFinal(Head(reporter[r])) THEN reading \ {r} ELSE reading
    /\ UNCHANGED <<registry, triggered, runVars, entries, timedOut, clientVars>>

\* Mutant: the silent run is left alone.
MutTimeout(r) ==
    /\ Timeouts /\ r \in reading /\ Len(reporter[r]) <= 1
    /\ reading' = reading \ {r}
    /\ timedOut' = timedOut \cup {r}
    /\ entries' = entries \ {r}
    /\ UNCHANGED <<registry, triggered, runVars, reporter, latest, clientVars>>

\* Ten minutes without a report: AbortById, and the entry goes.  (A report may
\* arrive as the time runs out: select then takes either.)
Timeout(r) ==
    /\ Timeouts /\ r \in reading /\ Len(reporter[r]) <= 1
    /\ reading' = reading \ {r}
    /\ timedOut' = timedOut \cup {r}
    /\ triggered' = triggered \cup ({registry[IdOf(r)]} \ {None})
    /\ entries' = entries \ {r}
    /\ UNCHANGED <<registry, runVars, reporter, latest, clientVars>>

-----------------------------------------------------------------------------
(* The client, and the handlers that serve it *)

ClientOnly == UNCHANGED <<registry, triggered, runVars, reporter, readVars, looked, asked>>

\* /asyncProgress looks the entry up and loads its latest progress.
Load(r) ==
    /\ r \in Polling /\ cpc[r] = "poll"
    /\ IF r \in entries THEN cpc' = [cpc EXCEPT ![r] = "loaded"] /\ loaded' = [loaded EXCEPT ![r] = latest[r]]
                        ELSE cpc' = [cpc EXCEPT ![r] = "gone"] /\ UNCHANGED loaded
    /\ ClientOnly

\* Mutant: whether to delete is decided by the progress there is now.
MutWrite(r) ==
    /\ cpc[r] = "loaded"
    /\ cpc' = [cpc EXCEPT ![r] = IF IsFinal(latest[r]) THEN "delete" ELSE "poll"]
    /\ UNCHANGED loaded /\ ClientOnly

\* The response is written; a client that gets a final one polls no more.
Write(r) ==
    /\ cpc[r] = "loaded"
    /\ cpc' = [cpc EXCEPT ![r] = IF IsFinal(loaded[r]) THEN "delete" ELSE "poll"]
    /\ UNCHANGED loaded /\ ClientOnly

\* Writing fails: the entry stays for the next poll.
WriteFails(r) ==
    /\ cpc[r] = "loaded"
    /\ cpc' = [cpc EXCEPT ![r] = "poll"]
    /\ UNCHANGED loaded /\ ClientOnly

Delete(r) ==
    /\ cpc[r] = "delete"
    /\ entries' = entries \ {r}
    /\ cpc' = [cpc EXCEPT ![r] = "heard"]
    /\ UNCHANGED <<registry, triggered, runVars, reporter, reading, latest, timedOut,
                   loaded, looked, asked>>

\* /abortById: getById, then Trigger.
AbortLooks(r) ==
    /\ rpc[r] # "idle" /\ r \notin asked
    /\ asked' = asked \cup {r}
    /\ looked' = [looked EXCEPT ![r] = registry[IdOf(r)]]
    /\ UNCHANGED <<registry, triggered, runVars, reporter, readVars, cpc, loaded>>

AbortTriggers(r) ==
    /\ looked[r] # None
    /\ triggered' = triggered \cup {looked[r]}
    /\ looked' = [looked EXCEPT ![r] = None]
    /\ UNCHANGED <<registry, runVars, reporter, readVars, cpc, loaded, asked>>

ClientStep(r) ==
    \/ Load(r) \/ Write(r) \/ WriteFails(r) \/ Delete(r) \/ AbortLooks(r) \/ AbortTriggers(r)

WebNext == \E r \in Requests :
    SubmitRaid(r) \/ SubmitBulk(r) \/ RunStep(r) \/ Read(r) \/ Timeout(r) \/ ClientStep(r)

\* Goroutines and handlers run, and a client whose responses get lost tries
\* again; nothing makes a run end, an abort come or a timeout strike.
Fairness == \A r \in Requests :
    /\ WF_webVars(RunStep(r)) /\ WF_webVars(Read(r))
    /\ WF_webVars(Load(r)) /\ SF_webVars(Write(r)) /\ WF_webVars(Delete(r)) /\ WF_webVars(AbortTriggers(r))

WebSpec == WebInit /\ [][WebNext]_webVars /\ Fairness

-----------------------------------------------------------------------------
(* Correctness *)

Registrations == [owner : Requests, number : 1..2]

WebTypeOK ==
    /\ registry \in [Ids -> Registrations \cup {None}]
    /\ triggered \subseteq Registrations
    /\ rpc \in [Requests -> {"idle", "register", "generate", "check", "handBack", "registerAgain",
                             "run", "report", "final", "unregister", "done"}]
    /\ held \in [Requests -> 0..2]
    /\ verdict \in [Requests -> Outcomes \cup {None}]
    /\ reporter \in [Requests -> Seq(Outcomes \cup {"progress"})]
    /\ \A r \in Requests : Len(reporter[r]) <= Cap
    /\ reading \subseteq Requests /\ entries \subseteq Requests /\ timedOut \subseteq Requests
    /\ latest \in [Requests -> Outcomes \cup {"progress", None}]
    /\ cpc \in [Requests -> {"idle", "poll", "loaded", "delete", "heard", "gone"}]
    /\ loaded \in [Requests -> Outcomes \cup {"progress", None}]
    /\ looked \in [Requests -> Registrations \cup {None}]
    /\ asked \subseteq Requests

(* Every variable has its type, and a goroutine that holds a registration is the *)
(* one its id leads to, whoever else has tried the same id meanwhile; an id leads *)
(* to nothing else: an abort *)
(* reaches the run it is meant for as long as that run can be reached *)
(* (RegisterWithId, UnregisterId and their callers' early returns and defers). *)
RegistryIsExact ==
    /\ WebTypeOK
    /\ \A i \in Ids :
          LET owners == {r \in Requests : IdOf(r) = i /\ held[r] # 0}
          IN  IF owners = {} THEN registry[i] = None
              ELSE \E r \in owners : owners = {r} /\ registry[i] = Registration(r, held[r])

(* A final result is dropped from the cache only after a client was sent it, or *)
(* after the reader gave the run up: a result that arrives between a poll's load *)
(* and its delete waits for the next poll (the asyncProgress handler). *)
FinalNotLost ==
    \A r \in Requests :
        (cpc[r] # "idle" /\ r \notin entries) =>
            r \in timedOut \/ (cpc[r] = "heard" /\ IsFinal(loaded[r]))

(* Once a run's signal is triggered its goroutine ends: the channel it reports on *)
(* does not fill up behind a reader that gave up, which is why the reader aborts *)
(* the run before it stops (handleAsyncAPI's timeout): no run is left for nobody. *)
AbortEnds == \A r \in Requests : (Aborted(r) \/ r \in timedOut) ~> rpc[r] = "done"

(* A client that keeps polling hears the outcome of a run that has one, or that *)
(* the run is gone. *)
OutcomeHeard == \A r \in Polling : rpc[r] = "done" ~> cpc[r] \in {"heard", "gone"}

=============================================================================
