----------------------------- MODULE RequestProofs -----------------------------
(***************************************************************************)
(* Theorems about the requests of the web server.  WebAsync: the registry  *)
(* leads an id to the goroutine that holds it, and no result is lost on    *)
(* its way to the client.  BulkSim: whatever stages, passes and rounds a   *)
(* result goes through, its segments follow each other, and what is shown  *)
(* is whole.                                                               *)
(***************************************************************************)
EXTENDS WebAsync, BulkSim, FiniteSetTheorems, WellFoundedInduction, TLAPS

-----------------------------------------------------------------------------
(* Asynchronous requests: the invariant *)

Messages == Outcomes \cup {"progress"}

\* An id leads to what a goroutine holds, and to nothing else.
RegistryInv ==
    /\ \A i \in Ids : registry[i] # None =>
          \E r \in Requests : IdOf(r) = i /\ held[r] # 0 /\ registry[i] = Registration(r, held[r])
    /\ \A r \in Requests : held[r] # 0 => registry[IdOf(r)] = Registration(r, held[r])

\* Where a goroutine stands says whether it holds a registration.
HeldInv ==
    \A r \in Requests :
        /\ rpc[r] \in {"idle", "register", "registerAgain", "done"} => held[r] = 0
        /\ rpc[r] \in {"generate", "check", "handBack", "run", "report"} => held[r] # 0
        /\ rpc[r] = "final" => verdict[r] \in Outcomes

\* What a client has not heard is in the cache, unless the reader gave up.
CacheInv ==
    \A r \in Requests :
        /\ cpc[r] \notin {"idle", "heard"} /\ r \notin entries => r \in timedOut
        /\ cpc[r] \in {"delete", "heard"} => IsFinal(loaded[r])

\* A final message is the last of a reporter channel.
NoneFinal(q) == \A i \in 1..Len(q) : q[i] = "progress"
EndsFinal(q) == Len(q) > 0 /\ IsFinal(q[Len(q)]) /\ \A i \in 1..(Len(q) - 1) : q[i] = "progress"

\* Until its reader gives up, a run's messages are where the reader finds them.
ReaderInv ==
    \A r \in Requests \ timedOut :
        /\ rpc[r] = "idle" => r \notin reading /\ reporter[r] = <<>> /\ cpc[r] = "idle"
        /\ rpc[r] # "idle" => cpc[r] # "idle"
        /\ rpc[r] \notin {"idle", "unregister", "done"} => r \in reading /\ NoneFinal(reporter[r])
        /\ rpc[r] \in {"unregister", "done"} =>
              IF r \in reading THEN EndsFinal(reporter[r]) ELSE IsFinal(latest[r])

WebInv == WebTypeOK /\ RegistryInv /\ HeldInv /\ CacheInv /\ ReaderInv

\* A run that has sent its outcome and was not given up: the outcome is on the way
\* to the reader, or in the cache, or the client has it.  This is what OutcomeHeard
\* rests on.
OutcomeKept ==
    \A r \in Requests \ timedOut :
        rpc[r] \in {"unregister", "done"} =>
            /\ cpc[r] = "heard" \/ r \in entries
            /\ IF r \in reading THEN EndsFinal(reporter[r]) ELSE IsFinal(latest[r])

-----------------------------------------------------------------------------
(* A reporter channel *)

\* A buffered channel hands out what it was sent, in order.
LEMMA ChannelFacts ==
  ASSUME NEW S, NEW q \in Seq(S)
  PROVE  /\ Len(q) \in Nat /\ (q # <<>> => Len(q) > 0)
         /\ \A e \in S : Append(q, e) \in Seq(S) /\ Len(Append(q, e)) = Len(q) + 1
         /\ q # <<>> => Head(q) \in S /\ Tail(q) \in Seq(S) /\ Len(Tail(q)) = Len(q) - 1
OBVIOUS

\* Sending to a channel: progress keeps it open, an outcome ends it.
LEMMA SendFacts ==
  ASSUME NEW q \in Seq(Messages), NoneFinal(q)
  PROVE  /\ NoneFinal(Append(q, "progress"))
         /\ \A o \in Outcomes : EndsFinal(Append(q, o))
<1>1. \A e \in Messages : \A i \in 1..Len(q) : Append(q, e)[i] = q[i]
  OBVIOUS
<1>2. \A e \in Messages : Append(q, e)[Len(q) + 1] = e /\ Len(Append(q, e)) = Len(q) + 1
  OBVIOUS
<1>3. "progress" \in Messages /\ Outcomes \subseteq Messages /\ Len(q) \in Nat
  BY DEF Messages
<1> QED BY <1>1, <1>2, <1>3 DEF NoneFinal, EndsFinal, IsFinal

\* Receiving from one: progress leaves it as open or as ended as it was.
LEMMA ReceiveFacts ==
  ASSUME NEW q \in Seq(Messages), q # <<>>
  PROVE  /\ NoneFinal(q) => ~IsFinal(Head(q)) /\ NoneFinal(Tail(q))
         /\ EndsFinal(q) /\ ~IsFinal(Head(q)) => EndsFinal(Tail(q))
<1>1. Len(q) \in Nat /\ Len(q) > 0 /\ Head(q) = q[1] /\ Len(Tail(q)) = Len(q) - 1
  OBVIOUS
<1>2. \A i \in 1..(Len(q) - 1) : Tail(q)[i] = q[i + 1]
  OBVIOUS
<1>3. ASSUME NoneFinal(q) PROVE ~IsFinal(Head(q)) /\ NoneFinal(Tail(q))
  <2>1. Head(q) = "progress"
    BY <1>1, <1>3 DEF NoneFinal
  <2> QED BY <1>1, <1>2, <1>3, <2>1 DEF NoneFinal, IsFinal, Outcomes
<1>4. ASSUME EndsFinal(q), ~IsFinal(Head(q)) PROVE EndsFinal(Tail(q))
  <2>1. Len(q) - 1 > 0
    BY <1>1, <1>4 DEF EndsFinal
  <2>2. Tail(q)[Len(q) - 1] = q[Len(q)]
    BY <1>1, <1>2, <2>1
  <2> QED BY <1>1, <1>2, <1>4, <2>1, <2>2 DEF EndsFinal
<1> QED BY <1>3, <1>4

\* Registrations differ from nil and from each other.
LEMMA RegistrationFacts ==
  /\ None \notin Registrations
  /\ \A r \in Requests, n \in 1..2 : Registration(r, n) \in Registrations
  /\ \A r, q \in Requests, n, m \in 1..2 : Registration(r, n) = Registration(q, m) => r = q
BY WebAssumption DEF Registrations, Registration

-----------------------------------------------------------------------------
(* Types *)

\* The initial state has its types.
LEMMA InitTypes == ASSUME WebInit PROVE WebTypeOK
BY WebAssumption DEF WebInit, WebTypeOK, Registrations

\* Registering and unregistering keep the types of what they write.
LEMMA RegistersTypes ==
  ASSUME registry \in [Ids -> Registrations \cup {None}], held \in [Requests -> 0..2],
         NEW r \in Requests, \/ \E n \in 1..2 : Registers(r, n)
                             \/ Unregisters(r)
                             \/ UNCHANGED <<registry, held>>
  PROVE  registry' \in [Ids -> Registrations \cup {None}] /\ held' \in [Requests -> 0..2]
<1>1. ASSUME NEW n \in 1..2, Registers(r, n)
      PROVE  registry' \in [Ids -> Registrations \cup {None}] /\ held' \in [Requests -> 0..2]
  <2>1. Registration(r, n) \in Registrations
    BY RegistrationFacts
  <2>2. registry' \in [Ids -> Registrations \cup {None}]
    BY <1>1, <2>1 DEF Registers
  <2>3. held' \in [Requests -> 0..2]
    BY <1>1 DEF Registers
  <2> QED BY <2>2, <2>3
<1>2. ASSUME Unregisters(r)
      PROVE  registry' \in [Ids -> Registrations \cup {None}] /\ held' \in [Requests -> 0..2]
  <2>1. registry' \in [Ids -> Registrations \cup {None}]
    BY <1>2 DEF Unregisters
  <2>2. held' \in [Requests -> 0..2]
    BY <1>2 DEF Unregisters
  <2> QED BY <2>1, <2>2
<1> QED BY <1>1, <1>2

\* Every step keeps the types.
LEMMA TypesKept ==
  ASSUME WebTypeOK, HeldInv, [WebNext]_webVars PROVE WebTypeOK'
<1> USE WebAssumption DEF WebTypeOK, Outcomes
<1>1. CASE UNCHANGED webVars
  BY <1>1 DEF webVars, runVars, readVars, clientVars
<1>2. ASSUME NEW r \in Requests, SubmitRaid(r) PROVE WebTypeOK'
  <2>1. CASE Free(r)
    <3>1. registry' \in [Ids -> Registrations \cup {None}] /\ held' \in [Requests -> 0..2]
      BY <1>2, <2>1, RegistersTypes DEF SubmitRaid
    <3> QED BY <1>2, <2>1, <3>1 DEF SubmitRaid, Served
  <2>2. CASE ~Free(r)
    <3>1. <<"error">> \in Seq(Outcomes \cup {"progress"}) /\ Len(<<"error">>) = 1 /\ 1 <= Cap
      BY WebAssumption
    <3> QED BY <1>2, <2>2, <3>1 DEF SubmitRaid, Served
  <2> QED BY <2>1, <2>2
<1>3. ASSUME NEW r \in Requests, SubmitBulk(r) PROVE WebTypeOK'
  BY <1>3 DEF SubmitBulk, Goes, Served
<1>4. ASSUME NEW r \in Requests, RunStep(r) PROVE WebTypeOK'
  <2> USE DEF Goes, Decides, Elsewhere, readVars, clientVars
  <2>1. CASE RegisterFirst(r)
    <3>1. registry' \in [Ids -> Registrations \cup {None}] /\ held' \in [Requests -> 0..2]
      BY <2>1, RegistersTypes DEF RegisterFirst
    <3> QED BY <2>1, <3>1 DEF RegisterFirst
  <2>2. CASE Generate(r)
    BY <2>2 DEF Generate
  <2>3. CASE Check(r)
    BY <2>3 DEF Check
  <2>4. CASE HandBack(r)
    <3>1. registry' \in [Ids -> Registrations \cup {None}] /\ held' \in [Requests -> 0..2]
      BY <2>4, RegistersTypes DEF HandBack
    <3> QED BY <2>4, <3>1 DEF HandBack
  <2>5. CASE RegisterAgain(r)
    <3>1. registry' \in [Ids -> Registrations \cup {None}] /\ held' \in [Requests -> 0..2]
      BY <2>5, RegistersTypes DEF RegisterAgain
    <3> QED BY <2>5, <3>1 DEF RegisterAgain
  <2>6. CASE Run(r)
    BY <2>6 DEF Run
  <2>7. CASE RunFinishes(r)
    BY <2>7 DEF RunFinishes
  <2>8. CASE Report(r)
    BY <2>8 DEF Report, Sends
  <2>9. CASE SendFinal(r)
    <3>1. verdict[r] \in Outcomes
      BY <2>9 DEF SendFinal, HeldInv
    <3> QED BY <2>9, <3>1 DEF SendFinal, Sends
  <2>10. CASE Unregister(r)
    <3>1. registry' \in [Ids -> Registrations \cup {None}] /\ held' \in [Requests -> 0..2]
      BY <2>10, RegistersTypes DEF Unregister
    <3> QED BY <2>10, <3>1 DEF Unregister
  <2> QED BY <1>4, <2>1, <2>2, <2>3, <2>4, <2>5, <2>6, <2>7, <2>8, <2>9, <2>10 DEF RunStep
<1>5. ASSUME NEW r \in Requests, Read(r) PROVE WebTypeOK'
  BY <1>5 DEF Read, runVars, clientVars
<1>6. ASSUME NEW r \in Requests, Timeout(r) PROVE WebTypeOK'
  BY <1>6 DEF Timeout, runVars, clientVars
<1>7. ASSUME NEW r \in Requests, ClientStep(r) PROVE WebTypeOK'
  <2> USE DEF ClientOnly, runVars, readVars
  <2>1. CASE Load(r)
    BY <2>1 DEF Load
  <2>2. CASE Write(r)
    BY <2>2 DEF Write
  <2>3. CASE WriteFails(r)
    BY <2>3 DEF WriteFails
  <2>4. CASE Delete(r)
    BY <2>4 DEF Delete
  <2>5. CASE AbortLooks(r)
    BY <2>5 DEF AbortLooks
  <2>6. CASE AbortTriggers(r)
    BY <2>6 DEF AbortTriggers
  <2> QED BY <1>7, <2>1, <2>2, <2>3, <2>4, <2>5, <2>6 DEF ClientStep
<1> QED BY <1>1, <1>2, <1>3, <1>4, <1>5, <1>6, <1>7 DEF WebNext

-----------------------------------------------------------------------------
(* The registry *)

\* Every step keeps what a goroutine holds and where its id leads in step.
LEMMA RegistryKept ==
  ASSUME WebTypeOK, RegistryInv, HeldInv, [WebNext]_webVars PROVE RegistryInv' /\ HeldInv'
<1>a. /\ registry \in [Ids -> Registrations \cup {None}] /\ held \in [Requests -> 0..2]
      /\ verdict \in [Requests -> Outcomes \cup {None}] /\ DOMAIN rpc = Requests
  BY DEF WebTypeOK
<1>b. \A q \in Requests : IdOf(q) \in Ids
  BY WebAssumption
<1>c. ASSUME NEW r \in Requests, Free(r), held[r] = 0, NEW n \in 1..2, Registers(r, n)
      PROVE  RegistryInv' /\ held' = [held EXCEPT ![r] = n]
  BY <1>a, <1>b, <1>c, RegistrationFacts DEF RegistryInv, Free, Registers
<1>d. ASSUME NEW r \in Requests, held[r] # 0, Unregisters(r)
      PROVE  RegistryInv' /\ held' = [held EXCEPT ![r] = 0]
  BY <1>a, <1>b, <1>d, RegistrationFacts DEF RegistryInv, Unregisters
<1>e. ASSUME UNCHANGED <<registry, held>> PROVE RegistryInv'
  BY <1>e DEF RegistryInv
<1> USE DEF HeldInv
<1>1. CASE UNCHANGED webVars
  BY <1>1, <1>e DEF webVars, runVars
<1>2. ASSUME NEW r \in Requests, SubmitRaid(r) PROVE RegistryInv' /\ HeldInv'
  <2>1. CASE Free(r)
    BY <1>2, <2>1, <1>a, <1>c DEF SubmitRaid
  <2>2. CASE ~Free(r)
    BY <1>2, <2>2, <1>a, <1>e DEF SubmitRaid
  <2> QED BY <2>1, <2>2
<1>3. ASSUME NEW r \in Requests, SubmitBulk(r) PROVE RegistryInv' /\ HeldInv'
  BY <1>3, <1>a, <1>e DEF SubmitBulk, Goes
<1>4. ASSUME NEW r \in Requests, RunStep(r) PROVE RegistryInv' /\ HeldInv'
  <2> USE DEF Goes, Decides
  <2>1. CASE RegisterFirst(r)
    <3>1. CASE Free(r)
      BY <2>1, <3>1, <1>a, <1>c DEF RegisterFirst
    <3>2. CASE ~Free(r)
      BY <2>1, <3>2, <1>a, <1>e DEF RegisterFirst, Outcomes
    <3> QED BY <3>1, <3>2
  <2>2. CASE Generate(r)
    BY <2>2, <1>a, <1>e DEF Generate, Outcomes
  <2>3. CASE Check(r)
    BY <2>3, <1>a, <1>e DEF Check, Outcomes
  <2>4. CASE HandBack(r)
    BY <2>4, <1>a, <1>d DEF HandBack
  <2>5. CASE RegisterAgain(r)
    <3>1. CASE Free(r)
      BY <2>5, <3>1, <1>a, <1>c DEF RegisterAgain
    <3>2. CASE ~Free(r)
      BY <2>5, <3>2, <1>a, <1>e DEF RegisterAgain, Outcomes
    <3> QED BY <3>1, <3>2
  <2>6. CASE Run(r)
    BY <2>6, <1>a, <1>e DEF Run, Outcomes
  <2>7. CASE RunFinishes(r)
    BY <2>7, <1>a, <1>e DEF RunFinishes, Outcomes
  <2>8. CASE Report(r)
    BY <2>8, <1>a, <1>e DEF Report, Sends
  <2>9. CASE SendFinal(r)
    BY <2>9, <1>a, <1>e DEF SendFinal, Sends
  <2>10. CASE Unregister(r)
    <3>1. CASE held[r] = 0
      BY <2>10, <3>1, <1>a, <1>e DEF Unregister
    <3>2. CASE held[r] # 0
      BY <2>10, <3>2, <1>a, <1>d DEF Unregister
    <3> QED BY <3>1, <3>2
  <2> QED BY <1>4, <2>1, <2>2, <2>3, <2>4, <2>5, <2>6, <2>7, <2>8, <2>9, <2>10 DEF RunStep
<1>5. ASSUME NEW r \in Requests, Read(r) \/ Timeout(r) \/ ClientStep(r)
      PROVE  RegistryInv' /\ HeldInv'
  <2>1. UNCHANGED <<registry, rpc, held, verdict>>
    BY <1>5 DEF Read, Timeout, ClientStep, Load, Write, WriteFails, Delete, AbortLooks,
       AbortTriggers, ClientOnly, runVars
  <2> QED BY <2>1, <1>e
<1> QED BY <1>1, <1>2, <1>3, <1>4, <1>5 DEF WebNext

\* What the invariant says in the words of the property.
LEMMA RegistryExactFromInv ==
  ASSUME WebTypeOK, RegistryInv PROVE RegistryIsExact
<1> SUFFICES ASSUME NEW i \in Ids
             PROVE  LET owners == {r \in Requests : IdOf(r) = i /\ held[r] # 0}
                    IN  IF owners = {} THEN registry[i] = None
                        ELSE \E r \in owners : owners = {r} /\ registry[i] = Registration(r, held[r])
  BY DEF RegistryIsExact
<1> DEFINE owners == {r \in Requests : IdOf(r) = i /\ held[r] # 0}
<1>1. CASE owners = {}
  BY <1>1 DEF RegistryInv
<1>2. CASE owners # {}
  <2>1. PICK r \in owners : TRUE
    BY <1>2
  <2>2. ASSUME NEW q \in owners PROVE q = r
    <3>1. Registration(q, held[q]) = Registration(r, held[r])
      BY <2>1, <2>2 DEF RegistryInv
    <3>2. held[q] \in 1..2 /\ held[r] \in 1..2
      BY <2>1, <2>2 DEF WebTypeOK
    <3> QED BY <2>1, <2>2, <3>1, <3>2, RegistrationFacts
  <2> QED BY <2>1, <2>2 DEF RegistryInv
<1> QED BY <1>1, <1>2

-----------------------------------------------------------------------------
(* The cache of progress *)

\* Every step keeps what a client has not heard in the cache.
LEMMA CacheKept ==
  ASSUME WebTypeOK, CacheInv, [WebNext]_webVars PROVE CacheInv'
<1>a. DOMAIN cpc = Requests /\ DOMAIN loaded = Requests /\ DOMAIN latest = Requests
  BY DEF WebTypeOK
<1> USE DEF CacheInv
<1>1. CASE UNCHANGED webVars
  BY <1>1 DEF webVars, readVars, clientVars
<1>2. ASSUME NEW r \in Requests, SubmitRaid(r) \/ SubmitBulk(r) PROVE CacheInv'
  BY <1>a, <1>2 DEF SubmitRaid, SubmitBulk, Served
<1>3. ASSUME NEW r \in Requests, RunStep(r) PROVE CacheInv'
  <2>1. UNCHANGED <<readVars, clientVars>>
    BY <1>3 DEF RunStep, RegisterFirst, Generate, Check, HandBack, RegisterAgain, Run,
        RunFinishes,
       Report, SendFinal, Unregister, Elsewhere, Sends
  <2> QED BY <2>1 DEF readVars, clientVars
<1>4. ASSUME NEW r \in Requests, Read(r) PROVE CacheInv'
  BY <1>4 DEF Read, clientVars
<1>5. ASSUME NEW r \in Requests, Timeout(r) PROVE CacheInv'
  BY <1>5 DEF Timeout, clientVars
<1>6. ASSUME NEW r \in Requests, ClientStep(r) PROVE CacheInv'
  <2> USE <1>a DEF ClientOnly, readVars
  <2>1. CASE Load(r)
    BY <2>1 DEF Load
  <2>2. CASE Write(r)
    BY <2>2 DEF Write
  <2>3. CASE WriteFails(r)
    BY <2>3 DEF WriteFails
  <2>4. CASE Delete(r)
    BY <2>4 DEF Delete
  <2>5. CASE AbortLooks(r)
    BY <2>5 DEF AbortLooks
  <2>6. CASE AbortTriggers(r)
    BY <2>6 DEF AbortTriggers
  <2> QED BY <1>6, <2>1, <2>2, <2>3, <2>4, <2>5, <2>6 DEF ClientStep
<1> QED BY <1>1, <1>2, <1>3, <1>4, <1>5, <1>6 DEF WebNext

-----------------------------------------------------------------------------
(* The reader *)

\* Every step keeps a run's messages where its reader finds them.
LEMMA ReaderKept ==
  ASSUME WebTypeOK, HeldInv, ReaderInv, [WebNext]_webVars PROVE ReaderInv'
<1>a. /\ DOMAIN cpc = Requests /\ DOMAIN latest = Requests /\ DOMAIN rpc = Requests
      /\ reporter \in [Requests -> Seq(Messages)]
  BY DEF WebTypeOK, Messages
<1>b. NoneFinal(<<>>) /\ EndsFinal(<<"error">>)
  BY DEF NoneFinal, EndsFinal, IsFinal, Outcomes
<1> USE DEF ReaderInv
<1>1. CASE UNCHANGED webVars
  BY <1>1 DEF webVars, runVars, readVars, clientVars
<1>2. ASSUME NEW r \in Requests, SubmitRaid(r) PROVE ReaderInv'
  <2>1. CASE Free(r)
    BY <1>2, <1>a, <1>b, <2>1 DEF SubmitRaid, Served
  <2>2. CASE ~Free(r)
    BY <1>2, <1>a, <1>b, <2>2 DEF SubmitRaid, Served
  <2> QED BY <2>1, <2>2
<1>3. ASSUME NEW r \in Requests, SubmitBulk(r) PROVE ReaderInv'
  BY <1>3, <1>a, <1>b DEF SubmitBulk, Goes, Served
<1>4. ASSUME NEW r \in Requests, RunStep(r) PROVE ReaderInv'
  <2> USE <1>a DEF Goes, Elsewhere, readVars, clientVars
  <2>1. CASE RegisterFirst(r)
    BY <2>1 DEF RegisterFirst
  <2>2. CASE Generate(r)
    BY <2>2 DEF Generate
  <2>3. CASE Check(r)
    BY <2>3 DEF Check
  <2>4. CASE HandBack(r)
    BY <2>4 DEF HandBack
  <2>5. CASE RegisterAgain(r)
    BY <2>5 DEF RegisterAgain
  <2>6. CASE Run(r)
    BY <2>6 DEF Run
  <2>7. CASE RunFinishes(r)
    BY <2>7 DEF RunFinishes
  <2>8. CASE Report(r)
    <3>1. r \notin timedOut => NoneFinal(Append(reporter[r], "progress"))
      BY <2>8, SendFacts DEF Report
    <3> QED BY <2>8, <3>1 DEF Report, Sends
  <2>9. CASE SendFinal(r)
    <3>1. r \notin timedOut => EndsFinal(Append(reporter[r], verdict[r]))
      BY <2>9, SendFacts DEF SendFinal, HeldInv
    <3> QED BY <2>9, <3>1 DEF SendFinal, Sends
  <2>10. CASE Unregister(r)
    BY <2>10 DEF Unregister
  <2> QED BY <1>4, <2>1, <2>2, <2>3, <2>4, <2>5, <2>6, <2>7, <2>8, <2>9, <2>10 DEF RunStep
<1>5. ASSUME NEW r \in Requests, Read(r) PROVE ReaderInv'
  <2>1. /\ NoneFinal(reporter[r]) => ~IsFinal(Head(reporter[r])) /\ NoneFinal(Tail(reporter[r]))
        /\ EndsFinal(reporter[r]) /\ ~IsFinal(Head(reporter[r])) => EndsFinal(Tail(reporter[r]))
    BY <1>a, <1>5, ReceiveFacts DEF Read
  <2> QED BY <1>5, <1>a, <2>1 DEF Read, runVars, clientVars
<1>6. ASSUME NEW r \in Requests, Timeout(r) PROVE ReaderInv'
  BY <1>6 DEF Timeout, runVars, clientVars
<1>7. ASSUME NEW r \in Requests, ClientStep(r) PROVE ReaderInv'
  <2>1. UNCHANGED <<runVars, reporter, reading, latest, timedOut>>
    BY <1>7 DEF ClientStep, Load, Write, WriteFails, Delete, AbortLooks, AbortTriggers,
       ClientOnly, readVars
  <2>2. \A q \in Requests : cpc[q] = "idle" <=> cpc'[q] = "idle"
    BY <1>7, <1>a DEF ClientStep, Load, Write, WriteFails, Delete, AbortLooks, AbortTriggers,
       ClientOnly
  <2> QED BY <2>1, <2>2 DEF runVars
<1> QED BY <1>1, <1>2, <1>3, <1>4, <1>5, <1>6, <1>7 DEF WebNext

\* WebInv is inductive.
LEMMA WebInvariant == WebSpec => []WebInv
<1>1. WebInit => WebInv
  <2> SUFFICES ASSUME WebInit PROVE WebInv
    OBVIOUS
  <2>1. RegistryInv
    BY WebAssumption DEF WebInit, RegistryInv
  <2>2. HeldInv
    BY DEF WebInit, HeldInv
  <2>3. CacheInv
    BY DEF WebInit, CacheInv
  <2>4. ReaderInv
    BY DEF WebInit, ReaderInv
  <2> QED BY <2>1, <2>2, <2>3, <2>4, InitTypes DEF WebInv
<1>2. WebInv /\ [WebNext]_webVars => WebInv'
  BY TypesKept, RegistryKept, CacheKept, ReaderKept DEF WebInv
<1> QED BY <1>1, <1>2, PTL DEF WebSpec

\* An id leads to the registration its goroutine holds and to nothing else,
\* whatever requests share it and however they register, hand back and
\* unregister (RegisterWithId, UnregisterId and their callers).
THEOREM RegistryCorrect == WebSpec => []RegistryIsExact
<1>1. WebInv => RegistryIsExact
  BY RegistryExactFromInv DEF WebInv
<1> QED BY <1>1, WebInvariant, PTL

\* A final result leaves the cache only once a client was sent it or the reader
\* gave the run up (handleAsyncAPI, the asyncProgress handler).
THEOREM ResultKept == WebSpec => []FinalNotLost
<1>1. WebInv => FinalNotLost
  BY DEF WebInv, CacheInv, FinalNotLost
<1> QED BY <1>1, WebInvariant, PTL

\* Until the reader gives a run up, its outcome is never nowhere: on its channel,
\* in the cache or with the client (RunRaidSimConcurrentAsync, handleAsyncAPI and
\* the asyncProgress handler together).
THEOREM OutcomeNeverNowhere == WebSpec => []OutcomeKept
<1>1. WebInv => OutcomeKept
  BY DEF WebInv, CacheInv, ReaderInv, OutcomeKept
<1> QED BY <1>1, WebInvariant, PTL

-----------------------------------------------------------------------------
(* The bulk sim: the invariant *)

\* Where runBulkSim may stand.
Places ==
    {"stages", "probe", "probing", "target", "rest", "resting", "batch", "waiting", "adapt",
     "again", "extending", "collected", "ranked", "finalists", "final", "metrics", "shown",
     "finished", "crashed"}
\* Where the baseline's next segment is about to be simmed or is, and where it has been.
Segmenting == {"probe", "probing", "rest", "resting", "again", "extending"}
Based ==
    {"target", "batch", "waiting", "adapt", "collected", "ranked", "finalists", "final", "shown"}

\* A result that covers its n first iterations, one that has none, and what may be simmed yet.
Done(r) == r \in ResultType /\ r # Nil /\ r.is = "done" /\ Follow(r.runs)
Good(r, n) == Done(r) /\ Simmed(r) = n
Bad(r) == r \in ResultType /\ r # Nil /\ r.is # "done" /\ r.runs = <<>>
Whole(r) == r = Nil \/ Bad(r) \/ Done(r)
Cover(r, n) == IF n = 0 THEN r = Nil ELSE Good(r, n)

\* Sequences without repetition, and membership; how many are shown, and a signal about to come.
OneEach(q) == \A i, j \in 1..Len(q) : q[i] = q[j] => i = j
In(q, x) == \E i \in 1..Len(q) : q[i] = x
Shown == Least(TopResults, Cardinality(Candidates))
Triggering == \E w \in Workers : worker[w].at = "trigger"

\* Types that say more than the type invariant: nothing is left twice.
WorkerType == [at : {"off", "take", "sim", "trigger"}, task : Candidates \cup {Nil}]
Types ==
    /\ pc \in Places /\ stage \in 1..Final
    /\ left \in Seq(Candidates) /\ OneEach(left)
    /\ baseline \in ResultType /\ results \in [Candidates -> ResultType]
    /\ carry \in CarryOvers \cup {Nil}
    /\ covered \in Nat /\ base \in Nat /\ pass \in Nat /\ segment \in [from : Nat, n : Nat]
    /\ jobs \in [queue : Seq(Candidates), closed : BOOLEAN] /\ fed \in Nat
    /\ worker \in [Workers -> WorkerType]
    /\ abort \in BOOLEAN /\ wanted \in BOOLEAN /\ failed \in BOOLEAN
    /\ outcome \in {Nil, "ok", "failed", "aborted"} /\ (outcome # Nil <=> pc = "finished")

\* Where the final stage begins.
StageInv ==
    /\ pc \in {"stages", "probe", "probing", "target", "rest", "resting", "adapt", "collected"}
          => stage # Final
    /\ pc \in {"ranked", "finalists", "final", "metrics", "shown"} => stage = Final
    /\ stage = Final /\ pc \in {"again", "extending", "batch"} => covered > Carried

\* What is carried is whole, and while it is extended no candidate lacks it.
CarryInv ==
    carry # Nil =>
        /\ carry.covered > 0 /\ carry.covered <= covered /\ Good(carry.baseline, carry.covered)
        /\ \A c \in Candidates : carry.by[c] = Nil \/ Good(carry.by[c], carry.covered)
        /\ pc \in Segmenting \cup {"target", "batch", "waiting"} =>
              \A i \in 1..Len(left) : carry.by[left[i]] # Nil

\* The baseline covers what it has simmed.
BaseInv ==
    /\ Whole(baseline)
    /\ pc \in Segmenting =>
          segment.n > 0 /\ covered = segment.from + segment.n /\ Cover(baseline, segment.from)
    /\ pc \in Based => Good(baseline, covered) /\ covered > 0
    /\ pc = "metrics" => covered > 0 /\ (Good(baseline, covered) \/ Bad(baseline))

\* A result of the stage covers all that the baseline does.
LeftGood == \A i \in 1..Len(left) : Good(results[left[i]], covered)
ResultsInv ==
    /\ \A c \in Candidates : Whole(results[c])
    /\ pc \in {"waiting", "adapt", "collected", "ranked", "finalists", "final"} =>
          \A c \in Candidates : results[c] = Nil \/ Bad(results[c]) \/ Good(results[c], covered)
    /\ pc \in {"waiting", "adapt", "collected"} =>
          \A c \in Candidates : results[c] # Nil => In(left, c)
    /\ pc \in {"ranked", "finalists", "shown"} \/ (pc = "metrics" /\ ~Errored(baseline)) => LeftGood

\* The pool runs while runBulkSim waits, on the candidates of the stage.
PoolInv ==
    /\ pc # "waiting" => \A w \in Workers : worker[w].at = "off"
    /\ pc = "waiting" =>
          /\ segment.from = Carried /\ covered = segment.from + segment.n /\ segment.n > 0
          /\ \A w \in Workers : worker[w].at = "sim" => In(left, worker[w].task)
          /\ \A i \in 1..Len(jobs.queue) : In(left, jobs.queue[i])

\* An error is on its way to the signal.
AbortInv ==
    /\ \A c \in Candidates : Errored(results[c]) => abort \/ Triggering
    /\ failed => abort \/ Triggering \/ outcome = "failed"

\* Without an abort no candidate is lost on its way through the feeder and the pool.
Handled(c) ==
    \/ results[c] # Nil
    \/ In(jobs.queue, c)
    \/ \E w \in Workers : worker[w].at = "sim" /\ worker[w].task = c
Fed ==
    /\ fed <= Len(left) /\ (jobs.closed => fed = Len(left))
    /\ \A i \in 1..fed : Handled(left[i])
    /\ (\E w \in Workers : worker[w].at # "off") \/ (jobs.closed /\ jobs.queue = <<>>)
LeftInv ==
    ~abort =>
        /\ Len(left) >= Shown
        /\ stage = Final /\ pc # "ranked" => Len(left) = Shown
        /\ pc # "waiting" => jobs.closed
        /\ pc \in {"adapt", "collected", "final"} =>
              \A i \in 1..Len(left) : results[left[i]] # Nil
        /\ pc = "waiting" => Fed

\* What is shown as a success.
OkInv ==
    outcome = "ok" => ~failed /\ Len(left) = Shown /\ Good(baseline, covered) /\ LeftGood

\* The invariant that every step keeps.
BulkInv ==
    Types /\ StageInv /\ CarryInv /\ BaseInv /\ ResultsInv /\ PoolInv /\ AbortInv /\ LeftInv /\ OkInv

-----------------------------------------------------------------------------
(* Lengths and totals *)

\* A set of naturals with a least element.
HasLeast(T) == \E m \in T : \A k \in T : m <= k

\* A set of naturals that is not empty has a least element: what stands in for an
\* induction over a length, as a least counterexample.
LEMMA LeastNatural == ASSUME NEW T, T \subseteq Nat, T # {} PROVE HasLeast(T)
<1> DEFINE R == OpToRel(<, Nat)
<1>1. \E m \in T : \A k \in T : ~(<<k, m>> \in R)
  <2>1. IsWellFoundedOn(R, Nat)
    BY NatLessThanWellFounded
  <2> HIDE DEF R
  <2> QED BY <2>1, WFMin
<1>2. PICK m \in T : \A k \in T : ~(<<k, m>> \in OpToRel(<, Nat))
  BY <1>1
<1>3. ASSUME NEW k \in T PROVE m <= k
  <2>1. ~(<<k, m>> \in {ss \in Nat \X Nat : ss[1] < ss[2]})
    BY <1>2 DEF OpToRel
  <2>2. ~(k < m)
    BY <2>1
  <2> QED BY <2>2
<1> QED BY <1>3 DEF HasLeast

\* f adds up the iterations of the first n of the segments.
Sums(f, runs, n) == f \in [0..n -> Nat] /\ f[0] = 0 /\ \A i \in 1..n : f[i] = f[i - 1] + runs[i].n

\* Every number of segments has a total.
LEMMA SumsExist == ASSUME NEW runs \in Runs, NEW n \in 0..Len(runs) PROVE \E f : Sums(f, runs, n)
<1>2. Len(runs) \in Nat /\ \A i \in 1..Len(runs) : runs[i].n \in Nat
  <2> DEFINE Z == [from : Nat, n : Nat \ {0}]
  <2>1. runs \in Seq(Z)
    BY DEF Runs
  <2>2. \A z \in Z : z.n \in Nat
    OBVIOUS
  <2> HIDE DEF Z
  <2>3. \A i \in 1..Len(runs) : runs[i] \in Z
    BY <2>1
  <2> QED BY <2>1, <2>2, <2>3
<1> DEFINE T == {m \in 0..Len(runs) : ~\E f : Sums(f, runs, m)}
<1>1. T = {}
  <2> SUFFICES ASSUME T # {} PROVE FALSE
    OBVIOUS
  <2>1. T \subseteq Nat
    OBVIOUS
  <2>2. PICK m \in T : \A k \in T : m <= k
    BY <2>1, LeastNatural DEF HasLeast
  <2>3. m \in 0..Len(runs) /\ ~\E f : Sums(f, runs, m)
    OBVIOUS
  <2>4. CASE m = 0
    <3> DEFINE z == [i \in 0..m |-> 0]
    <3>1. Sums(z, runs, m)
      BY <2>4 DEF Sums
    <3> QED BY <2>3, <3>1
  <2>5. CASE m # 0
    <3>1. m - 1 \in 0..Len(runs) /\ ~(m <= m - 1)
      BY <2>3, <2>5
    <3>2. m - 1 \notin T
      BY <2>2, <3>1
    <3>3. PICK f : Sums(f, runs, m - 1)
      BY <3>1, <3>2
    <3> DEFINE g == [i \in 0..m |-> IF i = m THEN f[m - 1] + runs[m].n ELSE f[i]]
    <3>4. m \in 1..Len(runs) /\ runs[m].n \in Nat
      <4>1. m \in 1..Len(runs)
        BY <1>2, <2>3, <2>5
      <4> QED BY <1>2, <4>1
    <3>5. f[m - 1] \in Nat /\ m - 1 \in 0..(m - 1)
      BY <3>1, <3>3 DEF Sums
    <3>6. g \in [0..m -> Nat]
      <4>1. ASSUME NEW i \in 0..m PROVE g[i] \in Nat
        <5>1. CASE i = m
          BY <3>4, <3>5, <5>1
        <5>2. CASE i # m
          <6>1. i \in 0..(m - 1)
            BY <3>4, <5>2
          <6> QED BY <3>3, <5>2, <6>1 DEF Sums
        <5> QED BY <5>1, <5>2
      <4> QED BY <4>1
    <3>7. g[0] = 0
      <4>1. 0 \in 0..m /\ 0 # m
        BY <3>4
      <4>2. g[0] = f[0]
        BY <4>1
      <4> QED BY <3>3, <4>2 DEF Sums
    <3>8. ASSUME NEW i \in 1..m PROVE g[i] = g[i - 1] + runs[i].n
      <4>1. i - 1 \in 0..m /\ i - 1 # m /\ g[i - 1] = f[i - 1]
        BY <3>4
      <4>2. CASE i = m
        BY <4>1, <4>2
      <4>3. CASE i # m
        <5>1. i \in 1..(m - 1) /\ g[i] = f[i]
          BY <3>4, <4>3
        <5> QED BY <3>3, <4>1, <5>1 DEF Sums
      <4> QED BY <4>2, <4>3
    <3> HIDE DEF g
    <3>9. Sums(g, runs, m)
      BY <3>6, <3>7, <3>8 DEF Sums
    <3> QED BY <2>3, <3>9
  <2> QED BY <2>4, <2>5
<1> QED BY <1>1

\* What Total computes.
LEMMA TotalFacts == ASSUME NEW runs \in Runs PROVE Sums(Total(runs), runs, Len(runs))
<1> DEFINE F(g) == g = [i \in 0..Len(runs) |-> IF i = 0 THEN 0 ELSE g[i - 1] + runs[i].n]
           t == CHOOSE g : F(g)
<1>1. Total(runs) = t
  BY DEF Total
<1>2. Len(runs) \in Nat /\ Len(runs) \in 0..Len(runs)
  BY DEF Runs
<1>3. PICK f : Sums(f, runs, Len(runs))
  BY <1>2, SumsExist
<1>4. F(f)
  <2>1. f = [i \in 0..Len(runs) |-> f[i]]
    BY <1>3 DEF Sums
  <2>2. ASSUME NEW i \in 0..Len(runs) PROVE f[i] = IF i = 0 THEN 0 ELSE f[i - 1] + runs[i].n
    <3>1. CASE i = 0
      BY <1>3, <3>1 DEF Sums
    <3>2. CASE i # 0
      <4>1. i \in 1..Len(runs)
        BY <1>2, <3>2
      <4> QED BY <1>3, <3>2, <4>1 DEF Sums
    <3> QED BY <3>1, <3>2
  <2> QED BY <2>1, <2>2
<1>5. F(t)
  <2> HIDE DEF F
  <2> QED BY <1>4
<1> HIDE DEF t
<1>6. t = [i \in 0..Len(runs) |-> IF i = 0 THEN 0 ELSE t[i - 1] + runs[i].n]
  BY <1>5
<1>7. t[0] = 0 /\ DOMAIN t = 0..Len(runs)
  BY <1>2, <1>6
<1>8. ASSUME NEW i \in 1..Len(runs) PROVE t[i] = t[i - 1] + runs[i].n
  <2>1. i \in 0..Len(runs) /\ i # 0
    BY <1>2
  <2> QED BY <1>6, <2>1
<1> DEFINE T == {i \in 0..Len(runs) : t[i] # f[i]}
<1>9. T = {}
  <2> SUFFICES ASSUME T # {} PROVE FALSE
    OBVIOUS
  <2>1. T \subseteq Nat
    OBVIOUS
  <2>2. PICK m \in T : \A k \in T : m <= k
    BY <2>1, LeastNatural DEF HasLeast
  <2>3. m \in 0..Len(runs) /\ t[m] # f[m]
    OBVIOUS
  <2>4. m # 0
    BY <1>3, <1>7, <2>3 DEF Sums
  <2>5. m \in 1..Len(runs) /\ m - 1 \in 0..Len(runs) /\ ~(m <= m - 1)
    BY <1>2, <2>3, <2>4
  <2>6. t[m - 1] = f[m - 1]
    BY <2>2, <2>5
  <2>7. f[m] = f[m - 1] + runs[m].n
    BY <1>3, <2>5 DEF Sums
  <2> QED BY <1>8, <2>3, <2>5, <2>6, <2>7
<1>10. ASSUME NEW i \in 0..Len(runs) PROVE t[i] = f[i]
  BY <1>9
<1>11. \A i \in 0..Len(runs) : t[i] \in Nat
  BY <1>3, <1>10 DEF Sums
<1>12. t \in [0..Len(runs) -> Nat]
  BY <1>6, <1>11
<1>13. Sums(t, runs, Len(runs))
  BY <1>7, <1>8, <1>12 DEF Sums
<1> QED BY <1>1, <1>13

\* Totals that add up the same segments agree.
LEMMA SumsAgree ==
  ASSUME NEW n \in Nat, NEW m \in Nat, n <= m, NEW r, NEW s, NEW f, NEW g, Sums(f, r, n), Sums(g, s, m),
         \A i \in 1..n : r[i] = s[i]
  PROVE  \A i \in 0..n : f[i] = g[i]
<1> DEFINE T == {i \in 0..n : f[i] # g[i]}
<1>1. T = {}
  <2> SUFFICES ASSUME T # {} PROVE FALSE
    OBVIOUS
  <2>1. T \subseteq Nat
    OBVIOUS
  <2>2. PICK k \in T : \A j \in T : k <= j
    BY <2>1, LeastNatural DEF HasLeast
  <2>3. k \in 0..n /\ f[k] # g[k]
    OBVIOUS
  <2>4. k # 0
    BY <2>3 DEF Sums
  <2>5. k \in 1..n /\ k \in 1..m /\ k - 1 \in 0..n /\ ~(k <= k - 1)
    BY <2>3, <2>4
  <2>6. f[k - 1] = g[k - 1]
    BY <2>2, <2>5
  <2>7. f[k] = f[k - 1] + r[k].n /\ g[k] = g[k - 1] + s[k].n /\ r[k] = s[k]
    BY <2>5 DEF Sums
  <2> QED BY <2>3, <2>6, <2>7
<1> QED BY <1>1

\* A result that is carried takes the next segment when the segment starts where it ends.
LEMMA ExtendedFollows ==
  ASSUME NEW runs \in Runs, NEW s \in [from : Nat, n : Nat \ {0}], Follow(runs),
         s.from = Total(runs)[Len(runs)]
  PROVE  /\ runs \o <<s>> \in Runs /\ Follow(runs \o <<s>>)
         /\ Total(runs \o <<s>>)[Len(runs \o <<s>>)] = s.from + s.n
<1> DEFINE more == runs \o <<s>>
           n == Len(runs)
<1>1. /\ more \in Runs /\ n \in Nat /\ Len(more) = n + 1 /\ more[n + 1] = s
      /\ \A i \in 1..n : runs[i] = more[i]
  BY DEF Runs
<1> HIDE DEF more
<1>2. Sums(Total(runs), runs, n) /\ Sums(Total(more), more, n + 1)
  BY <1>1, TotalFacts
<1>3. \A i \in 0..n : Total(runs)[i] = Total(more)[i]
  BY <1>1, <1>2, SumsAgree
<1>4. Total(more)[n + 1] = s.from + s.n
  <2>1. n + 1 \in 1..(n + 1) /\ n \in 0..n /\ (n + 1) - 1 = n
    BY <1>1
  <2>2. Total(more)[n + 1] = Total(more)[n] + more[n + 1].n
    BY <1>2, <2>1 DEF Sums
  <2> QED BY <1>1, <1>3, <2>1, <2>2
<1>5. ASSUME NEW i \in 1..(n + 1) PROVE more[i].from = Total(more)[i - 1]
  <2>1. i - 1 \in 0..n
    BY <1>1
  <2>2. Total(runs)[i - 1] = Total(more)[i - 1]
    BY <1>3, <2>1
  <2>3. CASE i = n + 1
    BY <1>1, <2>2, <2>3
  <2>4. CASE i # n + 1
    <3>1. i \in 1..n
      BY <1>1, <2>4
    <3> QED BY <1>1, <2>2, <3>1 DEF Follow
  <2> QED BY <2>3, <2>4
<1>6. Follow(more)
  BY <1>1, <1>5 DEF Follow
<1> QED BY <1>1, <1>4, <1>6 DEF more

\* A first segment that starts at the first iteration.
LEMMA FirstFollows ==
  ASSUME NEW s \in [from : Nat, n : Nat \ {0}], s.from = 0
  PROVE  <<s>> \in Runs /\ Follow(<<s>>) /\ Total(<<s>>)[Len(<<s>>)] = s.n
<1> DEFINE one == <<s>>
<1>1. one \in Runs /\ Len(one) = 1 /\ one[1] = s
  BY DEF Runs
<1> HIDE DEF one
<1>2. Sums(Total(one), one, 1)
  BY <1>1, TotalFacts
<1>3. Total(one)[0] = 0 /\ Total(one)[1] = Total(one)[1 - 1] + one[1].n
  BY <1>2 DEF Sums
<1>4. Total(one)[1] = s.n
  BY <1>1, <1>3
<1>5. Follow(one)
  <2> SUFFICES ASSUME NEW i \in 1..1 PROVE one[i].from = Total(one)[i - 1]
    BY <1>1 DEF Follow
  <2>1. i = 1 /\ i - 1 = 0
    OBVIOUS
  <2> QED BY <1>1, <1>3, <2>1
<1> QED BY <1>1, <1>4, <1>5 DEF one

-----------------------------------------------------------------------------
(* Candidates that are kept, in their order *)

\* f[i] is what of the first i elements of q lies in K.
Keeps(f, q, K, n) ==
    /\ f[0] = <<>>
    /\ \A i \in 1..n : f[i] = IF q[i] \in K THEN Append(f[i - 1], q[i]) ELSE f[i - 1]

\* Whatever is kept, there is what is kept of each prefix.
LEMMA KeepsExist == ASSUME NEW q, NEW K, NEW n \in Nat PROVE \E f : Keeps(f, q, K, n)
<1> DEFINE T == {m \in 0..n : ~\E f : Keeps(f, q, K, m)}
<1>1. T = {}
  <2> SUFFICES ASSUME T # {} PROVE FALSE
    OBVIOUS
  <2>1. T \subseteq Nat
    OBVIOUS
  <2>2. PICK m \in T : \A k \in T : m <= k
    BY <2>1, LeastNatural DEF HasLeast
  <2>3. m \in 0..n /\ ~\E f : Keeps(f, q, K, m)
    OBVIOUS
  <2>4. CASE m = 0
    <3> DEFINE z == [i \in 0..0 |-> <<>>]
    <3>1. Keeps(z, q, K, 0)
      BY DEF Keeps
    <3> QED BY <2>3, <2>4, <3>1
  <2>5. CASE m # 0
    <3>1. m - 1 \in 0..n /\ ~(m <= m - 1)
      BY <2>3, <2>5
    <3>2. m - 1 \notin T
      BY <2>2, <3>1
    <3>3. PICK f : Keeps(f, q, K, m - 1)
      BY <3>1, <3>2
    <3> DEFINE new == IF q[m] \in K THEN Append(f[m - 1], q[m]) ELSE f[m - 1]
               g == [i \in 0..m |-> IF i = m THEN new ELSE f[i]]
    <3>4. g[0] = <<>>
      <4>1. 0 \in 0..m /\ 0 # m
        BY <2>3, <2>5
      <4> QED BY <3>3, <4>1 DEF Keeps
    <3>5. ASSUME NEW i \in 1..m PROVE g[i] = IF q[i] \in K THEN Append(g[i - 1], q[i]) ELSE g[i - 1]
      <4>1. i \in 0..m /\ i - 1 \in 0..m /\ i - 1 # m /\ g[i - 1] = f[i - 1]
        BY <2>3
      <4>2. CASE i = m
        BY <4>1, <4>2
      <4>3. CASE i # m
        <5>1. i \in 1..(m - 1) /\ g[i] = f[i]
          BY <2>3, <4>1, <4>3
        <5> HIDE DEF g
        <5> QED BY <3>3, <4>1, <5>1 DEF Keeps
      <4> QED BY <4>2, <4>3
    <3> HIDE DEF g
    <3>6. Keeps(g, q, K, m)
      BY <3>4, <3>5 DEF Keeps
    <3> QED BY <2>3, <3>6
  <2> QED BY <2>4, <2>5
<1>2. n \notin T
  BY <1>1
<1> QED BY <1>2

\* p is q without what lies outside K.
Chosen(p, q, K, S) ==
    /\ p \in Seq(S) /\ OneEach(p)
    /\ \A x : In(p, x) <=> x \in K /\ In(q, x)

\* One more element.
LEMMA AppendNew ==
  ASSUME NEW S, NEW p \in Seq(S), OneEach(p), NEW x \in S, ~In(p, x)
  PROVE  /\ Append(p, x) \in Seq(S) /\ OneEach(Append(p, x))
         /\ \A y : In(Append(p, x), y) <=> y = x \/ In(p, y)
<1> DEFINE m == Append(p, x)
<1>1. /\ m \in Seq(S) /\ Len(p) \in Nat /\ Len(m) = Len(p) + 1 /\ m[Len(p) + 1] = x
      /\ \A i \in 1..Len(p) : m[i] = p[i]
  OBVIOUS
<1> HIDE DEF m
<1>2. OneEach(m)
  <2> SUFFICES ASSUME NEW i \in 1..Len(m), NEW j \in 1..Len(m), m[i] = m[j] PROVE i = j
    BY DEF OneEach
  <2>1. i \in 1..Len(p) \/ i = Len(p) + 1
    BY <1>1
  <2>2. j \in 1..Len(p) \/ j = Len(p) + 1
    BY <1>1
  <2> QED BY <1>1, <2>1, <2>2 DEF OneEach, In
<1>3. ASSUME NEW y PROVE In(m, y) <=> y = x \/ In(p, y)
  <2>1. ASSUME In(m, y) PROVE y = x \/ In(p, y)
    <3>1. PICK i \in 1..Len(m) : m[i] = y
      BY <2>1 DEF In
    <3>2. i \in 1..Len(p) \/ i = Len(p) + 1
      BY <1>1
    <3> QED BY <1>1, <3>1, <3>2 DEF In
  <2>2. ASSUME y = x PROVE In(m, y)
    <3>1. Len(p) + 1 \in 1..Len(m)
      BY <1>1
    <3> QED BY <1>1, <2>2, <3>1 DEF In
  <2>3. ASSUME In(p, y) PROVE In(m, y)
    <3>1. PICK i \in 1..Len(p) : p[i] = y
      BY <2>3 DEF In
    <3>2. i \in 1..Len(m)
      BY <1>1
    <3> QED BY <1>1, <3>1, <3>2 DEF In
  <2> QED BY <2>1, <2>2, <2>3
<1> QED BY <1>1, <1>2, <1>3 DEF m

\* What Kept computes.
LEMMA KeptFacts ==
  ASSUME NEW S, NEW q \in Seq(S), OneEach(q), NEW K
  PROVE  /\ Chosen(Kept(q, K), q, K, S)
         /\ (\A i \in 1..Len(q) : q[i] \in K) => Kept(q, K) = q
<1> DEFINE n == Len(q)
           F(g) == g = [i \in 0..n |-> IF i = 0 THEN <<>> ELSE
                                       IF q[i] \in K THEN Append(g[i - 1], q[i]) ELSE g[i - 1]]
           k == CHOOSE g : F(g)
<1>1. Kept(q, K) = k[n]
  BY DEF Kept
<1>2. n \in Nat /\ \A i \in 1..n : q[i] \in S
  OBVIOUS
<1> HIDE DEF n
<1>3. PICK f : Keeps(f, q, K, n)
  BY <1>2, KeepsExist
<1> DEFINE h == [i \in 0..n |-> f[i]]
<1>4. F(h)
  <2>1. ASSUME NEW i \in 0..n
        PROVE  h[i] = IF i = 0 THEN <<>> ELSE IF q[i] \in K THEN Append(h[i - 1], q[i]) ELSE h[i - 1]
    <3>1. CASE i = 0
      BY <1>3, <3>1 DEF Keeps
    <3>2. CASE i # 0
      <4>1. i \in 1..n /\ i - 1 \in 0..n /\ h[i - 1] = f[i - 1] /\ h[i] = f[i]
        BY <1>2, <3>2
      <4> HIDE DEF h
      <4> QED BY <1>3, <3>2, <4>1 DEF Keeps
    <3> QED BY <3>1, <3>2
  <2>2. h = [i \in 0..n |-> h[i]]
    OBVIOUS
  <2> HIDE DEF h
  <2> QED BY <2>1, <2>2
<1>5. F(k)
  <2> HIDE DEF F, h
  <2> QED BY <1>4
<1> HIDE DEF k
<1>6. k = [i \in 0..n |-> IF i = 0 THEN <<>> ELSE
                          IF q[i] \in K THEN Append(k[i - 1], q[i]) ELSE k[i - 1]]
  BY <1>5
<1> HIDE DEF F, h
<1>7. k[0] = <<>>
  <2>1. 0 \in 0..n
    BY <1>2
  <2> QED BY <1>6, <2>1
<1>8. ASSUME NEW i \in 1..n PROVE k[i] = IF q[i] \in K THEN Append(k[i - 1], q[i]) ELSE k[i - 1]
  <2>1. i \in 0..n /\ i # 0
    BY <1>2
  <2> QED BY <1>6, <2>1
<1> DEFINE Has(i, x) == \E j \in 1..i : q[j] = x
           Right(i) == /\ k[i] \in Seq(S) /\ OneEach(k[i])
                       /\ \A x : In(k[i], x) <=> x \in K /\ Has(i, x)
                       /\ (\A j \in 1..n : q[j] \in K) => Len(k[i]) = i /\ \A j \in 1..i : k[i][j] = q[j]
           T == {i \in 0..n : ~Right(i)}
<1>9. T = {}
  <2> SUFFICES ASSUME T # {} PROVE FALSE
    OBVIOUS
  <2>1. T \subseteq Nat
    OBVIOUS
  <2> HIDE DEF Right
  <2>2. PICK m \in T : \A j \in T : m <= j
    BY <2>1, LeastNatural DEF HasLeast
  <2>3. m \in 0..n /\ ~Right(m)
    OBVIOUS
  <2>4. CASE m = 0
    <3>1. <<>> \in Seq(S) /\ Len(<<>>) = 0 /\ 1..0 = {}
      OBVIOUS
    <3>2. OneEach(<<>>) /\ \A x : ~In(<<>>, x)
      BY <3>1 DEF OneEach, In
    <3>3. \A x : ~Has(0, x)
      BY <3>1
    <3>4. Right(0)
      BY <1>7, <3>1, <3>2, <3>3 DEF Right
    <3> QED BY <2>3, <2>4, <3>4
  <2>5. CASE m # 0
    <3>1. m \in 1..n /\ m - 1 \in 0..n /\ ~(m <= m - 1) /\ m \in Nat
      BY <1>2, <2>3, <2>5
    <3>2. m - 1 \notin T
      BY <2>2, <3>1
    <3>3. Right(m - 1)
      BY <3>1, <3>2
    <3> HIDE DEF T
    <3> DEFINE p == k[m - 1]
               e == q[m]
    <3>4. /\ p \in Seq(S) /\ OneEach(p)
          /\ \A x : In(p, x) <=> x \in K /\ Has(m - 1, x)
          /\ (\A j \in 1..n : q[j] \in K) => Len(p) = m - 1 /\ \A j \in 1..(m - 1) : p[j] = q[j]
      BY <3>3 DEF Right
    <3>5. e \in S /\ k[m] = IF e \in K THEN Append(p, e) ELSE p
      BY <1>2, <1>8, <3>1
    <3>6. ASSUME NEW x PROVE Has(m, x) <=> x = e \/ Has(m - 1, x)
      <4>1. \A j \in 1..m : j = m \/ j \in 1..(m - 1)
        BY <3>1
      <4>2. m \in 1..m /\ \A j \in 1..(m - 1) : j \in 1..m
        BY <3>1
      <4> QED BY <4>1, <4>2
    <3>7. ~Has(m - 1, e)
      <4>1. \A j \in 1..(m - 1) : j \in 1..n /\ j # m
        BY <1>2, <3>1
      <4>2. \A j \in 1..n : q[j] = q[m] => j = m
        BY <3>1 DEF OneEach, n
      <4> QED BY <4>1, <4>2
    <3> HIDE DEF Has, p, e
    <3>8. CASE e \in K
      <4>1. ~In(p, e)
        BY <3>4, <3>7
      <4>2. /\ Append(p, e) \in Seq(S) /\ OneEach(Append(p, e))
            /\ \A y : In(Append(p, e), y) <=> y = e \/ In(p, y)
        BY <3>4, <3>5, <4>1, AppendNew
      <4>3. ASSUME \A j \in 1..n : q[j] \in K
            PROVE  Len(Append(p, e)) = m /\ \A j \in 1..m : Append(p, e)[j] = q[j]
        <5>1. Len(p) = m - 1 /\ \A j \in 1..(m - 1) : p[j] = q[j]
          BY <3>4, <4>3
        <5>2. /\ Len(Append(p, e)) = m /\ Append(p, e)[m] = e
              /\ \A j \in 1..(m - 1) : Append(p, e)[j] = p[j]
          BY <3>1, <3>4, <3>5, <5>1
        <5>3. \A j \in 1..m : j = m \/ j \in 1..(m - 1)
          BY <3>1
        <5> QED BY <5>1, <5>2, <5>3 DEF e
      <4>4. k[m] = Append(p, e)
        BY <3>5, <3>8
      <4>5. \A x : In(Append(p, e), x) <=> x \in K /\ Has(m, x)
        BY <3>4, <3>6, <3>8, <4>2
      <4>6. Right(m)
        BY <4>2, <4>3, <4>4, <4>5 DEF Right
      <4> QED BY <2>3, <4>6
    <3>9. CASE e \notin K
      <4>1. k[m] = p
        BY <3>5, <3>9
      <4>2. ~(\A j \in 1..n : q[j] \in K)
        BY <3>1, <3>9 DEF e
      <4>3. \A x : In(p, x) <=> x \in K /\ Has(m, x)
        BY <3>4, <3>6, <3>9
      <4>4. Right(m)
        BY <3>4, <4>1, <4>2, <4>3 DEF Right
      <4> QED BY <2>3, <4>4
    <3> QED BY <3>8, <3>9
  <2> QED BY <2>4, <2>5
<1>10. Right(n)
  <2>1. n \in 0..n
    BY <1>2
  <2> HIDE DEF Right
  <2> QED BY <1>9, <2>1
<1>11. Chosen(k[n], q, K, S)
  BY <1>10 DEF Chosen, In, n
<1>12. (\A i \in 1..n : q[i] \in K) => k[n] = q
  <2> SUFFICES ASSUME \A i \in 1..n : q[i] \in K PROVE k[n] = q
    OBVIOUS
  <2>1. k[n] \in Seq(S) /\ Len(k[n]) = n /\ \A j \in 1..n : k[n][j] = q[j]
    BY <1>10
  <2> HIDE DEF Right
  <2> QED BY <2>1 DEF n
<1> QED BY <1>1, <1>11, <1>12 DEF n

\* A sequence in which nothing comes twice is as long as the set of what is in it.
LEMMA LenIsCardinality ==
  ASSUME NEW S, NEW q \in Seq(S), OneEach(q)
  PROVE  /\ IsFiniteSet(Range(q)) /\ Cardinality(Range(q)) = Len(q) /\ Range(q) \subseteq S
         /\ \A x : x \in Range(q) <=> In(q, x)
<1> DEFINE n == Len(q)
<1>1. n \in Nat /\ DOMAIN q = 1..n /\ q \in [1..n -> S]
  OBVIOUS
<1>2. \A x : x \in Range(q) <=> In(q, x)
  BY <1>1 DEF Range, In
<1>3. Range(q) \subseteq S
  BY <1>1 DEF Range
<1>4. q \in Bijection(1..n, Range(q))
  <2>1. q \in [1..n -> Range(q)]
    BY <1>1 DEF Range
  <2>2. IsInjective(q)
    BY <1>1 DEF IsInjective, OneEach
  <2>3. q \in Surjection(1..n, Range(q))
    BY <1>1, <2>1 DEF Surjection, Range
  <2> QED BY <2>1, <2>2, <2>3 DEF Bijection, Injection
<1>5. ExistsBijection(1..n, Range(q))
  BY <1>4 DEF ExistsBijection
<1>6. IsFiniteSet(1..n) /\ Cardinality(1..n) = n
  BY <1>1, FS_Interval
<1>7. IsFiniteSet(Range(q)) /\ Cardinality(Range(q)) = n
  BY <1>5, <1>6, FS_Bijection
<1> QED BY <1>2, <1>3, <1>7

\* The candidates in an order.
LEMMA CandidatesInOrder ==
  LET q == SetToSeq(Candidates)
  IN  q \in Seq(Candidates) /\ OneEach(q) /\ Len(q) = Cardinality(Candidates)
<1> DEFINE N == Cardinality(Candidates)
           q == SetToSeq(Candidates)
<1>1. N \in Nat /\ ExistsBijection(1..N, Candidates)
  BY BulkAssumption, FS_CardinalityType
<1>2. PICK f : f \in Bijection(1..N, Candidates)
  BY <1>1 DEF ExistsBijection
<1>3. f \in [1..N -> Candidates] /\ IsInjective(f)
  BY <1>2 DEF Bijection, Injection
<1>4. q \in [1..N -> Candidates] /\ IsInjective(q)
  BY <1>3 DEF SetToSeq
<1> HIDE DEF q
<1>5. q \in Seq(Candidates) /\ Len(q) = N
  BY <1>1, <1>4
<1>6. OneEach(q)
  BY <1>4, <1>5 DEF OneEach, IsInjective
<1> QED BY <1>5, <1>6 DEF q

\* No stage has more candidates than were asked for, and the run shows some.
LEMMA LeftIsBounded ==
  ASSUME NEW q \in Seq(Candidates), OneEach(q)
  PROVE  /\ Len(q) <= Cardinality(Candidates) /\ Cardinality(Candidates) \in Nat \ {0}
         /\ Shown \in Nat \ {0} /\ Shown <= TopResults /\ Shown <= Cardinality(Candidates)
         /\ TopResults <= Cardinality(Candidates) => Shown = TopResults
         /\ Cardinality(Candidates) <= TopResults => Shown = Cardinality(Candidates)
<1>1. IsFiniteSet(Candidates) /\ Candidates # {} /\ TopResults \in Nat \ {0}
  BY BulkAssumption
<1>2. Cardinality(Candidates) \in Nat /\ Cardinality(Candidates) # 0
  BY <1>1, FS_CardinalityType, FS_EmptySet
<1>3. Range(q) \in SUBSET Candidates /\ Cardinality(Range(q)) = Len(q)
  BY LenIsCardinality
<1>4. Len(q) <= Cardinality(Candidates)
  BY <1>1, <1>3, FS_Subset
<1> QED BY <1>1, <1>2, <1>4 DEF Shown, Least

\* What is chosen of a stage: as many as the set it is chosen by.
LEMMA ChosenOf ==
  ASSUME NEW q \in Seq(Candidates), OneEach(q), NEW on \in SUBSET Range(q)
  PROVE  LET p == Kept(q, on)
         IN  /\ p \in Seq(Candidates) /\ OneEach(p) /\ Len(p) = Cardinality(on)
             /\ \A x : In(p, x) => In(q, x)
<1> DEFINE p == Kept(q, on)
<1>1. Chosen(p, q, on, Candidates)
  BY KeptFacts
<1> HIDE DEF p
<1>2. p \in Seq(Candidates) /\ OneEach(p) /\ \A x : In(p, x) <=> x \in on /\ In(q, x)
  BY <1>1 DEF Chosen
<1>3. Range(p) = on
  BY <1>2, LenIsCardinality
<1>4. Len(p) = Cardinality(on)
  BY <1>2, <1>3, LenIsCardinality
<1> QED BY <1>2, <1>4 DEF p

\* The user aborts the run.
LEMMA CancelKeeps == ASSUME BulkInv, Cancel PROVE BulkInv'
<1> USE DEF BulkInv
<1>1. Types'
  BY DEF Cancel, pool, Types, Places, Final
<1>2. StageInv'
  BY DEF Cancel, pool, Types, StageInv, Carried
<1>3. CarryInv'
  BY DEF Cancel, pool, Types, CarryInv, Segmenting, Good, Done
<1>4. BaseInv'
  BY DEF Cancel, pool, Types, BaseInv, Segmenting, Based, Good, Bad, Whole, Done, Cover
<1>5. ResultsInv'
  BY DEF Cancel, pool, Types, ResultsInv, LeftGood, Errored
<1>6. PoolInv'
  BY DEF Cancel, pool, Types, PoolInv, Carried
<1>7. AbortInv'
  BY DEF Cancel, pool, Types, AbortInv, Triggering, Errored
<1>8. LeftInv'
  BY DEF Cancel, pool, Types, LeftInv, Fed, Handled
<1>9. OkInv'
  BY DEF Cancel, pool, Types, OkInv, LeftGood
<1> QED BY <1>1, <1>2, <1>3, <1>4, <1>5, <1>6, <1>7, <1>8, <1>9

\* The baseline is simmed for a segment.
LEMMA BaselineStartsKeeps == ASSUME BulkInv, BaselineStarts PROVE BulkInv'
<1> USE DEF BulkInv
<1>1. Types'
  BY DEF BaselineStarts, pool, Basing, Simming, Types, Places, Final
<1>2. StageInv'
  BY DEF BaselineStarts, pool, Basing, Simming, Types, StageInv, Carried
<1>3. CarryInv'
  BY DEF BaselineStarts, pool, Basing, Simming, Types, CarryInv, Segmenting, Good, Done
<1>4. BaseInv'
  BY DEF BaselineStarts, pool, Basing, Simming, Types, BaseInv, Segmenting, Based, Good, Bad,
      Whole, Done, Cover
<1>5. ResultsInv'
  BY DEF BaselineStarts, pool, Basing, Simming, Types, ResultsInv, LeftGood, Errored
<1>6. PoolInv'
  BY DEF BaselineStarts, pool, Basing, Simming, Types, PoolInv, Carried
<1>7. AbortInv'
  BY DEF BaselineStarts, pool, Basing, Simming, Types, AbortInv, Triggering, Errored
<1>8. LeftInv'
  BY DEF BaselineStarts, pool, Basing, Simming, Types, LeftInv, Fed, Handled
<1>9. OkInv'
  BY DEF BaselineStarts, pool, Basing, Simming, Types, OkInv, LeftGood
<1> QED BY <1>1, <1>2, <1>3, <1>4, <1>5, <1>6, <1>7, <1>8, <1>9

\* The workers are done.
LEMMA BatchEndsKeeps == ASSUME BulkInv, BatchEnds PROVE BulkInv'
<1> USE DEF BulkInv
<1>1. Types'
  BY DEF BatchEnds, pool, Types, Places, Final
<1>2. StageInv'
  BY DEF BatchEnds, pool, Types, StageInv, Carried
<1>3. CarryInv'
  BY DEF BatchEnds, pool, Types, CarryInv, Segmenting, Good, Done
<1>4. BaseInv'
  BY DEF BatchEnds, pool, Types, BaseInv, Segmenting, Based, Good, Bad, Whole, Done, Cover
<1>5. ResultsInv'
  BY DEF BatchEnds, pool, Types, ResultsInv, LeftGood, Errored
<1>6. PoolInv'
  BY DEF BatchEnds, pool, Types, PoolInv, Carried
<1>7. AbortInv'
  BY DEF BatchEnds, pool, Types, AbortInv, Triggering, Errored
<1>8. LeftInv'
  <2> SUFFICES ASSUME ~abort PROVE LeftInv'
    BY DEF BatchEnds, pool, LeftInv
  <2>1. jobs.closed /\ jobs.queue = <<>> /\ fed = Len(left) /\ \A i \in 1..fed : Handled(left[i])
    BY DEF BatchEnds, LeftInv, Fed
  <2>2. \A i \in 1..Len(left) : results[left[i]] # Nil
    BY <2>1 DEF BatchEnds, Handled, In
  <2> QED BY <2>1, <2>2 DEF BatchEnds, pool, LeftInv, StageInv
<1>9. OkInv'
  BY DEF BatchEnds, pool, Types, OkInv, LeftGood
<1> QED BY <1>1, <1>2, <1>3, <1>4, <1>5, <1>6, <1>7, <1>8, <1>9

\* The metrics of the finalist stage are read.
LEMMA MetricsKeeps == ASSUME BulkInv, Metrics PROVE BulkInv'
<1> USE DEF BulkInv
<1>1. Types'
  BY DEF Metrics, pool, Errored, Types, Places, Final
<1>2. StageInv'
  BY DEF Metrics, pool, Errored, Types, StageInv, Carried
<1>3. CarryInv'
  BY DEF Metrics, pool, Errored, Types, CarryInv, Segmenting, Good, Done
<1>4. BaseInv'
  BY DEF Metrics, pool, Errored, Types, BaseInv, Segmenting, Based, Good, Bad, Whole, Done, Cover
<1>5. ResultsInv'
  BY DEF Metrics, pool, Errored, Types, ResultsInv, LeftGood, Errored
<1>6. PoolInv'
  BY DEF Metrics, pool, Errored, Types, PoolInv, Carried
<1>7. AbortInv'
  BY DEF Metrics, pool, Errored, Types, AbortInv, Triggering, Errored
<1>8. LeftInv'
  BY DEF Metrics, pool, Errored, Types, LeftInv, Fed, Handled
<1>9. OkInv'
  BY DEF Metrics, pool, Errored, Types, OkInv, LeftGood
<1> QED BY <1>1, <1>2, <1>3, <1>4, <1>5, <1>6, <1>7, <1>8, <1>9

\* The results are shown.
LEMMA ShowKeeps == ASSUME BulkInv, Show PROVE BulkInv'
<1> USE DEF BulkInv
<1>1. Types'
  BY BulkAssumption DEF Show, pool, Finish, Types, Places, Final
<1>2. StageInv'
  BY DEF Show, pool, Finish, Types, StageInv, Carried
<1>3. CarryInv'
  BY DEF Show, pool, Finish, Types, CarryInv, Segmenting, Good, Done
<1>4. BaseInv'
  BY DEF Show, pool, Finish, Types, BaseInv, Segmenting, Based, Good, Bad, Whole, Done, Cover
<1>5. ResultsInv'
  BY DEF Show, pool, Finish, Types, ResultsInv, LeftGood, Errored
<1>6. PoolInv'
  BY DEF Show, pool, Finish, Types, PoolInv, Carried
<1>7. AbortInv'
  BY BulkAssumption DEF Show, pool, Finish, Types, AbortInv, Triggering, Errored, PoolInv
<1>8. LeftInv'
  BY DEF Show, pool, Finish, Types, LeftInv, Fed, Handled
<1>9. OkInv'
  BY BulkAssumption DEF Show, pool, Finish, Types, OkInv, LeftGood, BaseInv, Based, StageInv,
      LeftInv, ResultsInv, AbortInv, PoolInv, Triggering
<1> QED BY <1>1, <1>2, <1>3, <1>4, <1>5, <1>6, <1>7, <1>8, <1>9

\* The finalist stage starts, or is not needed.
LEMMA FinalistsKeeps == ASSUME BulkInv, Finalists PROVE BulkInv'
<1> USE DEF BulkInv
<1>1. Types'
  BY DEF Finalists, pool, Types, Places, Final
<1>2. StageInv'
  BY DEF Finalists, pool, Types, StageInv, Carried
<1>3. CarryInv'
  BY DEF Finalists, pool, Types, CarryInv, Segmenting, Good, Done
<1>4. BaseInv'
  BY DEF Finalists, pool, Types, BaseInv, Segmenting, Based, Good, Bad, Whole, Done, Cover
<1>5. ResultsInv'
  BY DEF Finalists, pool, Types, ResultsInv, LeftGood, Errored
<1>6. PoolInv'
  BY DEF Finalists, pool, Types, PoolInv, Carried
<1>7. AbortInv'
  BY DEF Finalists, pool, Types, AbortInv, Triggering, Errored
<1>8. LeftInv'
  BY DEF Finalists, pool, Types, LeftInv, Fed, Handled, ResultsInv, LeftGood, Good, Done
<1>9. OkInv'
  BY DEF Finalists, pool, Types, OkInv, LeftGood
<1> QED BY <1>1, <1>2, <1>3, <1>4, <1>5, <1>6, <1>7, <1>8, <1>9

\* What a sim that does not end well returns.
LEMMA ErroredResult ==
  ASSUME NEW v \in {"failed", "aborted"}
  PROVE  /\ Result(v) \in ResultType /\ Result(v) # Nil /\ Result(v).is = v /\ Errored(Result(v))
         /\ Bad(Result(v)) /\ ~Done(Result(v))
<1>1. Result(v) = [is |-> v, runs |-> <<>>]
  BY DEF Result
<1>2. <<>> \in Runs
  BY DEF Runs
<1>3. Result(v) \in Simulated
  BY <1>1, <1>2 DEF Simulated
<1> QED BY <1>1, <1>3, BulkAssumption DEF ResultType, Errored, Bad, Done


\* After an abort it is not.
LEMMA BaselineRefusedKeeps == ASSUME BulkInv, BaselineRefused PROVE BulkInv'
<1> USE DEF BulkInv
<1> DEFINE r == Result("aborted")
<1>0. /\ r \in ResultType /\ r # Nil /\ Errored(r) /\ Bad(r)
      /\ pc \in Segmenting /\ abort /\ UNCHANGED <<stage, left, carry, covered, base, pass,
                                                   segment, pool, abort, wanted, failed>>
      /\ \/ stage = Final /\ baseline' = r /\ pc' = "metrics" /\ outcome' = outcome
         \/ stage # Final /\ baseline' = baseline /\ pc' = "finished" /\ outcome' = "aborted"
  BY ErroredResult DEF BaselineRefused, Basing, Segmenting, BaselineErrs, Finish
<1> HIDE DEF r
<1>1. Types'
  BY <1>0, BulkAssumption DEF pool, Types, Places, Final, Segmenting
<1>2. StageInv'
  BY <1>0 DEF pool, Types, StageInv, Carried, Segmenting
<1>3. CarryInv'
  BY <1>0 DEF pool, Types, CarryInv, Segmenting, Good, Done
<1>4. BaseInv'
  BY <1>0 DEF pool, Types, BaseInv, Segmenting, Based, Good, Bad, Whole, Done, Cover
<1>5. ResultsInv'
  BY <1>0 DEF pool, Types, ResultsInv, LeftGood
<1>6. PoolInv'
  BY <1>0 DEF pool, Types, PoolInv, Carried, Segmenting
<1>7. AbortInv'
  BY <1>0 DEF pool, Types, AbortInv, Triggering
<1>8. LeftInv'
  BY <1>0 DEF pool, Types, LeftInv, Fed, Handled
<1>9. OkInv'
  BY <1>0, BulkAssumption DEF pool, Types, OkInv, LeftGood, Segmenting
<1> QED BY <1>1, <1>2, <1>3, <1>4, <1>5, <1>6, <1>7, <1>8, <1>9

\* The stage's configuration.
LEMMA ConfigFacts ==
  ASSUME stage \in 1..Final
  PROVE  /\ Len(Stages) \in Nat \ {0} /\ Final = Len(Stages) + 1 /\ Final \in Nat /\ stage \in Nat
         /\ stage # Final => /\ stage <= Len(Stages) /\ Config.min \in Nat \ {0} /\ Config.keep \in Nat
                             /\ Config.workers \in 1..Cardinality(Workers)
                             /\ Config.keep = 0 \/ Config.keep >= TopResults
         /\ stage = Len(Stages) => Config.keep = 0
         /\ stage = Final => Config.concurrent /\ Config.workers = 1
<1> DEFINE Z == [min : Nat \ {0}, keep : Nat, workers : 1..Cardinality(Workers), concurrent : BOOLEAN]
<1>1. Stages \in Seq(Z) /\ Stages # <<>> /\ Stages[Len(Stages)].keep = 0
  BY BulkAssumption
<1>2. Len(Stages) \in Nat \ {0} /\ Final = Len(Stages) + 1 /\ stage \in Nat
  <2> HIDE DEF Z
  <2> QED BY <1>1 DEF Final
<1>3. ASSUME stage # Final
      PROVE  /\ stage <= Len(Stages) /\ Config = Stages[stage] /\ Config \in Z
             /\ Config.keep = 0 \/ Config.keep >= TopResults
  <2>1. stage \in 1..Len(Stages) /\ Config = Stages[stage]
    BY <1>2, <1>3 DEF Config
  <2>2. Stages[stage] \in Z
    <3> HIDE DEF Z
    <3> QED BY <1>1, <2>1
  <2> QED BY <1>2, <2>1, <2>2, BulkAssumption
<1>4. \A z \in Z : z.min \in Nat \ {0} /\ z.keep \in Nat /\ z.workers \in 1..Cardinality(Workers)
  OBVIOUS
<1> HIDE DEF Z
<1>5. stage = Final => Config.concurrent /\ Config.workers = 1
  BY DEF Config
<1>6. stage = Len(Stages) => Config.keep = 0
  BY <1>1, <1>2, <1>3
<1> QED BY <1>2, <1>3, <1>4, <1>5, <1>6

\* What the end of a segment's sim makes of what is carried.
LEMMA MergeFacts ==
  ASSUME NEW r, segment \in [from : Nat, n : Nat], segment.n > 0, Cover(r, segment.from)
  PROVE  /\ Good(Merge(r, Result("done")), segment.from + segment.n)
         /\ \A v \in {"failed", "aborted"} : Merge(r, Result(v)) = Result(v)
<1> DEFINE d == Result("done")
<1>1. segment \in [from : Nat, n : Nat \ {0}] /\ segment.from \in Nat
  OBVIOUS
<1>2. d = [is |-> "done", runs |-> <<segment>>] /\ ~Errored(d)
  BY DEF Result, Errored
<1> HIDE DEF d
<1>3. ASSUME NEW v \in {"failed", "aborted"} PROVE Merge(r, Result(v)) = Result(v)
  BY ErroredResult DEF Merge, Cover, Good, Done, Errored
<1>4. CASE segment.from = 0
  <2>1. Merge(r, d) = d
    BY <1>4 DEF Cover, Merge
  <2>2. <<segment>> \in Runs /\ Follow(<<segment>>) /\ Total(<<segment>>)[Len(<<segment>>)] = segment.n
    BY <1>1, <1>4, FirstFollows
  <2>3. d \in Simulated /\ d # Nil
    BY <1>2, <2>2, BulkAssumption DEF Simulated
  <2>4. Good(d, segment.n)
    BY <1>2, <2>2, <2>3 DEF Good, Done, Simmed, ResultType
  <2> QED BY <1>1, <1>3, <1>4, <2>1, <2>4 DEF d
<1>5. CASE segment.from # 0
  <2>1. Good(r, segment.from)
    BY <1>5 DEF Cover
  <2>2. r \in Simulated /\ r # Nil /\ r.is = "done" /\ Follow(r.runs) /\ segment.from = Total(r.runs)[Len(r.runs)]
    BY <2>1 DEF Good, Done, Simmed, ResultType
  <2>3. r.runs \in Runs
    BY <2>2 DEF Simulated
  <2> DEFINE more == r.runs \o <<segment>>
             m == [is |-> "done", runs |-> more]
  <2>4. more \in Runs /\ Follow(more) /\ Total(more)[Len(more)] = segment.from + segment.n
    BY <1>1, <2>2, <2>3, ExtendedFollows
  <2>5. Merge(r, d) = m
    BY <1>2, <2>2 DEF Merge, Errored
  <2> HIDE DEF more
  <2>6. m \in Simulated /\ m # Nil
    BY <2>4, BulkAssumption DEF Simulated
  <2>7. Good(m, segment.from + segment.n)
    BY <2>4, <2>6 DEF Good, Done, Simmed, ResultType
  <2> QED BY <1>3, <2>5, <2>7 DEF d
<1> QED BY <1>4, <1>5

\* The baseline's sim returns.
LEMMA BaselineEndsKeeps == ASSUME BulkInv, BaselineEnds PROVE BulkInv'
<1> USE DEF BulkInv
<1> DEFINE Rest == UNCHANGED <<stage, left, carry, covered, base, pass, segment, pool, wanted>>
<1>1. /\ pc \in {"probing", "resting", "extending"} /\ Rest
      /\ \E v \in Verdicts :
            /\ v = "done" => /\ baseline' = Merge(baseline, Result(v)) /\ outcome' = outcome
                            /\ pc' = (IF pc = "probing" THEN "target" ELSE "batch")
            /\ v # "done" => BaselineErrs(v)
            /\ failed' = (failed \/ v = "failed")
            /\ abort' = (abort \/ (v = "failed" /\ Config.concurrent))
  BY DEF BaselineEnds, Basing, Simming, BaselineNext
<1>2. segment \in [from : Nat, n : Nat] /\ segment.n > 0 /\ Cover(baseline, segment.from) /\ covered = segment.from + segment.n
  BY <1>1 DEF Types, BaseInv, Segmenting
<1>3. CASE Rest /\ baseline' = Merge(baseline, Result("done")) /\ UNCHANGED <<outcome, failed,
                                                                              abort>>
           /\ pc' = (IF pc = "probing" THEN "target" ELSE "batch")
  <2> DEFINE m == Merge(baseline, Result("done"))
  <2>1. Good(m, covered)
    BY <1>2, MergeFacts
  <2>2. m \in ResultType
    BY <2>1 DEF Good, Done
  <2>3. baseline' = m
    BY <1>3
  <2> HIDE DEF m
  <2>4. Types'
    BY <1>1, <1>3, <2>2, <2>3 DEF pool, Types, Places, Final
  <2>5. StageInv'
    BY <1>1, <1>3 DEF pool, Types, StageInv, Carried
  <2>6. CarryInv'
    BY <1>1, <1>3 DEF pool, Types, CarryInv, Segmenting, Good, Done
  <2>7. BaseInv'
    BY <1>1, <1>2, <1>3, <2>1, <2>3 DEF pool, Types, BaseInv, Segmenting, Based, Good, Bad,
        Whole, Done, Cover
  <2>8. ResultsInv'
    BY <1>1, <1>3 DEF pool, Types, ResultsInv, LeftGood, Errored
  <2>9. PoolInv'
    BY <1>1, <1>3 DEF pool, Types, PoolInv, Carried
  <2>10. AbortInv'
    BY <1>1, <1>3 DEF pool, Types, AbortInv, Triggering, Errored
  <2>11. LeftInv'
    BY <1>1, <1>3 DEF pool, Types, LeftInv, Fed, Handled
  <2>12. OkInv'
    BY <1>1, <1>3, BulkAssumption DEF pool, Types, OkInv, LeftGood
  <2> QED BY <2>4, <2>5, <2>6, <2>7, <2>8, <2>9, <2>10, <2>11, <2>12
<1>4. ASSUME NEW v \in {"failed", "aborted"}, Rest, BaselineErrs(v), v = "aborted" => abort,
             failed' = (failed \/ v = "failed"), abort' = (abort \/ (v = "failed" /\ Config.concurrent))
      PROVE  BulkInv'
  <2> DEFINE r == Result(v)
  <2>1. r \in ResultType /\ r # Nil /\ Errored(r) /\ Bad(r)
    BY ErroredResult
  <2>2. \/ stage = Final /\ baseline' = r /\ pc' = "metrics" /\ outcome' = outcome
        \/ stage # Final /\ baseline' = baseline /\ pc' = "finished" /\ outcome' = v
    BY <1>4 DEF BaselineErrs, Finish
  <2>3. abort' \in BOOLEAN /\ (abort => abort') /\ (stage = Final => abort')
    BY <1>4, ConfigFacts DEF Types
  <2> HIDE DEF r
  <2> USE <1>1, <1>4, <2>1, <2>2, <2>3
  <2>4. Types'
    BY BulkAssumption DEF pool, Types, Places, Final
  <2>5. StageInv'
    BY DEF pool, Types, StageInv, Carried
  <2>6. CarryInv'
    BY DEF pool, Types, CarryInv, Segmenting, Good, Done
  <2>7. BaseInv'
    BY DEF pool, Types, BaseInv, Segmenting, Based, Good, Bad, Whole, Done, Cover
  <2>8. ResultsInv'
    BY DEF pool, Types, ResultsInv, LeftGood
  <2>9. PoolInv'
    BY DEF pool, Types, PoolInv, Carried
  <2>10. AbortInv'
    BY DEF pool, Types, AbortInv, Triggering
  <2>11. LeftInv'
    BY DEF pool, Types, LeftInv, Fed, Handled
  <2>12. OkInv'
    BY BulkAssumption DEF pool, Types, OkInv, LeftGood
  <2> QED BY <2>4, <2>5, <2>6, <2>7, <2>8, <2>9, <2>10, <2>11, <2>12
<1>5. PICK v \in Verdicts :
        /\ v = "done" => /\ baseline' = Merge(baseline, Result(v)) /\ outcome' = outcome
                        /\ pc' = (IF pc = "probing" THEN "target" ELSE "batch")
        /\ v # "done" => BaselineErrs(v)
        /\ failed' = (failed \/ v = "failed")
        /\ abort' = (abort \/ (v = "failed" /\ Config.concurrent))
  BY <1>1
<1>6. v \in {"done", "failed", "aborted"} /\ (v = "aborted" => abort)
  BY DEF Verdicts
<1>7. CASE v = "done"
  <2>1. failed' = failed /\ abort' = abort
    BY <1>5, <1>7 DEF Types
  <2> QED BY <1>1, <1>3, <1>5, <1>7, <2>1
<1>8. CASE v # "done"
  <2> HIDE DEF BulkInv, Rest
  <2> QED BY <1>1, <1>4, <1>5, <1>6, <1>8
<1> QED BY <1>7, <1>8

\* The probe's error sets the stage's target.
LEMMA SetTargetKeeps == ASSUME BulkInv, SetTarget PROVE BulkInv'
<1> USE DEF BulkInv
<1> DEFINE Rest == UNCHANGED <<stage, left, carry, baseline, base, pass, outcome, pool, abort,
                               wanted, failed>>
<1>1. PICK more \in Extra \cup {0} :
        LET target == Most(Config.min + more, covered)
        IN  /\ segment' = [from |-> covered, n |-> target - covered] /\ covered' = target
            /\ pc' = IF target > covered THEN "rest" ELSE "batch"
  BY DEF SetTarget
<1>2. pc = "target" /\ Rest
  BY DEF SetTarget
<1> DEFINE target == Most(Config.min + more, covered)
<1>3. stage # Final /\ covered \in Nat /\ covered > 0 /\ Good(baseline, covered) /\ stage \in 1..Final
  BY <1>2 DEF Types, StageInv, BaseInv, Based
<1>4. Config.min + more \in Nat
  <2>1. more \in Nat
    BY BulkAssumption
  <2> QED BY <1>3, <2>1, ConfigFacts
<1>5. target \in Nat /\ target >= covered
  BY <1>3, <1>4 DEF Most
<1>6. /\ segment' = [from |-> covered, n |-> target - covered] /\ covered' = target
      /\ pc' = IF target > covered THEN "rest" ELSE "batch"
  BY <1>1
<1> HIDE DEF target
<1>7. segment' \in [from : Nat, n : Nat] /\ segment'.from = covered /\ segment'.n = target - covered
  BY <1>3, <1>5, <1>6
<1> USE <1>2, <1>3, <1>5, <1>6, <1>7
<1>8. Types'
  BY DEF pool, Types, Places, Final
<1>9. StageInv'
  BY DEF pool, Types, StageInv, Carried
<1>10. CarryInv'
  BY DEF pool, Types, CarryInv, Segmenting, Good, Done, CarryOvers
<1>11. BaseInv'
  BY DEF pool, Types, BaseInv, Segmenting, Based, Good, Bad, Whole, Done, Cover
<1>12. ResultsInv'
  BY DEF pool, Types, ResultsInv, LeftGood
<1>13. PoolInv'
  BY DEF pool, Types, PoolInv, Carried
<1>14. AbortInv'
  BY DEF pool, Types, AbortInv, Triggering
<1>15. LeftInv'
  BY DEF pool, Types, LeftInv, Fed, Handled
<1>16. OkInv'
  BY BulkAssumption DEF pool, Types, OkInv, LeftGood
<1> QED BY <1>8, <1>9, <1>10, <1>11, <1>12, <1>13, <1>14, <1>15, <1>16

\* The next stage starts, is skipped, or the loop ends.
LEMMA NextStageKeeps == ASSUME BulkInv, NextStage PROVE BulkInv'
<1> USE DEF BulkInv
<1>1. /\ pc = "stages" /\ stage \in 1..Final /\ stage # Final /\ UNCHANGED <<pool, abort,
                                                                             wanted, failed>>
      /\ covered \in Nat /\ outcome = Nil
  BY DEF NextStage, StageInv, Types
<1>2. CASE abort /\ Finish("aborted") /\ UNCHANGED <<stage, left, carry, baseline, covered,
                                                     base, pass, segment>>
  <2> USE <1>1, <1>2 DEF Finish
  <2>1. Types'
    BY BulkAssumption DEF pool, Types, Places, Final
  <2>2. StageInv'
    BY DEF pool, Types, StageInv, Carried
  <2>3. CarryInv'
    BY DEF pool, Types, CarryInv, Segmenting, Good, Done
  <2>4. BaseInv'
    BY DEF pool, Types, BaseInv, Segmenting, Based, Good, Bad, Whole, Done, Cover
  <2>5. ResultsInv'
    BY DEF pool, Types, ResultsInv, LeftGood
  <2>6. PoolInv'
    BY DEF pool, Types, PoolInv, Carried
  <2>7. AbortInv'
    BY DEF pool, Types, AbortInv, Triggering
  <2>8. LeftInv'
    BY DEF pool, Types, LeftInv, Fed, Handled
  <2>9. OkInv'
    BY BulkAssumption DEF pool, Types, OkInv, LeftGood
  <2> QED BY <2>1, <2>2, <2>3, <2>4, <2>5, <2>6, <2>7, <2>8, <2>9
<1>3. CASE ~abort /\ Config.keep > 0 /\ stage' = stage + 1
           /\ UNCHANGED <<pc, left, carry, baseline, covered, base, pass, segment, outcome>>
  <2>0. stage' \in 1..Final /\ stage' # Final
    BY <1>1, <1>3, ConfigFacts
  <2> USE <1>1, <1>3, <2>0
  <2>1. Types'
    BY DEF pool, Types, Places, Final
  <2>2. StageInv'
    BY DEF pool, Types, StageInv, Carried
  <2>3. CarryInv'
    BY DEF pool, Types, CarryInv, Segmenting, Good, Done
  <2>4. BaseInv'
    BY DEF pool, Types, BaseInv, Segmenting, Based, Good, Bad, Whole, Done, Cover
  <2>5. ResultsInv'
    BY DEF pool, Types, ResultsInv, LeftGood
  <2>6. PoolInv'
    BY DEF pool, Types, PoolInv, Carried
  <2>7. AbortInv'
    BY DEF pool, Types, AbortInv, Triggering
  <2>8. LeftInv'
    BY DEF pool, Types, LeftInv, Fed, Handled
  <2>9. OkInv'
    BY DEF pool, Types, OkInv, LeftGood
  <2> QED BY <2>1, <2>2, <2>3, <2>4, <2>5, <2>6, <2>7, <2>8, <2>9
<1>4. CASE /\ ~abort
           /\ LET had == IF Covers THEN Carried ELSE 0
                  probe == Most(0, Config.min - had)
              IN  /\ carry' = IF Covers THEN carry ELSE Nil
                  /\ baseline' = IF Covers THEN carry.baseline ELSE Nil
                  /\ segment' = [from |-> had, n |-> probe]
                  /\ covered' = had + probe
                  /\ pc' = IF probe > 0 THEN "probe" ELSE "target"
           /\ pass' = 0 /\ UNCHANGED <<stage, left, base, outcome>>
  <2> DEFINE had == IF Covers THEN Carried ELSE 0
             probe == Most(0, Config.min - had)
  <2>1. /\ carry' = IF Covers THEN carry ELSE Nil
        /\ baseline' = IF Covers THEN carry.baseline ELSE Nil
        /\ segment' = [from |-> had, n |-> probe]
        /\ covered' = had + probe
        /\ pc' = IF probe > 0 THEN "probe" ELSE "target"
        /\ pass' = 0 /\ UNCHANGED <<stage, left, base, outcome>>
    BY <1>4
  <2>2. CASE Covers
    <3>1. /\ carry # Nil /\ carry \in CarryOvers /\ carry.covered > 0 /\ Good(carry.baseline, carry.covered)
          /\ \A i \in 1..Len(left) : carry.by[left[i]] # Nil
      BY <2>2 DEF Covers, CarryInv, Types
    <3>2. had = carry.covered /\ had \in Nat \ {0}
      BY <2>2, <3>1 DEF Carried, CarryOvers
    <3> HIDE DEF had
    <3>3. probe \in Nat
      BY <1>1, <3>2, ConfigFacts DEF Most
    <3> HIDE DEF probe
    <3>4. carry' = carry /\ baseline' = carry.baseline
      BY <2>1, <2>2
    <3>5. baseline' \in ResultType /\ Good(baseline', had)
      BY <3>1, <3>2, <3>4 DEF Good, Done
    <3>6. segment' \in [from : Nat, n : Nat] /\ segment'.from = had /\ segment'.n = probe
      BY <2>1, <3>2, <3>3
    <3>7. stage' = stage /\ left' = left /\ base' = base /\ outcome' = outcome /\ pass' = 0 /\ covered' = had + probe
          /\ pc' = IF probe > 0 THEN "probe" ELSE "target"
      BY <2>1
    <3> USE <1>1, <1>4, <3>1, <3>2, <3>3, <3>4, <3>5, <3>6, <3>7
    <3>8. Types'
      BY DEF pool, Types, Places, Final
    <3>9. StageInv'
      BY DEF pool, Types, StageInv, Carried
    <3>10. CarryInv'
      BY DEF pool, Types, CarryInv, Segmenting, Good, Done
    <3>11. BaseInv'
      BY DEF pool, Types, BaseInv, Segmenting, Based, Good, Bad, Whole, Done, Cover
    <3>12. ResultsInv'
      BY DEF pool, Types, ResultsInv, LeftGood
    <3>13. PoolInv'
      BY DEF pool, Types, PoolInv, Carried
    <3>14. AbortInv'
      BY DEF pool, Types, AbortInv, Triggering
    <3>15. LeftInv'
      BY DEF pool, Types, LeftInv, Fed, Handled
    <3>16. OkInv'
      BY BulkAssumption DEF pool, Types, OkInv, LeftGood
    <3> QED BY <3>8, <3>9, <3>10, <3>11, <3>12, <3>13, <3>14, <3>15, <3>16
  <2>3. CASE ~Covers
    <3>1. had = 0
      BY <2>3
    <3> HIDE DEF had
    <3>2. probe \in Nat /\ probe > 0
      BY <1>1, <3>1, ConfigFacts DEF Most
    <3> HIDE DEF probe
    <3>3. carry' = Nil /\ baseline' = Nil
      BY <2>1, <2>3
    <3>4. segment' \in [from : Nat, n : Nat] /\ segment'.from = 0 /\ segment'.n = probe
      BY <2>1, <3>1, <3>2
    <3>5. stage' = stage /\ left' = left /\ base' = base /\ outcome' = outcome /\ pass' = 0 /\ covered' = probe
          /\ pc' = "probe"
      BY <2>1, <3>1, <3>2
    <3> USE <1>1, <1>4, <3>2, <3>3, <3>4, <3>5
    <3>6. Types'
      BY DEF pool, Types, Places, Final, ResultType
    <3>7. StageInv'
      BY DEF pool, Types, StageInv, Carried
    <3>8. CarryInv'
      BY DEF pool, Types, CarryInv, Segmenting, Good, Done
    <3>9. BaseInv'
      BY DEF pool, Types, BaseInv, Segmenting, Based, Good, Bad, Whole, Done, Cover
    <3>10. ResultsInv'
      BY DEF pool, Types, ResultsInv, LeftGood
    <3>11. PoolInv'
      BY DEF pool, Types, PoolInv, Carried
    <3>12. AbortInv'
      BY DEF pool, Types, AbortInv, Triggering
    <3>13. LeftInv'
      BY DEF pool, Types, LeftInv, Fed, Handled
    <3>14. OkInv'
      BY BulkAssumption DEF pool, Types, OkInv, LeftGood
    <3> QED BY <3>6, <3>7, <3>8, <3>9, <3>10, <3>11, <3>12, <3>13, <3>14
  <2> QED BY <2>2, <2>3
<1> QED BY <1>2, <1>3, <1>4 DEF NextStage

\* A batch starts, or every candidate has all it takes.
LEMMA StartBatchKeeps == ASSUME BulkInv, StartBatch PROVE BulkInv'
<1> USE DEF BulkInv
<1>1. /\ pc = "batch" /\ UNCHANGED <<stage, left, carry, baseline, covered, base, pass,
                                     outcome, abort, wanted, failed>>
      /\ Good(baseline, covered) /\ covered > 0 /\ covered \in Nat /\ outcome = Nil
      /\ left \in Seq(Candidates) /\ OneEach(left)
  BY DEF StartBatch, BaseInv, Based, Types
<1>2. carry # Nil =>
         /\ carry \in CarryOvers /\ carry.covered \in Nat
         /\ carry.covered > 0 /\ carry.covered <= covered
         /\ \A i \in 1..Len(left) : carry.by[left[i]] # Nil
         /\ \A c \in Candidates : carry.by[c] = Nil \/ Good(carry.by[c], carry.covered)
  BY <1>1 DEF CarryInv, Types, CarryOvers
<1>3. CASE covered = Carried
  <2>1. /\ results' = [c \in Candidates |-> IF c \in Range(left) THEN carry.by[c] ELSE Nil]
        /\ pc' = "collected" /\ UNCHANGED <<segment, jobs, fed, worker>>
    BY <1>3 DEF StartBatch
  <2>2. carry # Nil /\ covered = carry.covered /\ stage # Final
    BY <1>1, <1>3 DEF Carried, StageInv
  <2>0. \A c \in Candidates : carry.by[c] = Nil \/ Good(carry.by[c], covered)
    BY <1>2, <2>2
  <2>3. \A c \in Candidates : c \in Range(left) <=> In(left, c)
    BY <1>1, LenIsCardinality
  <2>4. \A c \in Candidates : /\ results'[c] = Nil \/ Good(results'[c], covered)
                              /\ results'[c] \in ResultType /\ (results'[c] # Nil => In(left, c))
                              /\ In(left, c) => results'[c] = carry.by[c]
    <3> TAKE c \in Candidates
    <3>1. carry.by[c] \in ResultType
      BY <1>2, <2>2 DEF CarryOvers
    <3>2. results'[c] = IF In(left, c) THEN carry.by[c] ELSE Nil
      BY <2>1, <2>3
    <3>3. Nil \in ResultType
      BY DEF ResultType
    <3>4. CASE In(left, c)
      <4>1. results'[c] = carry.by[c] /\ (carry.by[c] = Nil \/ Good(carry.by[c], covered))
        BY <2>0, <3>2, <3>4
      <4> QED BY <3>1, <3>4, <4>1
    <3>5. CASE ~In(left, c)
      BY <3>2, <3>3, <3>5
    <3> QED BY <3>4, <3>5
  <2>5. results' \in [Candidates -> ResultType]
    BY <2>1, <2>4
  <2>6. \A i \in 1..Len(left) : left[i] \in Candidates /\ results'[left[i]] # Nil
    <3> TAKE i \in 1..Len(left)
    <3>1. left[i] \in Candidates /\ In(left, left[i])
      BY <1>1 DEF In
    <3> QED BY <1>2, <2>2, <2>4, <3>1
  <2>7. /\ pc' = "collected" /\ UNCHANGED <<segment, jobs, fed, worker>>
        /\ \A c \in Candidates : ~Errored(results'[c])
    BY <2>1, <2>4 DEF Errored, Good, Done
  <2> USE <1>1, <2>2, <2>4, <2>5, <2>6, <2>7
  <2>8. Types'
    BY DEF pool, Types, Places, Final
  <2>9. StageInv'
    BY DEF pool, Types, StageInv, Carried
  <2>10. CarryInv'
    BY DEF pool, Types, CarryInv, Segmenting, Good, Done
  <2>11. BaseInv'
    BY DEF pool, Types, BaseInv, Segmenting, Based, Good, Bad, Whole, Done, Cover
  <2>12. ResultsInv'
    BY DEF pool, Types, ResultsInv, LeftGood, Whole, Good
  <2>13. PoolInv'
    BY DEF pool, Types, PoolInv, Carried
  <2>14. AbortInv'
    BY DEF pool, Types, AbortInv, Triggering
  <2>15. LeftInv'
    BY DEF pool, Types, LeftInv, Fed, Handled
  <2>16. OkInv'
    BY BulkAssumption DEF pool, Types, OkInv, LeftGood
  <2> QED BY <2>8, <2>9, <2>10, <2>11, <2>12, <2>13, <2>14, <2>15, <2>16
<1>4. CASE covered # Carried
  <2>1. /\ results' = NoResults /\ pc' = "waiting"
        /\ segment' = [from |-> Carried, n |-> covered - Carried]
        /\ jobs' = [queue |-> <<>>, closed |-> FALSE] /\ fed' = 0
    BY <1>4 DEF StartBatch
  <2>2. PICK on \in SUBSET Workers :
            /\ Cardinality(on) = Most(1, Least(Config.workers, Len(left)))
            /\ worker' = [w \in Workers |-> [at |-> IF w \in on THEN "take" ELSE "off", task |-> Nil]]
    BY <1>4 DEF StartBatch
  <2>3. \E w \in Workers : w \in on
    <3>1. Config.workers \in Int /\ Len(left) \in Int
      BY <1>1, ConfigFacts DEF Types
    <3>2. Cardinality(on) # 0
      BY <2>2, <3>1 DEF Most, Least
    <3>3. on # {}
      BY <3>2, FS_EmptySet
    <3> QED BY <3>3
  <2>4. /\ worker' \in [Workers -> WorkerType] /\ (\E w \in Workers : worker'[w].at # "off")
        /\ \A w \in Workers : worker'[w].at # "sim"
    BY <2>2, <2>3 DEF WorkerType
  <2>5. Carried \in Nat /\ covered > Carried /\ Carried' = Carried
    BY <1>1, <1>2, <1>4 DEF Carried
  <2>6. segment' \in [from : Nat, n : Nat] /\ segment'.from = Carried /\ segment'.n = covered - Carried
    BY <1>1, <2>1, <2>5
  <2>7. /\ jobs' \in [queue : Seq(Candidates), closed : BOOLEAN] /\ ~jobs'.closed
        /\ jobs'.queue = <<>> /\ \A i \in 1..Len(jobs'.queue) : FALSE
    BY <2>1
  <2>8. /\ results' \in [Candidates -> ResultType] /\ (\A c \in Candidates : results'[c] = Nil)
        /\ pc' = "waiting" /\ fed' = 0
    BY <2>1 DEF NoResults, ResultType
  <2>9. failed => abort
    BY <1>1, BulkAssumption DEF AbortInv, PoolInv, Triggering
  <2> USE <1>1, <2>3, <2>4, <2>5, <2>6, <2>7, <2>8, <2>9
  <2>10. Types'
    BY DEF pool, Types, Places, Final
  <2>11. StageInv'
    BY DEF pool, Types, StageInv, Carried
  <2>12. CarryInv'
    BY DEF pool, Types, CarryInv, Segmenting, Good, Done
  <2>13. BaseInv'
    BY DEF pool, Types, BaseInv, Segmenting, Based, Good, Bad, Whole, Done, Cover
  <2>14. ResultsInv'
    BY DEF pool, Types, ResultsInv, LeftGood, Whole
  <2>15. PoolInv'
    BY DEF Types, PoolInv
  <2>16. AbortInv'
    BY DEF pool, Types, AbortInv, Triggering, Errored
  <2>17. LeftInv'
    BY DEF pool, Types, LeftInv, Fed, Handled, StageInv
  <2>18. OkInv'
    BY BulkAssumption DEF pool, Types, OkInv, LeftGood
  <2> QED BY <2>10, <2>11, <2>12, <2>13, <2>14, <2>15, <2>16, <2>17, <2>18
<1> QED BY <1>3, <1>4

\* What was simmed so far is carried to the next segment.
LEMMA ExtendKeeps ==
  ASSUME BulkInv, NEW n \in Nat, n > 0, Extend(n), ~StageFailed, pc \in {"adapt", "final"},
         left' \in Seq(Candidates), OneEach(left'), ~abort => Len(left') = Len(left),
         \A i \in 1..Len(left') : results[left'[i]] # Nil,
         UNCHANGED <<stage, baseline, base, outcome, pool, abort, wanted, failed>>
  PROVE  BulkInv'
<1> USE DEF BulkInv
<1>1. /\ segment' = [from |-> covered, n |-> n] /\ covered' = covered + n /\ carry' = CarryOver
      /\ pass' = pass + 1 /\ pc' = "again" /\ pc \in {"adapt", "final"} /\ outcome = Nil
      /\ UNCHANGED <<stage, baseline, base, outcome, pool, abort, wanted, failed>>
  BY DEF Extend, Types
<1>2. /\ covered \in Nat /\ covered > 0 /\ Good(baseline, covered) /\ pass' \in Nat
      /\ baseline \in ResultType /\ results \in [Candidates -> ResultType]
  BY <1>1 DEF Types, BaseInv, Based
<1>3. /\ carry' \in CarryOvers /\ carry' # Nil /\ carry'.covered = covered /\ carry'.baseline = baseline
      /\ carry'.by = results
  BY <1>1, <1>2, BulkAssumption DEF CarryOver, CarryOvers
<1>4. \A c \in Candidates : results[c] = Nil \/ Good(results[c], covered)
  BY <1>1 DEF ResultsInv, StageFailed, Bad, Errored
<1>5. segment' \in [from : Nat, n : Nat] /\ segment'.from = covered /\ segment'.n = n
  BY <1>1, <1>2
<1>6. covered' \in Nat /\ covered' > covered /\ covered' = covered + n /\ pc' = "again"
  BY <1>1, <1>2
<1>7. UNCHANGED <<results, jobs, fed, worker>>
  BY <1>1 DEF pool
<1> USE <1>1, <1>2, <1>3, <1>4, <1>5, <1>6, <1>7
<1>8. Types'
  BY DEF pool, Types, Places, Final
<1>9. StageInv'
  BY DEF pool, Types, StageInv, Carried
<1>10. CarryInv'
  BY DEF pool, Types, CarryInv, Segmenting, Good, Done
<1>11. BaseInv'
  BY DEF pool, Types, BaseInv, Segmenting, Based, Good, Bad, Whole, Done, Cover
<1>12. ResultsInv'
  BY DEF pool, Types, ResultsInv, LeftGood
<1>13. PoolInv'
  BY DEF pool, Types, PoolInv, Carried
<1>14. AbortInv'
  BY DEF pool, Types, AbortInv, Triggering
<1>15. LeftInv'
  BY DEF pool, Types, LeftInv, Fed, Handled
<1>16. OkInv'
  BY BulkAssumption DEF pool, Types, OkInv, LeftGood
<1> QED BY <1>8, <1>9, <1>10, <1>11, <1>12, <1>13, <1>14, <1>15, <1>16

\* A stage takes another pass, or not.
LEMMA AdaptKeeps == ASSUME BulkInv, Adapt PROVE BulkInv'
<1>1. CASE pc = "adapt" /\ pc' = "collected"
           /\ UNCHANGED <<covered, carry, pass, segment, stage, left, baseline, base, outcome,
                          pool, abort, wanted, failed>>
  <2> USE <1>1 DEF BulkInv
  <2>1. Types'
    BY DEF pool, Types, Places, Final
  <2>2. StageInv'
    BY DEF pool, Types, StageInv, Carried
  <2>3. CarryInv'
    BY DEF pool, Types, CarryInv, Segmenting, Good, Done
  <2>4. BaseInv'
    BY DEF pool, Types, BaseInv, Segmenting, Based, Good, Bad, Whole, Done, Cover
  <2>5. ResultsInv'
    BY DEF pool, Types, ResultsInv, LeftGood
  <2>6. PoolInv'
    BY DEF pool, Types, PoolInv, Carried
  <2>7. AbortInv'
    BY DEF pool, Types, AbortInv, Triggering
  <2>8. LeftInv'
    BY DEF pool, Types, LeftInv, Fed, Handled
  <2>9. OkInv'
    BY DEF pool, Types, OkInv, LeftGood
  <2> QED BY <2>1, <2>2, <2>3, <2>4, <2>5, <2>6, <2>7, <2>8, <2>9
<1>2. ASSUME NEW n \in Extra, pc = "adapt", ~abort, ~StageFailed, Extend(n),
             UNCHANGED <<stage, left, baseline, base, outcome, pool, abort, wanted, failed>>
      PROVE  BulkInv'
  <2>1. n \in Nat /\ n > 0
    BY BulkAssumption
  <2>2. left' \in Seq(Candidates) /\ OneEach(left') /\ left' = left
    BY <1>2 DEF BulkInv, Types
  <2>3. \A i \in 1..Len(left') : results[left'[i]] # Nil
    BY <1>2, <2>2 DEF BulkInv, LeftInv
  <2> QED BY <1>2, <2>1, <2>2, <2>3, ExtendKeeps
<1> QED BY <1>1, <1>2 DEF Adapt

\* The candidates that have a result.
LEMMA CollectedFacts ==
  ASSUME Types
  PROVE  /\ Collected \in Seq(Candidates) /\ OneEach(Collected)
         /\ \A x : In(Collected, x) <=> x \in Candidates /\ results[x] # Nil /\ In(left, x)
         /\ (\A i \in 1..Len(left) : results[left[i]] # Nil) => Collected = left
<1> DEFINE K == {c \in Candidates : results[c] # Nil}
<1>1. left \in Seq(Candidates) /\ OneEach(left)
  BY DEF Types
<1>2. /\ Chosen(Kept(left, K), left, K, Candidates)
      /\ (\A i \in 1..Len(left) : left[i] \in K) => Kept(left, K) = left
  <2> HIDE DEF K
  <2> QED BY <1>1, KeptFacts
<1>3. \A i \in 1..Len(left) : left[i] \in Candidates
  BY <1>1
<1>4. Collected = Kept(left, K)
  BY DEF Collected
<1>5. /\ Collected \in Seq(Candidates) /\ OneEach(Collected)
      /\ \A x : In(Collected, x) <=> x \in K /\ In(left, x)
  BY <1>2, <1>4 DEF Chosen
<1> QED BY <1>2, <1>3, <1>4, <1>5

\* The results shown are ranked.
LEMMA RankedKeeps == ASSUME BulkInv, Ranked PROVE BulkInv'
<1> USE DEF BulkInv
<1>1. /\ pc = "ranked" /\ UNCHANGED <<stage, carry, baseline, covered, base, pass, segment,
                                      pool, abort, wanted, failed>>
      /\ stage = Final /\ outcome = Nil /\ LeftGood
  BY DEF Ranked, StageInv, Types, ResultsInv
<1>2. CASE abort /\ Finish("aborted") /\ UNCHANGED left
  <2> USE <1>1, <1>2 DEF Finish
  <2>1. Types'
    BY BulkAssumption DEF pool, Types, Places, Final
  <2>2. StageInv'
    BY DEF pool, Types, StageInv, Carried
  <2>3. CarryInv'
    BY DEF pool, Types, CarryInv, Segmenting, Good, Done
  <2>4. BaseInv'
    BY DEF pool, Types, BaseInv, Segmenting, Based, Good, Bad, Whole, Done, Cover
  <2>5. ResultsInv'
    BY DEF pool, Types, ResultsInv, LeftGood
  <2>6. PoolInv'
    BY DEF pool, Types, PoolInv, Carried
  <2>7. AbortInv'
    BY DEF pool, Types, AbortInv, Triggering
  <2>8. LeftInv'
    BY DEF pool, Types, LeftInv, Fed, Handled
  <2>9. OkInv'
    BY BulkAssumption DEF pool, Types, OkInv, LeftGood
  <2> QED BY <2>1, <2>2, <2>3, <2>4, <2>5, <2>6, <2>7, <2>8, <2>9
<1>3. ASSUME ~abort, NEW on \in SUBSET Range(Collected), Cardinality(on) = Least(TopResults, Len(Collected)),
             left' = Kept(Collected, on), pc' = "finalists", UNCHANGED outcome
      PROVE  BulkInv'
  <2>1. Collected = left
    BY <1>1, CollectedFacts DEF LeftGood, Good, Done
  <2>2. left \in Seq(Candidates) /\ OneEach(left) /\ Len(left) \in Nat
    BY DEF Types
  <2>3. /\ left' \in Seq(Candidates) /\ OneEach(left') /\ Len(left') = Least(TopResults, Len(left))
        /\ \A x : In(left', x) => In(left, x)
    BY <1>3, <2>1, <2>2, ChosenOf
  <2>4. Len(left') = Shown
    <3>1. Len(left) >= Shown /\ Len(left) <= Cardinality(Candidates) /\ TopResults \in Nat
      BY <1>3, <2>2, LeftIsBounded, BulkAssumption DEF LeftInv
    <3> QED BY <1>3, <2>2, <2>3, <3>1, LeftIsBounded DEF Least
  <2>5. \A i \in 1..Len(left') : Good(results[left'[i]], covered)
    <3> TAKE i \in 1..Len(left')
    <3>1. In(left, left'[i])
      BY <2>3 DEF In
    <3> QED BY <1>1, <3>1 DEF In, LeftGood
  <2>6. LeftGood'
    BY <1>1, <2>5 DEF LeftGood, pool
  <2> USE <1>1, <1>3, <2>2, <2>3, <2>4, <2>6
  <2>7. Types'
    BY DEF pool, Types, Places, Final
  <2>8. StageInv'
    BY DEF pool, Types, StageInv, Carried
  <2>9. CarryInv'
    BY DEF pool, Types, CarryInv, Segmenting, Good, Done
  <2>10. BaseInv'
    BY DEF pool, Types, BaseInv, Segmenting, Based, Good, Bad, Whole, Done, Cover
  <2>11. ResultsInv'
    BY DEF pool, Types, ResultsInv, LeftGood
  <2>12. PoolInv'
    BY DEF pool, Types, PoolInv, Carried
  <2>13. AbortInv'
    BY DEF pool, Types, AbortInv, Triggering
  <2>14. LeftInv'
    BY DEF pool, Types, LeftInv, Fed, Handled, Shown, Final, Least
  <2>15. OkInv'
    BY BulkAssumption DEF pool, Types, OkInv, LeftGood
  <2> QED BY <2>7, <2>8, <2>9, <2>10, <2>11, <2>12, <2>13, <2>14, <2>15
<1> QED BY <1>1, <1>2, <1>3 DEF Ranked

\* A round of the finalist stage begins, or its last is over.
LEMMA RoundKeeps == ASSUME BulkInv, Round PROVE BulkInv'
<1> USE DEF BulkInv
<1> DEFINE K == {c \in Candidates : results[c] # Nil /\ ~Errored(results[c])}
           more == base * (FinalFactor + 1)
<1>1. /\ pc = "final" /\ UNCHANGED <<stage, baseline, base, outcome, pool, abort, wanted, failed>>
      /\ left' = Kept(left, K)
  BY DEF Round
<1>2. /\ left \in Seq(Candidates) /\ OneEach(left) /\ covered \in Nat /\ covered > 0
      /\ base \in Nat /\ stage = Final /\ outcome = Nil /\ Good(baseline, covered)
  BY <1>1 DEF Types, BaseInv, Based, StageInv
<1>3. /\ Chosen(left', left, K, Candidates)
      /\ (\A i \in 1..Len(left) : left[i] \in K) => left' = left
  <2> HIDE DEF K
  <2> QED BY <1>1, <1>2, KeptFacts
<1>4. left' \in Seq(Candidates) /\ OneEach(left') /\ \A x : In(left', x) => x \in K
  BY <1>3 DEF Chosen
<1>5. ~abort => left' = left
  <2> SUFFICES ASSUME ~abort, NEW i \in 1..Len(left) PROVE left[i] \in K
    BY <1>3
  <2>1. left[i] \in Candidates /\ results[left[i]] # Nil
    BY <1>1, <1>2 DEF LeftInv
  <2>2. ~Triggering
    BY <1>1 DEF PoolInv, Triggering
  <2>3. ~Errored(results[left[i]])
    BY <2>1, <2>2 DEF AbortInv
  <2> QED BY <2>1, <2>3
<1>6. \A i \in 1..Len(left') : /\ left'[i] \in Candidates /\ results[left'[i]] # Nil
                              /\ Good(results[left'[i]], covered)
  <2> TAKE i \in 1..Len(left')
  <2>1. left'[i] \in K
    BY <1>4 DEF In
  <2> QED BY <1>1, <2>1 DEF ResultsInv, Bad, Errored
<1> HIDE DEF K
<1>7. CASE covered < more /\ ~abort /\ ~StageFailed /\ Extend(Least(covered, more - covered))
  <2>1. more \in Nat
    BY <1>2, BulkAssumption
  <2> DEFINE n == Least(covered, more - covered)
  <2> HIDE DEF more
  <2>2. n \in Nat /\ n > 0
    BY <1>2, <1>7, <2>1 DEF Least
  <2>3. Extend(n)
    BY <1>7
  <2> HIDE DEF n
  <2> QED BY <1>1, <1>4, <1>5, <1>6, <1>7, <2>2, <2>3, ExtendKeeps
<1>8. CASE pc' = "metrics" /\ UNCHANGED <<covered, carry, pass, segment>>
  <2>1. LeftGood'
    BY <1>1, <1>6, <1>8 DEF LeftGood, pool
  <2> USE <1>1, <1>2, <1>4, <1>5, <1>8, <2>1
  <2>2. Types'
    BY DEF pool, Types, Places, Final
  <2>3. StageInv'
    BY DEF pool, Types, StageInv, Carried
  <2>4. CarryInv'
    BY DEF pool, Types, CarryInv, Segmenting, Good, Done
  <2>5. BaseInv'
    BY DEF pool, Types, BaseInv, Segmenting, Based, Good, Bad, Whole, Done, Cover
  <2>6. ResultsInv'
    BY DEF pool, Types, ResultsInv, LeftGood
  <2>7. PoolInv'
    BY DEF pool, Types, PoolInv, Carried
  <2>8. AbortInv'
    BY DEF pool, Types, AbortInv, Triggering
  <2>9. LeftInv'
    BY DEF pool, Types, LeftInv, Fed, Handled
  <2>10. OkInv'
    BY BulkAssumption DEF pool, Types, OkInv, LeftGood
  <2> QED BY <2>2, <2>3, <2>4, <2>5, <2>6, <2>7, <2>8, <2>9, <2>10
<1> QED BY <1>7, <1>8 DEF Round

\* A stage ends: with the first error, or with the survivors.
LEMMA StageEndsKeeps == ASSUME BulkInv, StageEnds PROVE BulkInv'
<1> USE DEF BulkInv
<1>1. /\ pc = "collected" /\ UNCHANGED <<baseline, covered, base, pass, segment, pool, abort,
                                         wanted, failed>>
      /\ stage \in 1..Final /\ stage # Final /\ covered \in Nat /\ covered > 0 /\ Good(baseline, covered)
      /\ outcome = Nil /\ results \in [Candidates -> ResultType] /\ baseline \in ResultType
  BY DEF StageEnds, Types, StageInv, BaseInv, Based
<1>2. /\ Collected \in Seq(Candidates) /\ OneEach(Collected)
      /\ \A x : In(Collected, x) <=> x \in Candidates /\ results[x] # Nil /\ In(left, x)
      /\ ~abort => Collected = left
  BY <1>1, CollectedFacts DEF LeftInv
<1>3. ASSUME NEW c \in Candidates, Errored(results[c]), Finish(results[Collected[FirstError]].is),
             UNCHANGED <<carry, stage, left>>
      PROVE  BulkInv'
  <2> DEFINE E == {i \in 1..Len(Collected) : Errored(results[Collected[i]])}
             First(i) == /\ Errored(results[Collected[i]])
                         /\ \A j \in 1..(i - 1) : ~Errored(results[Collected[j]])
  <2>1. In(Collected, c)
    BY <1>1, <1>2, <1>3 DEF ResultsInv, Errored
  <2>2. E # {} /\ E \subseteq Nat
    BY <1>3, <2>1 DEF In
  <2>3. PICK i \in E : \A k \in E : i <= k
    BY <2>2, LeastNatural DEF HasLeast
  <2>4. First(i)
    <3>1. i \in 1..Len(Collected) /\ Errored(results[Collected[i]]) /\ Len(Collected) \in Nat
      BY <1>2
    <3>2. ASSUME NEW j \in 1..(i - 1) PROVE ~Errored(results[Collected[j]])
      <4>1. j \in 1..Len(Collected) /\ ~(i <= j)
        BY <3>1
      <4>2. j \notin E
        BY <2>3, <4>1
      <4> QED BY <4>1, <4>2
    <3> QED BY <3>1, <3>2
  <2>5. FirstError \in 1..Len(Collected) /\ Errored(results[Collected[FirstError]])
    BY <2>4 DEF FirstError
  <2> DEFINE r == results[Collected[FirstError]]
  <2>6. r \in ResultType /\ r # Nil /\ r.is # "done"
    BY <1>1, <1>2, <2>5 DEF Errored
  <2>7. outcome' = r.is /\ r.is \in {"failed", "aborted"} /\ pc' = "finished"
    BY <1>3, <2>6 DEF Finish, ResultType, Simulated
  <2> HIDE DEF r, E, First
  <2> USE <1>1, <1>3, <2>7
  <2>8. Types'
    BY BulkAssumption DEF pool, Types, Places, Final
  <2>9. StageInv'
    BY DEF pool, Types, StageInv, Carried
  <2>10. CarryInv'
    BY DEF pool, Types, CarryInv, Segmenting, Good, Done
  <2>11. BaseInv'
    BY DEF pool, Types, BaseInv, Segmenting, Based, Good, Bad, Whole, Done, Cover
  <2>12. ResultsInv'
    BY DEF pool, Types, ResultsInv, LeftGood
  <2>13. PoolInv'
    BY DEF pool, Types, PoolInv, Carried
  <2>14. AbortInv'
    BY DEF pool, Types, AbortInv, Triggering
  <2>15. LeftInv'
    BY DEF pool, Types, LeftInv, Fed, Handled
  <2>16. OkInv'
    BY BulkAssumption DEF pool, Types, OkInv, LeftGood
  <2> QED BY <2>8, <2>9, <2>10, <2>11, <2>12, <2>13, <2>14, <2>15, <2>16
<1>4. ASSUME \A c \in Candidates : ~Errored(results[c]), carry' = CarryOver, stage' = stage + 1,
             pc' = (IF stage = Len(Stages) THEN "ranked" ELSE "stages"), UNCHANGED outcome,
             \/ (Config.keep = 0 \/ Len(Collected) <= Config.keep) /\ left' = Collected
             \/ \E on \in SUBSET Range(Collected) :
                   /\ Cardinality(on) >= Least(TopResults, Len(Collected))
                   /\ left' = Kept(Collected, on)
      PROVE  BulkInv'
  <2>1. \A c \in Candidates : results[c] = Nil \/ Good(results[c], covered)
    BY <1>1, <1>4 DEF ResultsInv, Bad, Errored
  <2>2. /\ left' \in Seq(Candidates) /\ OneEach(left') /\ \A x : In(left', x) => In(Collected, x)
        /\ left' = Collected \/ Len(left') >= Least(TopResults, Len(Collected))
    <3>1. CASE left' = Collected
      BY <1>2, <3>1
    <3>2. ASSUME NEW on \in SUBSET Range(Collected), Cardinality(on) >= Least(TopResults, Len(Collected)),
                 left' = Kept(Collected, on)
          PROVE  /\ left' \in Seq(Candidates) /\ OneEach(left') /\ \A x : In(left', x) => In(Collected, x)
                 /\ left' = Collected \/ Len(left') >= Least(TopResults, Len(Collected))
      BY <1>2, <3>2, ChosenOf
    <3> QED BY <1>4, <3>1, <3>2
  <2>3. ~abort => Len(left') >= Shown
    <3> SUFFICES ASSUME ~abort PROVE Len(left') >= Shown
      OBVIOUS
    <3>1. Len(Collected) >= Shown /\ Len(Collected) \in Nat
      BY <1>2 DEF LeftInv
    <3>2. TopResults \in Nat /\ Shown <= TopResults /\ Shown \in Nat /\ Len(left') \in Nat
      BY <1>2, <2>2, LeftIsBounded, BulkAssumption
    <3> QED BY <2>2, <3>1, <3>2 DEF Least
  <2>4. \A i \in 1..Len(left') : Good(results[left'[i]], covered)
    <3> TAKE i \in 1..Len(left')
    <3>1. In(Collected, left'[i])
      BY <2>2 DEF In
    <3> QED BY <1>2, <2>1, <3>1
  <2>5. LeftGood'
    BY <1>1, <2>4 DEF LeftGood, pool
  <2>6. /\ carry' \in CarryOvers /\ carry' # Nil /\ carry'.covered = covered /\ carry'.baseline = baseline
        /\ carry'.by = results
    BY <1>1, <1>4, BulkAssumption DEF CarryOver, CarryOvers
  <2>7. stage' \in 1..Final /\ (IF pc' = "ranked" THEN stage' = Final ELSE pc' = "stages" /\ stage' # Final)
    BY <1>1, <1>4, ConfigFacts
  <2>8. UNCHANGED <<results, jobs, fed, worker>>
    BY <1>1 DEF pool
  <2> USE <1>1, <1>4, <2>1, <2>2, <2>3, <2>5, <2>6, <2>7, <2>8
  <2>9. Types'
    BY DEF pool, Types, Places, Final
  <2>10. StageInv'
    BY DEF pool, Types, StageInv, Carried
  <2>11. CarryInv'
    BY DEF pool, Types, CarryInv, Segmenting, Good, Done
  <2>12. BaseInv'
    BY DEF pool, Types, BaseInv, Segmenting, Based, Good, Bad, Whole, Done, Cover
  <2>13. ResultsInv'
    BY DEF pool, Types, ResultsInv, LeftGood
  <2>14. PoolInv'
    BY DEF pool, Types, PoolInv, Carried
  <2>15. AbortInv'
    BY DEF pool, Types, AbortInv, Triggering
  <2>16. LeftInv'
    BY DEF pool, Types, LeftInv, Fed, Handled
  <2>17. OkInv'
    BY BulkAssumption DEF pool, Types, OkInv, LeftGood
  <2> QED BY <2>9, <2>10, <2>11, <2>12, <2>13, <2>14, <2>15, <2>16, <2>17
<1>5. CASE \E c \in Candidates : Errored(results[c])
  <2>1. Finish(results[Collected[FirstError]].is) /\ UNCHANGED <<carry, stage, left>>
    BY <1>5 DEF StageEnds
  <2> QED BY <1>3, <1>5, <2>1
<1>6. CASE ~\E c \in Candidates : Errored(results[c])
  <2> HIDE DEF BulkInv
  <2> QED BY <1>4, <1>6 DEF StageEnds
<1> QED BY <1>5, <1>6

\* The feeder sends a candidate.
LEMMA FeedNextKeeps == ASSUME BulkInv, FeedNext PROVE BulkInv'
<1> USE DEF BulkInv
<1> DEFINE e == left[fed + 1]
<1>1. /\ ~jobs.closed /\ ~abort /\ fed < Len(left) /\ jobs' = [jobs EXCEPT !.queue = Append(@, e)]
      /\ fed' = fed + 1 /\ UNCHANGED <<flow, results, worker, abort, failed>>
  BY DEF FeedNext
<1>2. /\ pc = "waiting" /\ outcome = Nil /\ fed \in Nat /\ left \in Seq(Candidates)
      /\ jobs.queue \in Seq(Candidates) /\ jobs \in [queue : Seq(Candidates), closed : BOOLEAN]
  BY <1>1 DEF LeftInv, Types
<1>3. e \in Candidates /\ In(left, e)
  <2>1. fed + 1 \in 1..Len(left)
    BY <1>1, <1>2
  <2> QED BY <1>2, <2>1 DEF In
<1> HIDE DEF e
<1> DEFINE q == jobs.queue
           p == Append(q, e)
<1>4. /\ p \in Seq(Candidates) /\ Len(p) = Len(q) + 1 /\ p[Len(q) + 1] = e /\ Len(q) \in Nat
      /\ \A i \in 1..Len(q) : p[i] = q[i]
  BY <1>2, <1>3
<1>5. jobs' \in [queue : Seq(Candidates), closed : BOOLEAN] /\ jobs'.queue = p /\ ~jobs'.closed
  BY <1>1, <1>2, <1>4
<1> HIDE DEF p
<1>6. ASSUME NEW i \in 1..Len(p) PROVE p[i] = e \/ In(q, p[i])
  <2>1. i = Len(q) + 1 \/ i \in 1..Len(q)
    BY <1>4
  <2> QED BY <1>4, <2>1 DEF In
<1>7. In(p, e) /\ \A x : In(q, x) => In(p, x)
  <2>1. Len(q) + 1 \in 1..Len(p) /\ \A i \in 1..Len(q) : i \in 1..Len(p)
    BY <1>4
  <2> QED BY <1>4, <2>1 DEF In
<1>8. \A i \in 1..Len(q) : In(left, q[i])
  BY <1>2 DEF PoolInv
<1>9. \A i \in 1..Len(p) : In(left, p[i])
  BY <1>3, <1>6, <1>8 DEF In
<1> HIDE DEF q
<1>10. UNCHANGED <<pc, stage, left, carry, baseline, covered, base, pass, segment, outcome,
                   wanted,
                  results, worker, abort, failed>>
  BY <1>1 DEF flow
<1>11. /\ fed' \in Nat /\ fed' <= Len(left) /\ \A i \in 1..fed' : Handled(left[i])'
  <2>1. Fed /\ Len(left) \in Nat
    BY <1>1, <1>2 DEF LeftInv
  <2>2. ASSUME NEW i \in 1..fed' PROVE Handled(left[i])'
    <3>1. CASE i = fed + 1
      BY <1>5, <1>7, <1>10, <3>1 DEF Handled, e
    <3>2. CASE i # fed + 1
      <4>1. i \in 1..fed
        BY <1>1, <1>2, <3>2
      <4>2. Handled(left[i])
        BY <2>1, <4>1 DEF Fed
      <4> QED BY <1>5, <1>7, <1>10, <4>2 DEF Handled, q
    <3> QED BY <3>1, <3>2
  <2> QED BY <1>1, <1>2, <2>1, <2>2
<1>12. \E w \in Workers : worker[w].at # "off"
  BY <1>1, <1>2 DEF LeftInv, Fed
<1> USE <1>1, <1>2, <1>5, <1>9, <1>10, <1>11, <1>12
<1>13. Types'
  BY DEF flow, Types, Places, Final
<1>14. StageInv'
  BY DEF flow, Types, StageInv, Carried
<1>15. CarryInv'
  BY DEF flow, Types, CarryInv, Segmenting, Good, Done
<1>16. BaseInv'
  BY DEF flow, Types, BaseInv, Segmenting, Based, Good, Bad, Whole, Done, Cover
<1>17. ResultsInv'
  BY DEF flow, Types, ResultsInv, LeftGood
<1>18. PoolInv'
  BY DEF flow, Types, PoolInv, Carried
<1>19. AbortInv'
  BY DEF flow, Types, AbortInv, Triggering
<1>20. LeftInv'
  BY DEF Types, LeftInv, Fed
<1>21. OkInv'
  BY BulkAssumption DEF flow, Types, OkInv, LeftGood
<1> QED BY <1>13, <1>14, <1>15, <1>16, <1>17, <1>18, <1>19, <1>20, <1>21

\* The feeder closes the channel.
LEMMA FeedStopsKeeps == ASSUME BulkInv, FeedStops PROVE BulkInv'
<1> USE DEF BulkInv
<1>1. /\ ~jobs.closed /\ (abort \/ fed = Len(left)) /\ jobs' = [jobs EXCEPT !.closed = TRUE]
      /\ UNCHANGED <<pc, stage, left, carry, baseline, covered, base, pass, segment, outcome,
                     wanted,
                     results, fed, worker, abort, failed>>
  BY DEF FeedStops, flow
<1>2. jobs \in [queue : Seq(Candidates), closed : BOOLEAN]
  BY DEF Types
<1>3. /\ jobs' \in [queue : Seq(Candidates), closed : BOOLEAN] /\ jobs'.closed /\ jobs'.queue = jobs.queue
  BY <1>1, <1>2
<1> USE <1>1, <1>3
<1>4. Types'
  BY DEF flow, Types, Places, Final
<1>5. StageInv'
  BY DEF flow, Types, StageInv, Carried
<1>6. CarryInv'
  BY DEF flow, Types, CarryInv, Segmenting, Good, Done
<1>7. BaseInv'
  BY DEF flow, Types, BaseInv, Segmenting, Based, Good, Bad, Whole, Done, Cover
<1>8. ResultsInv'
  BY DEF flow, Types, ResultsInv, LeftGood
<1>9. PoolInv'
  BY DEF flow, Types, PoolInv, Carried
<1>10. AbortInv'
  BY DEF flow, Types, AbortInv, Triggering
<1>11. LeftInv'
  BY DEF flow, Types, LeftInv, Fed, Handled
<1>12. OkInv'
  BY DEF flow, Types, OkInv, LeftGood
<1> QED BY <1>4, <1>5, <1>6, <1>7, <1>8, <1>9, <1>10, <1>11, <1>12

\* A worker can run while runBulkSim waits, and only then.
LEMMA WorkerWaits ==
  ASSUME BulkInv, NEW w \in Workers, worker[w].at # "off"
  PROVE  pc = "waiting" /\ outcome = Nil
BY DEF BulkInv, PoolInv, Types

\* A worker takes the next candidate.
LEMMA TakeKeeps == ASSUME BulkInv, NEW w \in Workers, Take(w) PROVE BulkInv'
<1> DEFINE q == jobs.queue
           e == Head(q)
           p == Tail(q)
           new == IF abort THEN [at |-> "off", task |-> Nil] ELSE [at |-> "sim", task |-> e]
<1>1. /\ worker[w].at = "take" /\ q # <<>> /\ jobs' = [jobs EXCEPT !.queue = p]
      /\ worker' = [worker EXCEPT ![w] = new]
      /\ UNCHANGED <<pc, stage, left, carry, baseline, covered, base, pass, segment, outcome,
                     wanted,
                     results, fed, abort, failed>>
  BY DEF Take, flow
<1>2. pc = "waiting" /\ outcome = Nil
  BY <1>1, WorkerWaits
<1> USE DEF BulkInv
<1>3. /\ jobs \in [queue : Seq(Candidates), closed : BOOLEAN] /\ q \in Seq(Candidates)
      /\ worker \in [Workers -> WorkerType]
  BY DEF Types
<1>4. /\ e \in Candidates /\ p \in Seq(Candidates) /\ Len(q) \in Nat \ {0} /\ Len(p) = Len(q) - 1 /\ e = q[1]
      /\ \A i \in 1..Len(p) : p[i] = q[i + 1]
  BY <1>1, <1>3
<1>5. /\ jobs' \in [queue : Seq(Candidates), closed : BOOLEAN] /\ jobs'.queue = p
      /\ jobs'.closed = jobs.closed
  BY <1>1, <1>3, <1>4
<1> HIDE DEF p, e
<1>6. /\ worker' \in [Workers -> WorkerType] /\ worker'[w] = new
      /\ \A v \in Workers : v # w => worker'[v] = worker[v]
  BY <1>1, <1>3, <1>4 DEF WorkerType, Types
<1>7. \A x : In(q, x) => x = e \/ In(p, x)
  <2> SUFFICES ASSUME NEW i \in 1..Len(q) PROVE q[i] = e \/ In(p, q[i])
    BY DEF In
  <2>1. CASE i = 1
    BY <1>4, <2>1
  <2>2. CASE i # 1
    <3>1. i - 1 \in 1..Len(p) /\ p[i - 1] = q[(i - 1) + 1]
      BY <1>4, <2>2
    <3> QED BY <3>1 DEF In
  <2> QED BY <2>1, <2>2
<1>8. In(left, e) /\ \A i \in 1..Len(p) : In(left, p[i])
  <2>1. \A i \in 1..Len(q) : In(left, q[i])
    BY <1>2 DEF PoolInv
  <2>2. 1 \in 1..Len(q) /\ \A i \in 1..Len(p) : i + 1 \in 1..Len(q)
    BY <1>4
  <2> QED BY <1>4, <2>1, <2>2
<1> HIDE DEF q
<1>9. \A c \in Candidates : Handled(c) /\ ~abort => Handled(c)'
  <2> SUFFICES ASSUME NEW c \in Candidates, Handled(c), ~abort PROVE Handled(c)'
    OBVIOUS
  <2>1. worker'[w] = [at |-> "sim", task |-> e]
    BY <1>6
  <2>2. CASE results[c] # Nil
    BY <1>1, <2>2 DEF Handled
  <2>3. CASE In(jobs.queue, c)
    BY <1>5, <1>7, <2>1, <2>3 DEF Handled, q
  <2>4. ASSUME NEW v \in Workers, worker[v].at = "sim", worker[v].task = c PROVE Handled(c)'
    BY <1>1, <1>6, <2>4 DEF Handled
  <2> QED BY <2>2, <2>3, <2>4 DEF Handled
<1>10. LeftInv'
  <2> SUFFICES ASSUME ~abort PROVE LeftInv'
    BY <1>1 DEF LeftInv
  <2>1. Fed /\ fed \in Nat /\ Len(left) \in Nat /\ left \in Seq(Candidates)
    BY <1>2 DEF LeftInv, Types
  <2>2. \A i \in 1..fed : Handled(left[i])'
    <3> TAKE i \in 1..fed
    <3>1. left[i] \in Candidates /\ Handled(left[i])
      BY <2>1 DEF Fed
    <3>2. \A c \in Candidates : Handled(c) => Handled(c)'
      BY <1>9
    <3> QED BY <1>1, <3>1, <3>2 DEF Handled
  <2>3. worker'[w].at # "off"
    BY <1>6
  <2>4. Fed'
    BY <1>1, <1>5, <2>1, <2>2, <2>3 DEF Fed
  <2> QED BY <1>1, <1>2, <2>4 DEF LeftInv
<1>11. worker'[w].at = (IF abort THEN "off" ELSE "sim") /\ (worker'[w].at = "sim" => worker'[w].task = e)
  BY <1>6
<1> HIDE DEF new
<1> USE <1>1, <1>2, <1>5, <1>6, <1>8, <1>11
<1>12. Types'
  BY DEF Types, Places, Final
<1>13. StageInv'
  BY DEF Types, StageInv, Carried
<1>14. CarryInv'
  BY DEF Types, CarryInv, Segmenting, Good, Done
<1>15. BaseInv'
  BY DEF Types, BaseInv, Segmenting, Based, Good, Bad, Whole, Done, Cover
<1>16. ResultsInv'
  BY DEF Types, ResultsInv, LeftGood
<1>17. PoolInv'
  BY DEF Types, PoolInv, Carried
<1>18. AbortInv'
  BY DEF Types, AbortInv, Triggering
<1>19. OkInv'
  BY BulkAssumption DEF Types, OkInv, LeftGood
<1> QED BY <1>10, <1>12, <1>13, <1>14, <1>15, <1>16, <1>17, <1>18, <1>19

\* A worker finds the channel closed and empty.
LEMMA LeaveKeeps == ASSUME BulkInv, NEW w \in Workers, Leave(w) PROVE BulkInv'
<1>1. /\ worker[w].at = "take" /\ jobs.queue = <<>> /\ jobs.closed
      /\ worker' = [worker EXCEPT ![w].at = "off"]
      /\ UNCHANGED <<pc, stage, left, carry, baseline, covered, base, pass, segment, outcome,
                     wanted,
                     results, jobs, fed, abort, failed>>
  BY DEF Leave, flow
<1>2. pc = "waiting" /\ outcome = Nil
  BY <1>1, WorkerWaits
<1> USE DEF BulkInv
<1>3. /\ worker' \in [Workers -> WorkerType] /\ worker'[w].at = "off"
      /\ \A v \in Workers : v # w => worker'[v] = worker[v]
  BY <1>1 DEF WorkerType, Types
<1>4. LeftInv'
  <2> SUFFICES ASSUME ~abort PROVE LeftInv'
    BY <1>1 DEF LeftInv
  <2>1. Fed /\ fed \in Nat /\ Len(left) \in Nat
    BY <1>2 DEF LeftInv, Types
  <2>2. \A i \in 1..fed : Handled(left[i])'
    BY <1>1, <1>3, <2>1 DEF Fed, Handled
  <2>3. Fed'
    BY <1>1, <2>1, <2>2 DEF Fed
  <2> QED BY <1>1, <1>2, <2>3 DEF LeftInv
<1> USE <1>1, <1>2, <1>3
<1>5. Types'
  BY DEF Types, Places, Final
<1>6. StageInv'
  BY DEF Types, StageInv, Carried
<1>7. CarryInv'
  BY DEF Types, CarryInv, Segmenting, Good, Done
<1>8. BaseInv'
  BY DEF Types, BaseInv, Segmenting, Based, Good, Bad, Whole, Done, Cover
<1>9. ResultsInv'
  BY DEF Types, ResultsInv, LeftGood
<1>10. PoolInv'
  BY DEF Types, PoolInv, Carried
<1>11. AbortInv'
  BY DEF Types, AbortInv, Triggering
<1>12. OkInv'
  BY BulkAssumption DEF Types, OkInv, LeftGood
<1> QED BY <1>4, <1>5, <1>6, <1>7, <1>8, <1>9, <1>10, <1>11, <1>12

\* A sim of the pool returns.
LEMMA SimEndsKeeps == ASSUME BulkInv, NEW w \in Workers, SimEnds(w) PROVE BulkInv'
<1> DEFINE c == worker[w].task
           had == IF carry = Nil THEN Nil ELSE carry.by[c]
<1>1. PICK v \in Verdicts :
        LET r == Merge(had, Result(v))
        IN  /\ results' = [results EXCEPT ![c] = r]
            /\ worker' = [worker EXCEPT ![w] = [at |-> IF Errored(r) THEN "trigger" ELSE "take", task |-> Nil]]
            /\ failed' = (failed \/ v = "failed")
            /\ abort' = (abort \/ (v = "failed" /\ Config.concurrent))
  BY DEF SimEnds
<1>2. /\ worker[w].at = "sim"
      /\ UNCHANGED <<pc, stage, left, carry, baseline, covered, base, pass, segment, outcome,
                     wanted, jobs, fed>>
  BY DEF SimEnds, flow
<1>3. pc = "waiting" /\ outcome = Nil
  BY <1>2, WorkerWaits
<1> USE DEF BulkInv
<1>4. /\ segment \in [from : Nat, n : Nat] /\ segment.n > 0 /\ segment.from = Carried
      /\ covered = segment.from + segment.n /\ In(left, c) /\ c \in Candidates /\ left \in Seq(Candidates)
      /\ worker \in [Workers -> WorkerType] /\ results \in [Candidates -> ResultType]
  BY <1>2, <1>3 DEF PoolInv, Types, In
<1>5. Cover(had, segment.from)
  <2>1. CASE carry = Nil
    BY <1>4, <2>1 DEF Cover, Carried
  <2>2. CASE carry # Nil
    <3>1. had # Nil /\ Good(had, carry.covered) /\ carry.covered > 0
      BY <1>3, <1>4, <2>2 DEF CarryInv, In
    <3> QED BY <1>4, <2>2, <3>1 DEF Cover, Carried
  <2> QED BY <2>1, <2>2
<1> DEFINE r == Merge(had, Result(v))
<1>6. /\ r \in ResultType /\ r # Nil /\ (Bad(r) \/ Good(r, covered)) /\ (v = "failed" => Errored(r))
  <2>1. CASE v = "done"
    BY <1>4, <1>5, <2>1, MergeFacts DEF Good, Done
  <2>2. CASE v # "done"
    <3>1. v \in {"failed", "aborted"}
      BY <2>2 DEF Verdicts
    <3>2. r = Result(v)
      BY <1>4, <1>5, <3>1, MergeFacts
    <3> QED BY <3>1, <3>2, ErroredResult
  <2> QED BY <2>1, <2>2
<1>7. /\ results' = [results EXCEPT ![c] = r]
      /\ worker' = [worker EXCEPT ![w] = [at |-> IF Errored(r) THEN "trigger" ELSE "take", task |-> Nil]]
      /\ failed' = (failed \/ v = "failed") /\ abort' = (abort \/ (v = "failed" /\ Config.concurrent))
  BY <1>1
<1> HIDE DEF r, had, c
<1>8. /\ results' \in [Candidates -> ResultType] /\ results'[c] = r
      /\ \A d \in Candidates : d # c => results'[d] = results[d]
  BY <1>4, <1>6, <1>7
<1>9. /\ worker' \in [Workers -> WorkerType] /\ worker'[w].at = (IF Errored(r) THEN "trigger" ELSE "take")
      /\ \A u \in Workers : u # w => worker'[u] = worker[u]
  BY <1>4, <1>7 DEF WorkerType
<1>10. /\ abort' \in BOOLEAN /\ failed' \in BOOLEAN /\ (abort => abort') /\ (failed' => failed \/ Errored(r))
  <2>1. abort \in BOOLEAN /\ failed \in BOOLEAN
    BY DEF Types
  <2>2. stage = Final \/ Config.concurrent \in BOOLEAN \/ TRUE
    OBVIOUS
  <2> QED BY <1>6, <1>7, <2>1
<1>11. LeftInv'
  <2> SUFFICES ASSUME ~abort' PROVE LeftInv'
    BY DEF LeftInv
  <2>1. ~abort /\ Fed /\ fed \in Nat /\ Len(left) \in Nat /\ left \in Seq(Candidates)
    BY <1>3, <1>10 DEF LeftInv, Types
  <2>2. ASSUME NEW i \in 1..fed PROVE Handled(left[i])'
    <3>1. Handled(left[i]) /\ left[i] \in Candidates
      BY <2>1 DEF Fed
    <3>2. CASE left[i] = c
      BY <1>2, <1>6, <1>8, <3>2 DEF Handled
    <3>3. CASE left[i] # c
      <4>1. results'[left[i]] = results[left[i]]
        BY <1>8, <3>1, <3>3
      <4>2. ASSUME NEW u \in Workers, worker[u].at = "sim", worker[u].task = left[i]
            PROVE  worker'[u].at = "sim" /\ worker'[u].task = left[i]
        BY <1>9, <3>3, <4>2 DEF c
      <4> QED BY <1>2, <3>1, <4>1, <4>2 DEF Handled
    <3> QED BY <3>2, <3>3
  <2>3. worker'[w].at # "off"
    BY <1>9
  <2>4. Fed'
    BY <1>2, <2>1, <2>2, <2>3 DEF Fed
  <2> QED BY <1>2, <1>3, <2>1, <2>4 DEF LeftInv
<1> USE <1>2, <1>3, <1>4, <1>6, <1>8, <1>9, <1>10
<1>12. Types'
  BY DEF Types, Places, Final
<1>13. StageInv'
  BY DEF Types, StageInv, Carried
<1>14. CarryInv'
  BY DEF Types, CarryInv, Segmenting, Good, Done
<1>15. BaseInv'
  BY DEF Types, BaseInv, Segmenting, Based, Good, Bad, Whole, Done, Cover
<1>16. ResultsInv'
  BY DEF Types, ResultsInv, LeftGood, Whole, Good
<1>17. PoolInv'
  BY DEF Types, PoolInv, Carried
<1>18. AbortInv'
  BY DEF Types, AbortInv, Triggering, Errored
<1>19. OkInv'
  BY BulkAssumption DEF Types, OkInv, LeftGood
<1> QED BY <1>11, <1>12, <1>13, <1>14, <1>15, <1>16, <1>17, <1>18, <1>19

\* An errored result triggers the abort.
LEMMA TriggerKeeps == ASSUME BulkInv, NEW w \in Workers, Trigger(w) PROVE BulkInv'
<1>1. /\ worker[w].at = "trigger" /\ abort' = TRUE /\ worker' = [worker EXCEPT ![w].at = "take"]
      /\ UNCHANGED <<pc, stage, left, carry, baseline, covered, base, pass, segment, outcome,
                     wanted,
                     results, jobs, fed, failed>>
  BY DEF Trigger, flow
<1>2. pc = "waiting" /\ outcome = Nil
  BY <1>1, WorkerWaits
<1> USE DEF BulkInv
<1>3. /\ worker' \in [Workers -> WorkerType] /\ worker'[w].at = "take"
      /\ \A v \in Workers : v # w => worker'[v] = worker[v]
  BY <1>1 DEF WorkerType, Types
<1> USE <1>1, <1>2, <1>3
<1>4. LeftInv'
  BY DEF LeftInv
<1>5. Types'
  BY DEF Types, Places, Final
<1>6. StageInv'
  BY DEF Types, StageInv, Carried
<1>7. CarryInv'
  BY DEF Types, CarryInv, Segmenting, Good, Done
<1>8. BaseInv'
  BY DEF Types, BaseInv, Segmenting, Based, Good, Bad, Whole, Done, Cover
<1>9. ResultsInv'
  BY DEF Types, ResultsInv, LeftGood
<1>10. PoolInv'
  BY DEF Types, PoolInv, Carried
<1>11. AbortInv'
  BY DEF Types, AbortInv, Triggering
<1>12. OkInv'
  BY BulkAssumption DEF Types, OkInv, LeftGood
<1> QED BY <1>4, <1>5, <1>6, <1>7, <1>8, <1>9, <1>10, <1>11, <1>12

-----------------------------------------------------------------------------
(* The theorems *)

\* What the request starts from.
LEMMA StartIsSound == ASSUME Init PROVE BulkInv
<1>1. left \in Seq(Candidates) /\ OneEach(left) /\ Len(left) = Cardinality(Candidates)
  BY CandidatesInOrder DEF Init
<1>2. Nil \in ResultType /\ results \in [Candidates -> ResultType] /\ \A c \in Candidates : results[c] = Nil
  BY DEF Init, NoResults, ResultType
<1>3. worker \in [Workers -> WorkerType] /\ \A w \in Workers : worker[w].at = "off"
  BY DEF Init, Off, WorkerType
<1>4. stage \in 1..Final /\ stage # Final
  BY BulkAssumption DEF Init, Final
<1>5. Types
  <2>1. jobs \in [queue : Seq(Candidates), closed : BOOLEAN]
    BY DEF Init
  <2>2. segment \in [from : Nat, n : Nat]
    BY DEF Init
  <2> QED BY <1>1, <1>2, <1>3, <1>4, <2>1, <2>2 DEF Init, Types, Places
<1>6. StageInv /\ CarryInv /\ PoolInv
  BY <1>3, <1>4 DEF Init, StageInv, CarryInv, PoolInv
<1>7. BaseInv /\ ResultsInv
  BY <1>2 DEF Init, BaseInv, Segmenting, Based, Whole, ResultsInv
<1>8. AbortInv
  BY <1>2 DEF Init, AbortInv, Errored
<1>9. LeftInv
  <2>1. Len(left) >= Shown
    BY <1>1, LeftIsBounded
  <2> QED BY <1>4, <2>1 DEF Init, LeftInv
<1>10. OkInv
  BY BulkAssumption DEF Init, OkInv
<1> QED BY <1>5, <1>6, <1>7, <1>8, <1>9, <1>10 DEF BulkInv

\* Every step keeps the invariant.
LEMMA StepsKeep == ASSUME BulkInv, [Next]_vars PROVE BulkInv'
<1>1. CASE Main
  BY <1>1, NextStageKeeps, SetTargetKeeps, BaselineRefusedKeeps, BaselineStartsKeeps,
      BaselineEndsKeeps,
     StartBatchKeeps, BatchEndsKeeps, AdaptKeeps, StageEndsKeeps, RankedKeeps, FinalistsKeeps, RoundKeeps,
     MetricsKeeps, ShowKeeps DEF Main
<1>2. CASE Feed
  BY <1>2, FeedNextKeeps, FeedStopsKeeps DEF Feed
<1>3. ASSUME NEW w \in Workers, Work(w) PROVE BulkInv'
  BY <1>3, TakeKeeps, LeaveKeeps, SimEndsKeeps, TriggerKeeps DEF Work
<1>4. CASE Cancel
  BY <1>4, CancelKeeps
<1>5. CASE UNCHANGED vars
  <2> USE <1>5 DEF BulkInv, vars
  <2>1. Types'
    BY DEF Types
  <2>2. StageInv' /\ CarryInv'
    BY DEF StageInv, CarryInv, Carried
  <2>3. BaseInv' /\ ResultsInv'
    BY DEF BaseInv, ResultsInv, LeftGood, Errored
  <2>4. PoolInv' /\ AbortInv' /\ OkInv'
    BY DEF PoolInv, Carried, AbortInv, Triggering, OkInv, LeftGood
  <2>5. LeftInv'
    BY DEF LeftInv, Fed, Handled
  <2> QED BY <2>1, <2>2, <2>3, <2>4, <2>5
<1> QED BY <1>1, <1>2, <1>3, <1>4, <1>5 DEF Next

\* Whatever stages, passes and rounds results go through, their segments follow each other.
LEMMA InvariantFollows == BulkInv => SegmentsFollow
<1> SUFFICES ASSUME BulkInv PROVE SegmentsFollow
  OBVIOUS
<1>1. Follow(<<>>)
  BY DEF Follow
<1>2. \A r : Whole(r) /\ r # Nil => Follow(r.runs)
  BY <1>1 DEF Whole, Bad, Done
<1>3. Whole(baseline) /\ \A c \in Candidates : Whole(results[c])
  BY DEF BulkInv, BaseInv, ResultsInv
<1> QED BY <1>2, <1>3 DEF SegmentsFollow

\* What is shown is whole.
LEMMA InvariantIsComplete == BulkInv => OkIsComplete
<1> SUFFICES ASSUME BulkInv PROVE OkIsComplete
  OBVIOUS
<1>1. left \in Seq(Candidates) /\ OneEach(left)
  BY DEF BulkInv, Types
<1>2. Range(left) \subseteq Candidates /\ Cardinality(Range(left)) = Len(left)
  BY <1>1, LenIsCardinality
<1>3. Errored(baseline) => baseline.runs = <<>>
  BY DEF BulkInv, BaseInv, Whole, Bad, Done, Errored
<1>4. \A c \in Candidates : Errored(results[c]) => results[c].runs = <<>>
  <2> TAKE c \in Candidates
  <2>1. Whole(results[c])
    BY DEF BulkInv, ResultsInv
  <2> QED BY <2>1 DEF Whole, Bad, Done, Errored
<1>5. TypeOK
  BY <1>2, <1>3, <1>4 DEF BulkInv, Types, TypeOK
<1>6. pc # "waiting" => \A w \in Workers : worker[w].at = "off"
  BY DEF BulkInv, PoolInv
<1>7. ASSUME outcome = "ok"
      PROVE  /\ ~failed /\ Len(left) = Shown /\ ~Errored(baseline) /\ Simmed(baseline) = covered
             /\ \A i \in 1..Len(left) :
                   results[left[i]] # Nil /\ ~Errored(results[left[i]]) /\ Simmed(results[left[i]]) = covered
  BY <1>7 DEF BulkInv, OkInv, LeftGood, Good, Done, Errored
<1> QED BY <1>5, <1>6, <1>7 DEF OkIsComplete, Shown

\* The invariant holds throughout.
THEOREM BulkInvariant == Spec => []BulkInv
<1>1. Init => BulkInv
  BY StartIsSound
<1>2. BulkInv /\ [Next]_vars => BulkInv'
  BY StepsKeep
<1> QED BY <1>1, <1>2, PTL DEF Spec

\* Whatever stages, passes and rounds a result goes through, its segments follow each other
\* without a gap or an overlap, as the carry-over of runBulkSim promises.
THEOREM BulkSegmentsFollow == Spec => []SegmentsFollow
BY BulkInvariant, InvariantFollows, PTL

\* What the bulk sim shows is whole: as many results as were asked for, all of them and the
\* baseline over the same iterations, with no failure and no abort on the way.
THEOREM BulkOkIsComplete == Spec => []OkIsComplete
BY BulkInvariant, InvariantIsComplete, PTL

===============================================================================
