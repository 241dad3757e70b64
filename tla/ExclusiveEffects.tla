---------------------------- MODULE ExclusiveEffects ----------------------------
(***************************************************************************)
(* Exclusive effects (sim/core/exclusive_effect.go and the calls Activate  *)
(* and Deactivate of sim/core/aura.go make to them).  An aura bids in one  *)
(* or more categories; in each category the effect with the highest bid    *)
(* applies.  A category may hold one aura at a time: there a stronger aura *)
(* ends the one that holds it, and a weaker one is not gained at all.      *)
(*                                                                         *)
(* Gaining an aura bids in its categories one after another.  A bid may    *)
(* end another aura, which gives up its own bids in all its categories,    *)
(* and a bid that is refused takes back those that were made: the model    *)
(* makes one bid per step.  What an effect's OnGain and OnExpire do is the *)
(* test suite's: they add and subtract the bid (applied).  They do not     *)
(* gain or end auras.                                                      *)
(***************************************************************************)
EXTENDS Integers, Sequences, FiniteSets

CONSTANTS
    Auras,
    Categories,
    BidsOf(_),     \* the categories an aura bids in, in the order of Aura.ExclusiveEffects
    OrderIn(_),    \* the auras that bid in a category, in the order they registered
    Single,        \* categories with SingleAura
    YieldsTies,    \* auras whose effects have YieldsTies
    Stacking,      \* auras whose bids follow their stacks
    Repriced,      \* auras whose bids the spell that casts them sets
    SpellOf(_),    \* Aura.ActionID.SpellID
    LengthOf(_),   \* Aura.Duration
    FirstBid(_, _), \* the priority an aura's effect in a category is registered with
    Bids,          \* the priorities SetPriority may be called with
    Horizon,       \* bound: the last time
    Never,         \* NeverExpires
    Nil

BidIn(a) == {BidsOf(a)[i] : i \in 1..Len(BidsOf(a))}
Bidders(c) == {a \in Auras : c \in BidIn(a)}

\* Its auras bid nothing and do not expire (the paladin auras).
NeverRefuses(c) ==
    \A a \in Bidders(c) :
        /\ FirstBid(a, c) = 0 /\ LengthOf(a) = Never
        /\ a \notin Stacking /\ (a \in Repriced => BidsOf(a)[1] # c)

ASSUME ExclusiveAssumption ==
    /\ Nil \notin Auras
    /\ \A a \in Auras : BidsOf(a) \in Seq(Categories) /\ \A c \in BidIn(a) : FirstBid(a, c) \in Int
    \* NewExclusiveEffect finds the effect an aura already has in a category
    /\ \A a \in Auras : \A i, j \in 1..Len(BidsOf(a)) : BidsOf(a)[i] = BidsOf(a)[j] => i = j
    /\ \A c \in Categories : OrderIn(c) \in Seq(Auras)
    /\ \A c \in Categories : \A i, j \in 1..Len(OrderIn(c)) : OrderIn(c)[i] = OrderIn(c)[j] => i = j
    /\ \A c \in Categories, a \in Auras :
          a \in Bidders(c) <=> \E i \in 1..Len(OrderIn(c)) : OrderIn(c)[i] = a
    /\ Single \subseteq Categories /\ Stacking \subseteq Auras /\ YieldsTies \subseteq Auras
    /\ Repriced \subseteq Auras
    \* a stacking aura bids nothing until its first stack
    /\ \A a \in Stacking : \A c \in BidIn(a) : FirstBid(a, c) = 0
    /\ Bids \subseteq Int /\ 0 \in Bids
    /\ Horizon \in Nat /\ Never \in Nat
    /\ \A a \in Auras : LengthOf(a) \in Nat \ {0} /\ LengthOf(a) <= Never
    \* the one effect of the program that yields ties bids in a category of many
    /\ \A a \in YieldsTies : BidIn(a) \cap Single = {}
    \* Thunder Clap re-prices Aura.ExclusiveEffects[0]
    /\ \A a \in Repriced : BidsOf(a) # <<>>
    \* what joins a second category of one (joinSharedCategory) is never refused there
    /\ \A a \in Auras : \A i, j \in 1..Len(BidsOf(a)) :
          i < j /\ BidsOf(a)[i] \in Single /\ BidsOf(a)[j] \in Single => NeverRefuses(BidsOf(a)[j])

VARIABLES
    now,       \* sim.CurrentTime
    active,    \* Aura.active
    expires,   \* Aura.expires
    cat,       \* per category: isEnabled, activeEffect, Priority, and what is applied
    gaining,   \* the aura being gained
    place,     \* the bid it is about to make
    before     \* cat and active when the gain began (for the properties)

vars == <<now, active, expires, cat, gaining, place, before>>

-----------------------------------------------------------------------------
(* One category; a category's state s is a record. *)

\* GetHighestPrioActiveEffect: of the enabled effects with the highest bid the
\* one that registered first.
IsHighest(c, s, a) ==
    \E i \in 1..Len(OrderIn(c)) :
        /\ OrderIn(c)[i] = a /\ a \in s.enabled
        /\ \A j \in 1..Len(OrderIn(c)) : OrderIn(c)[j] \in s.enabled =>
              /\ s.bid[OrderIn(c)[j]] <= s.bid[a]
              /\ j < i => s.bid[OrderIn(c)[j]] < s.bid[a]

Highest(c, s) == IF s.enabled = {} THEN Nil ELSE CHOOSE a \in s.enabled : IsHighest(c, s, a)

\* SetActive: the effect that held the category expires, the other one is gained.
SetActive(s, a) ==
    IF a = s.holder THEN s
    ELSE [s EXCEPT !.holder = a,
                   !.applied = [b \in DOMAIN s.applied |->
                                  CASE b = s.holder -> s.applied[b] - s.bid[b]
                                    [] b = a -> s.applied[b] + s.bid[b]
                                    [] OTHER -> s.applied[b]]]

\* Mutant: the effect leaves and the category is not given to the next one.
MutOff(c, s, a) ==
    IF a \notin s.enabled THEN s
    ELSE LET t == [s EXCEPT !.enabled = @ \ {a}]
         IN  IF s.holder = a THEN SetActive(t, Nil) ELSE t

\* ExclusiveEffect.Deactivate.
Off(c, s, a) ==
    IF a \notin s.enabled THEN s
    ELSE LET t == [s EXCEPT !.enabled = @ \ {a}]
         IN  IF s.holder = a THEN SetActive(t, Highest(c, t)) ELSE t

\* Mutant: the bid changes first, whichever way the category goes.
MutSetPriority(c, s, a, p) ==
    LET t == [s EXCEPT !.bid[a] = p]
    IN  IF a \notin s.enabled THEN t
        ELSE IF s.holder = a /\ Highest(c, t) = a
               THEN [t EXCEPT !.applied[a] = @ - s.bid[a] + p]
        ELSE IF s.holder # a /\ Highest(c, t) # a THEN t
        ELSE SetActive(t, Highest(c, t))

\* ExclusiveEffect.SetPriority: the effect loses the category with its old bid
\* and takes it with its new one.
SetPriority(c, s, a, p) ==
    LET t == [s EXCEPT !.bid[a] = p]
        next == Highest(c, t)
    IN  CASE a \notin s.enabled -> t
          [] a \in s.enabled /\ s.holder = a /\ next = a ->
                [t EXCEPT !.applied[a] = @ - s.bid[a] + p]
          [] a \in s.enabled /\ s.holder # a /\ next # a -> t
          [] a \in s.enabled /\ s.holder = a /\ next # a ->
                [SetActive(s, next) EXCEPT !.bid[a] = p]
          [] a \in s.enabled /\ s.holder # a /\ next = a -> SetActive(t, next)

\* Aura.Deactivate: the stacks go first, and the bid with them.
Without(c, s, a) ==
    IF c \notin BidIn(a) THEN s
    ELSE Off(c, IF a \in Stacking THEN SetPriority(c, s, a, 0) ELSE s, a)

Remaining(a) == IF expires[a] = Never THEN Never ELSE expires[a] - now
Outlasts(a, newcomer) == Remaining(a) > LengthOf(newcomer)
KeepsTie(a, newcomer) == SpellOf(a) # SpellOf(newcomer) /\ Outlasts(a, newcomer)

-----------------------------------------------------------------------------
Init ==
    /\ now = 0
    /\ active = {} /\ expires = [a \in Auras |-> 0]
    /\ cat = [c \in Categories |-> [enabled |-> {}, holder |-> Nil,
                                     bid |-> [a \in Bidders(c) |-> FirstBid(a, c)],
                                     applied |-> [a \in Bidders(c) |-> 0]]]
    /\ gaining = Nil /\ place = 1
    /\ before = Nil

Idle == gaining = Nil
Refresh(a) == expires' = [expires EXCEPT ![a] = IF LengthOf(a) = Never THEN Never ELSE now + LengthOf(a)]

\* Aura.Activate of an aura that is active: it is refreshed and bids nothing.
Prolong(a) ==
    /\ Idle /\ a \in active
    /\ Refresh(a)
    /\ UNCHANGED <<now, active, cat, gaining, place, before>>

\* Aura.Activate of an aura that is not: it makes its bids first.
Activate(a) ==
    /\ Idle /\ a \notin active
    /\ gaining' = a /\ place' = 1
    /\ before' = [active |-> active, cat |-> cat]
    /\ UNCHANGED <<now, active, expires, cat>>

\* The bid the aura being gained makes now.
Here == BidsOf(gaining)[place]
Mine == cat[Here].bid[gaining]
Holder == cat[Here].holder
Theirs == cat[Here].bid[Holder]
Bidding == ~Idle /\ place <= Len(BidsOf(gaining))

\* "If there is already an active aura stronger than this one, then this one
\* will be blocked."
Blocked ==
    /\ Here \in Single /\ Holder # Nil
    /\ Theirs > Mine \/ (Theirs = Mine /\ Outlasts(Holder, gaining))

Takes ==
    \/ Holder = Nil
    \/ Mine > Theirs
    \/ Mine = Theirs /\ gaining \notin YieldsTies /\ ~KeepsTie(Holder, gaining)

\* What becomes of the bid.
Bid == IF Blocked THEN "refused" ELSE IF Takes THEN "taken" ELSE "waits"

Enabled == [cat EXCEPT ![Here].enabled = @ \cup {gaining}]

\* Mutant: the effects of the bids already made stay.
MutBidBlocked ==
    /\ Bidding /\ Bid = "refused"
    /\ gaining' = Nil /\ place' = 1 /\ before' = Nil
    /\ UNCHANGED <<now, active, expires, cat>>

\* The bid is refused: those made before are taken back, the aura is not gained.
BidBlocked ==
    /\ Bidding /\ Bid = "refused"
    /\ LET made == {BidsOf(gaining)[i] : i \in 1..(place - 1)} IN
         cat' = [c \in Categories |-> IF c \in made THEN Off(c, cat[c], gaining) ELSE cat[c]]
    /\ gaining' = Nil /\ place' = 1 /\ before' = Nil
    /\ UNCHANGED <<now, active, expires>>

\* The category goes to the new effect.  Where it holds one aura, the aura that
\* held it ends first and gives up its bids in every category.
BidTakes ==
    /\ Bidding /\ Bid = "taken"
    /\ IF Here \in Single /\ Holder # Nil
         THEN /\ active' = active \ {Holder}
              /\ expires' = [expires EXCEPT ![Holder] = 0]
              /\ cat' = [c \in Categories |->
                           LET s == Without(c, Enabled[c], Holder)
                           IN  IF c = Here THEN SetActive(s, gaining) ELSE s]
         ELSE /\ UNCHANGED <<active, expires>>
              /\ cat' = [Enabled EXCEPT ![Here] = SetActive(@, gaining)]
    /\ place' = place + 1
    /\ UNCHANGED <<now, gaining, before>>

\* The effect is enabled and waits behind a stronger one.
BidWaits ==
    /\ Bidding /\ Bid = "waits"
    /\ cat' = Enabled
    /\ place' = place + 1
    /\ UNCHANGED <<now, active, expires, gaining, before>>

\* Every bid is made.
Gained ==
    /\ ~Idle /\ place > Len(BidsOf(gaining))
    /\ active' = active \cup {gaining}
    /\ Refresh(gaining)
    /\ gaining' = Nil /\ place' = 1 /\ before' = Nil
    /\ UNCHANGED <<now, cat>>

\* Aura.Deactivate: cancelled, or expired.
Deactivate(a) ==
    /\ Idle /\ a \in active
    /\ active' = active \ {a}
    /\ expires' = [expires EXCEPT ![a] = 0]
    /\ cat' = [c \in Categories |-> Without(c, cat[c], a)]
    /\ UNCHANGED <<now, gaining, place, before>>

\* A stack more or less re-prices the bid of an aura that stacks (the last stack
\* ends it: Deactivate); Thunder Clap re-prices its aura's first bid before it
\* applies the aura.
Reprice(a, p) ==
    /\ Idle
    /\ (a \in Stacking /\ a \in active /\ p # 0) \/ a \in Repriced
    /\ LET bidsAnew == IF a \in Stacking THEN BidIn(a) ELSE {BidsOf(a)[1]} IN
         cat' = [c \in Categories |-> IF c \in bidsAnew THEN SetPriority(c, cat[c], a, p) ELSE cat[c]]
    /\ UNCHANGED <<now, active, expires, gaining, place, before>>

\* Time passes; auras that are due have expired.
Advance ==
    /\ Idle /\ now < Horizon
    /\ \A a \in active : expires[a] > now
    /\ now' = now + 1
    /\ UNCHANGED <<active, expires, cat, gaining, place, before>>

Next ==
    \/ \E a \in Auras : Prolong(a) \/ Activate(a) \/ Deactivate(a)
    \/ \E a \in Auras, p \in Bids : Reprice(a, p)
    \/ BidBlocked \/ BidTakes \/ BidWaits \/ Gained \/ Advance

Spec == Init /\ [][Next]_vars
-----------------------------------------------------------------------------
(* Properties *)

CategoryState(c) ==
    [enabled : SUBSET Bidders(c), holder : Bidders(c) \cup {Nil},
     bid : [Bidders(c) -> Int], applied : [Bidders(c) -> Int]]

\* The state keeps its shape, and only an aura that is not active is being gained.
TypeOK ==
    /\ now \in Nat /\ active \subseteq Auras /\ expires \in [Auras -> Nat]
    /\ DOMAIN cat = Categories /\ \A c \in Categories : cat[c] \in CategoryState(c)
    /\ Idle \/ gaining \in Auras \ active
    /\ place \in 1..(IF Idle THEN 1 ELSE Len(BidsOf(gaining)) + 1)

\* "Within each ExclusiveCategory, the ExclusiveEffect with the highest Priority
\* AND isEnabled == true is the one whose effect is applied": whatever was
\* gained, ended, outbid, refused and re-priced. In a single category no more than
\* one aura is active at a time, and every variable has its type.
HighestApplies ==
    /\ TypeOK
    /\ \A c \in Single : \A a, b \in active \cap Bidders(c) : a = b
    /\ \A c \in Categories :
          /\ cat[c].holder = Nil <=> cat[c].enabled = {}
          /\ cat[c].holder # Nil =>
                /\ cat[c].holder \in cat[c].enabled
                /\ \A a \in cat[c].enabled : cat[c].bid[a] <= cat[c].bid[cat[c].holder]

\* What an effect has added is its bid while it holds its category and nothing
\* otherwise: no change of a bid leaves part of an old one behind (SetPriority's
\* "so it deactivates with the correct value").
AppliedIsBid ==
    \A c \in Categories : \A a \in Bidders(c) :
        cat[c].applied[a] = IF cat[c].holder = a THEN cat[c].bid[a] ELSE 0

\* A refused aura leaves no trace: every category has the effects enabled and
\* applies the amount it did before, and no other aura has ended.  (It would not
\* hold of an aura that wins a category of one and is then refused in another.)
Amount(s) == IF s.holder = Nil THEN 0 ELSE s.bid[s.holder]
BlockedLeavesNoTrace ==
    [][BidBlocked => /\ active' = before.active
                     /\ \A c \in Categories :
                           /\ cat'[c].enabled = before.cat[c].enabled
                           /\ Amount(cat'[c]) = Amount(before.cat[c])]_vars
=============================================================================
