---------------------------- MODULE FailoverProofs ----------------------------
(***************************************************************************)
(* Proofs about Failover, for any chain, requests, conversations and       *)
(* threshold.                                                              *)
(*                                                                         *)
(* The first two invariants leave out the order a request tries the chain  *)
(* in: whichever account it is on, what it does to that account's marks    *)
(* and to its conversation's pin is accounted for. The order is the matter *)
(* of the types: however the chain is filtered, turned round and           *)
(* rearranged, no provider is in it twice, so it never outgrows the chain, *)
(* and a request in the loop always has one to try.                        *)
(***************************************************************************)
EXTENDS Failover, ListFacts, FiniteSetTheorems, TLAPS

Field == {"session", "server", "active", "order", "pinned", "reserved", "worthy", "blame"}

\* What a request remembers, whatever it tries.
Remembered ==
    /\ call = [c \in Call |-> call[c]] /\ pc = [c \in Call |-> pc[c]]
    /\ \A c \in Call : DOMAIN call[c] = Field

Settling == {"settling", "saving", "pinning"}

-----------------------------------------------------------------------------
(***************************************************************************)
(* Rests.                                                                  *)
(***************************************************************************)
\* Whoever is about to rest an account, or to refresh its rest, has seen it ill: a
\* request through the vendor's refusal, on probation or counted out, and the
\* recovery loop through the mark it copied.
Grounds ==
    /\ mark = [p \in Provider |-> mark[p]] /\ health = [p \in Provider |-> health[p]]
    /\ ailed \subseteq Provider
    /\ \A p \in Provider : health[p] # "well" => p \in ailed
    /\ \A c \in Call : /\ call[c].blame \subseteq ailed
                       /\ pc[c] = "resting" => (Current(c) \in Provider => Current(c) \in ailed)
    /\ loop \in {"reprobing", "listed", "unlisted"} => todo \in Seq(ailed) /\ todo # <<>>

\* The providers of a chain are finite in number.
LEMMA Providers == IsFiniteSet(Provider)
<1>1. Chain \in Seq(Provider) /\ DOMAIN Chain = 1 .. Len(Chain) /\ Len(Chain) \in Nat
  BY ChainAssumption
<1>2. Chain \in Surjection(1 .. Len(Chain), Provider)
  BY <1>1 DEF Surjection, Provider, ToSet
<1>3. IsFiniteSet(1 .. Len(Chain))
  BY <1>1, FS_Interval
<1> QED  BY <1>2, <1>3, FS_Surjection

RestInv == Remembered /\ Grounds /\ HealthyNeverRested

-----------------------------------------------------------------------------
(***************************************************************************)
(* Pins.                                                                   *)
(***************************************************************************)
\* A request answers for its conversation from its authentication on; it has an
\* account reserved only after it found no pin, and an answer only at its end.
Anchors ==
    /\ pin = [s \in Session |-> pin[s]]
    /\ \A c \in Call :
          /\ pc[c] = "new" => call[c].session = None
          /\ pc[c] # "new" => call[c].session \in Session
          /\ pc[c] \in {"new", "keyed", "ordered", "reserve"} => call[c].reserved = None
          /\ pc[c] \notin Settling \union {"done"} => call[c].server = None
          /\ (pc[c] \in Settling /\ ~call[c].worthy) => call[c].server = Current(c)
          /\ pc[c] = "resting" => call[c].worthy

PinInv == Remembered /\ Anchors /\ PinFollowsAnswer

-----------------------------------------------------------------------------
(***************************************************************************)
(* What a step of a request does to what it remembers.                     *)
(***************************************************************************)
\* It goes to a place, changes some fields, and leaves the other requests alone.
Moves(c, place, changed) ==
    /\ Remembered' /\ pc'[c] = place
    /\ \A f \in Field \ changed : call'[c][f] = call[c][f]
    /\ \A d \in Call \ {c} : call'[d] = call[d] /\ pc'[d] = pc[d]

LEMMA StaysSame ==
    ASSUME Remembered, NEW c \in Call, NEW place, Goto(c, place), UNCHANGED call
    PROVE  Moves(c, place, {})
BY DEF Goto, Remembered, Moves, Field

\* Giving one request a new record.
LEMMA TakesNew ==
    ASSUME Remembered, NEW c \in Call, NEW place, Goto(c, place),
           NEW new, call' = [call EXCEPT ![c] = new], DOMAIN new = Field,
           NEW changed, \A f \in Field \ changed : new[f] = call[c][f]
    PROVE  Moves(c, place, changed) /\ call'[c] = new
<1>1. pc' = [d \in Call |-> pc'[d]] /\ pc'[c] = place /\ \A d \in Call \ {c} : pc'[d] = pc[d]
  BY DEF Goto, Remembered
<1>2. call' = [d \in Call |-> call'[d]] /\ call'[c] = new /\ \A d \in Call \ {c} : call'[d] = call[d]
  BY DEF Remembered
<1> QED  BY <1>1, <1>2 DEF Remembered, Moves

LEMMA ReturnMoves ==
    ASSUME Remembered, NEW c \in Call, Return(c)
    PROVE  /\ Moves(c, "done", Field \ {"session", "server"})
           /\ call'[c].reserved = None /\ call'[c].blame = {}
<1> DEFINE new == [Fresh EXCEPT !.session = call[c].session, !.server = call[c].server]
<1>1. /\ DOMAIN new = Field /\ new.session = call[c].session /\ new.server = call[c].server
      /\ new.reserved = None /\ new.blame = {}
  BY DEF Fresh, Field
<1>2. call' = [call EXCEPT ![c] = new] /\ Goto(c, "done")
  BY DEF Return
<1> HIDE DEF new
<1> QED  BY <1>1, <1>2, TakesNew DEF Field

LEMMA AuthenticateMoves ==
    ASSUME Remembered, NEW c \in Call, Authenticate(c)
    PROVE  Moves(c, "keyed", {"session", "active"}) /\ call'[c].session \in Session
<1>1. PICK s \in Session : call' = [call EXCEPT ![c].session = s, ![c].active = active]
  BY DEF Authenticate
<1> DEFINE new == [call[c] EXCEPT !.session = s, !.active = active]
<1>2. /\ DOMAIN new = Field /\ new.session = s
      /\ \A f \in Field \ {"session", "active"} : new[f] = call[c][f]
  BY DEF Remembered, Field
<1>3. call' = [call EXCEPT ![c] = new] /\ Goto(c, "keyed")
  BY <1>1 DEF Authenticate, Remembered
<1> HIDE DEF new
<1> QED  BY <1>2, <1>3, TakesNew

LEMMA ScheduleMoves ==
    ASSUME Remembered, NEW c \in Call, Schedule(c)
    PROVE  Leave(c) \/ (Moves(c, "ordered", {"order"}) /\ UNCHANGED pin)
<1> SUFFICES ASSUME ~Leave(c) PROVE Moves(c, "ordered", {"order"}) /\ UNCHANGED pin  OBVIOUS
<1>1. PICK o : call' = [call EXCEPT ![c].order = o]
  BY DEF Schedule
<1> DEFINE new == [call[c] EXCEPT !.order = o]
<1>2. DOMAIN new = Field /\ \A f \in Field \ {"order"} : new[f] = call[c][f]
  BY DEF Remembered, Field
<1>3. call' = [call EXCEPT ![c] = new] /\ Goto(c, "ordered") /\ UNCHANGED pin
  BY <1>1 DEF Schedule
<1> HIDE DEF new
<1> QED  BY <1>2, <1>3, TakesNew

LEMMA ApplyPinMoves ==
    ASSUME Remembered, NEW c \in Call, ApplyPin(c)
    PROVE  \E place \in {"try", "reserve"} : Moves(c, place, {"order", "pinned"})
<1>1. CASE UNCHANGED call
  <2>1. PICK place \in {"try", "reserve"} : Goto(c, place)  BY DEF ApplyPin
  <2> QED  BY <1>1, <2>1, StaysSame DEF Moves
<1>2. CASE ~UNCHANGED call
  <2> DEFINE new == [call[c] EXCEPT !.order = ToFront(call[c].order, Pin(c)), !.pinned = Pin(c)]
  <2>1. DOMAIN new = Field /\ \A f \in Field \ {"order", "pinned"} : new[f] = call[c][f]
    BY DEF Remembered, Field
  <2>2. call' = [call EXCEPT ![c] = new] /\ Goto(c, "try")
    BY <1>2 DEF ApplyPin
  <2> HIDE DEF new
  <2> QED  BY <2>1, <2>2, TakesNew
<1> QED  BY <1>1, <1>2

LEMMA ReserveMoves ==
    ASSUME Remembered, NEW c \in Call, Reserve(c)
    PROVE  Moves(c, "try", {"reserved"}) /\ call'[c].reserved = Current(c)
<1> DEFINE new == [call[c] EXCEPT !.reserved = Current(c)]
<1>1. /\ DOMAIN new = Field /\ new.reserved = Current(c)
      /\ \A f \in Field \ {"reserved"} : new[f] = call[c][f]
  BY DEF Remembered, Field
<1>2. call' = [call EXCEPT ![c] = new] /\ Goto(c, "try")
  BY DEF Reserve
<1> HIDE DEF new
<1> QED  BY <1>1, <1>2, TakesNew

LEMMA NextProviderMoves ==
    ASSUME Remembered, NEW c \in Call, NextProvider(c)
    PROVE  Moves(c, "try", {"order"})
<1> DEFINE new == [call[c] EXCEPT !.order = Tail(@)]
<1>1. DOMAIN new = Field /\ \A f \in Field \ {"order"} : new[f] = call[c][f]
  BY DEF Remembered, Field
<1>2. call' = [call EXCEPT ![c] = new] /\ Goto(c, "try")
  BY DEF NextProvider
<1> HIDE DEF new
<1> QED  BY <1>1, <1>2, TakesNew

LEMMA AnsweredMoves ==
    ASSUME Remembered, NEW c \in Call, Answered(c)
    PROVE  Moves(c, "settling", {"worthy", "server"}) /\ call'[c].server = Current(c)
<1> DEFINE new == [call[c] EXCEPT !.worthy = FALSE, !.server = Current(c)]
<1>1. /\ DOMAIN new = Field /\ new.server = Current(c)
      /\ \A f \in Field \ {"worthy", "server"} : new[f] = call[c][f]
  BY DEF Remembered, Field
<1>2. call' = [call EXCEPT ![c] = new] /\ Goto(c, "settling")
  BY DEF Answered
<1> HIDE DEF new
<1> QED  BY <1>1, <1>2, TakesNew

LEMMA PassedMoves ==
    ASSUME Remembered, NEW c \in Call, Passed(c)
    PROVE  \E place \in {"advance", "settling", "broken"} :
              Moves(c, place, {"worthy"}) /\ call'[c].worthy = TRUE
<1> DEFINE new == [call[c] EXCEPT !.worthy = TRUE]
<1>1. /\ DOMAIN new = Field /\ new.worthy = TRUE
      /\ \A f \in Field \ {"worthy"} : new[f] = call[c][f]
  BY DEF Remembered, Field
<1>2. PICK place \in {"advance", "settling", "broken"} : Goto(c, place)
  BY DEF Passed, Failed
<1>3. call' = [call EXCEPT ![c] = new]
  BY DEF Passed
<1> HIDE DEF new
<1>4. Moves(c, place, {"worthy"}) /\ call'[c] = new
  BY <1>1, <1>2, <1>3, TakesNew
<1> QED  BY <1>1, <1>4

\* A refusal: the account's failure may be held on probation.
LEMMA ChargeMoves ==
    ASSUME Remembered, NEW c \in Call, NEW probation, Charge(c, probation),
           NEW place, Goto(c, place)
    PROVE  /\ Moves(c, place, {"worthy", "blame"})
           /\ call'[c].worthy = TRUE /\ call'[c].blame = call[c].blame \union probation
<1> DEFINE new == [call[c] EXCEPT !.worthy = TRUE, !.blame = @ \union probation]
<1>1. /\ DOMAIN new = Field /\ new.worthy = TRUE /\ new.blame = call[c].blame \union probation
      /\ \A f \in Field \ {"worthy", "blame"} : new[f] = call[c][f]
  BY DEF Remembered, Field
<1>2. call' = [call EXCEPT ![c] = new]
  BY DEF Charge
<1> HIDE DEF new
<1> QED  BY <1>1, <1>2, TakesNew

-----------------------------------------------------------------------------
(***************************************************************************)
(* No rest without an illness.                                             *)
(***************************************************************************)
LEMMA RestInit == Init => RestInv
<1> SUFFICES ASSUME Init PROVE RestInv  OBVIOUS
<1>1. Remembered
  BY DEF Init, Remembered, Fresh, Field
<1> QED  BY <1>1 DEF Init, RestInv, Grounds, HealthyNeverRested, Fresh

\* A step of a request keeps the invariant if it rests only ailed accounts.
LEMMA RestKept ==
    ASSUME RestInv, NEW c \in Call, NEW place, NEW changed, Moves(c, place, changed),
           UNCHANGED <<health, ailed, loop, todo>>,
           call'[c].blame \subseteq ailed,
           place = "resting" => (Current(c)' \in Provider => Current(c)' \in ailed),
           mark' = [p \in Provider |-> mark'[p]],
           \A p \in Provider : mark'[p] # "up" => (mark[p] # "up" \/ p \in ailed)
    PROVE  RestInv'
BY DEF RestInv, Grounds, HealthyNeverRested, Moves, Current

\* Resting, refreshing or clearing one account changes its mark alone.
LEMMA OneMark ==
    ASSUME RestInv, NEW p, NEW kind, mark' = [mark EXCEPT ![p] = kind]
    PROVE  /\ mark' = [q \in Provider |-> mark'[q]]
           /\ \A q \in Provider : mark'[q] = IF q = p THEN kind ELSE mark[q]
BY DEF RestInv, Grounds

LEMMA RestStep == RestInv /\ [Next]_vars => RestInv'
<1> SUFFICES ASSUME RestInv, [Next]_vars PROVE RestInv'  OBVIOUS
<1>0. /\ Remembered /\ mark = [p \in Provider |-> mark[p]]
      /\ \A p \in Provider : mark[p] # "up" => p \in ailed
      /\ \A p \in Provider : health[p] # "well" => p \in ailed
      /\ \A c \in Call : call[c].blame \subseteq ailed
      /\ Qoder \subseteq Provider
  BY ChainAssumption DEF RestInv, Grounds, HealthyNeverRested
<1>1. ASSUME NEW c \in Call, Return(c), UNCHANGED <<health, ailed, loop, todo, mark>>
      PROVE  RestInv'
  BY <1>0, <1>1, ReturnMoves, RestKept
<1>2. ASSUME NEW c \in Call, NEW place, place # "resting",
             NEW changed, "blame" \notin changed, Moves(c, place, changed),
             UNCHANGED <<health, ailed, loop, todo, mark>>
      PROVE  RestInv'
  <2>1. call'[c].blame = call[c].blame  BY <1>2 DEF Moves, Field
  <2>2. call'[c].blame \subseteq ailed  BY <1>0, <2>1
  <2> QED  BY <1>0, <1>2, <2>2, RestKept
<1>3. ASSUME NEW c \in Call, NEW place, place # "resting", Goto(c, place), UNCHANGED call,
             UNCHANGED <<health, ailed, loop, todo, mark>>
      PROVE  RestInv'
  BY <1>0, <1>2, <1>3, StaysSame
<1>4. ASSUME NEW c \in Call, Authenticate(c) PROVE RestInv'
  <2>1. UNCHANGED <<health, ailed, loop, todo, mark>>
    BY <1>4 DEF Authenticate, restVars, worldVars, loopVars
  <2> QED  BY <1>0, <1>2, <1>4, <2>1, AuthenticateMoves
<1>5. ASSUME NEW c \in Call, Schedule(c) PROVE RestInv'
  <2>1. UNCHANGED <<health, ailed, loop, todo, mark>>
    BY <1>5 DEF Schedule, restVars, worldVars, loopVars
  <2>2. Return(c) \/ Moves(c, "ordered", {"order"})
    BY <1>0, <1>5, ScheduleMoves DEF Leave
  <2> QED  BY <1>1, <1>2, <2>1, <2>2
<1>6. ASSUME NEW c \in Call, ApplyPin(c) PROVE RestInv'
  <2>1. UNCHANGED <<health, ailed, loop, todo, mark>>
    BY <1>6 DEF ApplyPin, restVars, worldVars, loopVars
  <2>2. PICK place \in {"try", "reserve"} : Moves(c, place, {"order", "pinned"})
    BY <1>0, <1>6, ApplyPinMoves
  <2> QED  BY <1>2, <2>1, <2>2
<1>7. ASSUME NEW c \in Call, Reserve(c) PROVE RestInv'
  <2>1. UNCHANGED <<health, ailed, loop, todo, mark>>
    BY <1>7 DEF Reserve, restVars, worldVars, loopVars
  <2> QED  BY <1>0, <1>2, <1>7, <2>1, ReserveMoves
<1>8. ASSUME NEW c \in Call, Skip(c) \/ Saturated(c) PROVE RestInv'
  <2>1. UNCHANGED <<health, ailed, loop, todo, mark>> /\ (NextProvider(c) \/ Return(c))
    BY <1>8 DEF Skip, Saturated, PassOver, Leave, restVars, worldVars, loopVars
  <2> QED  BY <1>0, <1>1, <1>2, <2>1, NextProviderMoves
<1>9. ASSUME NEW c \in Call, Send(c) \/ MoveKey(c) \/ SaveKey(c) PROVE RestInv'
  <2>1. \E place \in {"sent", "saving", "pinning"} : Goto(c, place)
    BY <1>9 DEF Send, MoveKey, SaveKey
  <2> QED  BY <1>3, <1>9, <2>1 DEF Send, MoveKey, SaveKey, restVars, worldVars, loopVars
<1>10. ASSUME NEW c \in Call, ClientGone(c) \/ Broken(c) PROVE RestInv'
  BY <1>1, <1>10 DEF ClientGone, Broken, Leave, restVars, worldVars, loopVars
<1>11. ASSUME NEW c \in Call, Advance(c) PROVE RestInv'
  <2>1. UNCHANGED <<health, ailed, loop, todo, mark>> /\ NextProvider(c)
    BY <1>11 DEF Advance, restVars, worldVars, loopVars
  <2> QED  BY <1>0, <1>2, <2>1, NextProviderMoves
<1>12. ASSUME NEW c \in Call, Answered(c) PROVE RestInv'
  <2>1. mark' = [mark EXCEPT ![Current(c)] = "up"] /\ UNCHANGED <<health, ailed, loop, todo>>
    BY <1>12 DEF Answered, MarkUp, worldVars, loopVars
  <2>2. Moves(c, "settling", {"worthy", "server"})
    BY <1>0, <1>12, AnsweredMoves
  <2>3. call'[c].blame = call[c].blame
    BY <2>2 DEF Moves, Field
  <2>4. /\ mark' = [p \in Provider |-> mark'[p]]
        /\ \A p \in Provider : mark'[p] # "up" => mark[p] # "up"
    BY <2>1, OneMark
  <2> QED  BY <1>0, <2>1, <2>2, <2>3, <2>4, RestKept
<1>13. ASSUME NEW c \in Call, Passed(c) PROVE RestInv'
  <2>1. PICK place \in {"advance", "settling", "broken"} : Moves(c, place, {"worthy"})
    BY <1>0, <1>13, PassedMoves
  <2>2. UNCHANGED <<health, ailed, loop, todo, mark>>
    BY <1>13 DEF Passed, worldVars, loopVars
  <2> QED  BY <1>2, <2>1, <2>2
<1>14. ASSUME NEW c \in Call, RefusedDisabled(c) \/ RefusedHard(c) \/ RefusedResting(c) PROVE RestInv'
  <2>1. PICK place \in {"advance", "settling", "broken"} : Goto(c, place)
    BY <1>14 DEF RefusedDisabled, RefusedHard, RefusedResting, Failed
  <2>2. Charge(c, {}) /\ health[Current(c)] # "well" /\ UNCHANGED <<health, ailed, loop, todo>>
    BY <1>14 DEF RefusedDisabled, RefusedHard, RefusedResting, Refused, worldVars, loopVars
  <2>3. PICK kind : mark' = [mark EXCEPT ![Current(c)] = kind]
    BY <1>14 DEF RefusedDisabled, RefusedHard, RefusedResting, MarkUp
  <2>4. Moves(c, place, {"worthy", "blame"}) /\ call'[c].blame = call[c].blame \union {}
    BY <1>0, <2>1, <2>2, ChargeMoves
  <2> QED  BY <1>0, <2>1, <2>2, <2>3, <2>4, OneMark, RestKept
<1>15. ASSUME NEW c \in Call, RefusedOnProbation(c) PROVE RestInv'
  <2>1. PICK place \in {"advance", "settling", "broken"} : Goto(c, place)
    BY <1>15 DEF RefusedOnProbation, Failed
  <2>2. /\ Charge(c, {Current(c)}) /\ Current(c) \in ailed
        /\ UNCHANGED <<health, ailed, loop, todo, mark>>
    BY <1>0, <1>15 DEF RefusedOnProbation, Refused, restVars, worldVars, loopVars
  <2>3. /\ Moves(c, place, {"worthy", "blame"})
        /\ call'[c].blame = call[c].blame \union {Current(c)}
    BY <1>0, <2>1, <2>2, ChargeMoves
  <2> QED  BY <1>0, <2>1, <2>2, <2>3, RestKept
<1>16. ASSUME NEW c \in Call, RefusedCounted(c) PROVE RestInv'
  <2>1. PICK place \in {"advance", "settling", "broken", "resting"} : Goto(c, place)
    BY <1>16 DEF RefusedCounted, Failed
  <2>2. /\ Charge(c, {}) /\ health[Current(c)] # "well"
        /\ UNCHANGED <<health, ailed, loop, todo, mark>>
    BY <1>16 DEF RefusedCounted, Refused, worldVars, loopVars
  <2>3. /\ Moves(c, place, {"worthy", "blame"})
        /\ call'[c].blame = call[c].blame \union {}
    BY <1>0, <2>1, <2>2, ChargeMoves
  <2>4. Current(c)' = Current(c)
    BY <2>3 DEF Moves, Current, Field
  <2> QED  BY <1>0, <2>2, <2>3, <2>4, RestKept
<1>17. ASSUME NEW c \in Call, Rest(c) PROVE RestInv'
  <2>1. PICK place \in {"advance", "settling", "broken"} : Goto(c, place)
    BY <1>17 DEF Rest, Failed
  <2>2. /\ mark' = [mark EXCEPT ![Current(c)] = "soft"] /\ UNCHANGED <<health, ailed, loop, todo, call>>
        /\ Current(c) \in Provider => Current(c) \in ailed
    BY <1>17 DEF Rest, worldVars, loopVars, RestInv, Grounds
  <2>3. Moves(c, place, {})
    BY <1>0, <2>1, <2>2, StaysSame
  <2> QED  BY <1>0, <2>1, <2>2, <2>3, OneMark, RestKept
<1>18. ASSUME NEW c \in Call, Settle(c) PROVE RestInv'
  <2>1. /\ mark' = [p \in Provider |->
                      IF p \in Charged(c) /\ soft'[p] = Threshold THEN "soft" ELSE mark[p]]
        /\ Return(c) /\ UNCHANGED <<health, ailed, loop, todo>>
    BY <1>18 DEF Settle, worldVars, loopVars
  <2>2. Charged(c) \subseteq ailed
    BY <1>0 DEF Charged
  <2> QED  BY <1>0, <2>1, <2>2, ReturnMoves, RestKept
<1>19. ASSUME UNCHANGED <<pc, call, health, ailed>>,
              mark' = [p \in Provider |-> mark'[p]],
              \A p \in Provider : mark'[p] # "up" => (mark[p] # "up" \/ p \in ailed),
              loop' \in {"reprobing", "listed", "unlisted"} => todo' \in Seq(ailed) /\ todo' # <<>>
       PROVE  RestInv'
  BY <1>19 DEF RestInv, Remembered, Grounds, HealthyNeverRested, Current
<1>20. ASSUME Recover PROVE RestInv'
  BY <1>0, <1>19, <1>20
     DEF Recover, RecoverStart, RecoverProbe, RecoverMove, RecoverSave, Work, restVars, worldVars
<1>21. ASSUME ReprobeStart PROVE RestInv'
  <2>1. PICK o \in SetToSeqs({p \in Provider : mark[p] # "up"}) : Work("reprobing", o)
    BY <1>21 DEF ReprobeStart
  <2> DEFINE rested == {p \in Provider : mark[p] # "up"}
  <2>2. rested # {} /\ rested \subseteq ailed /\ IsFiniteSet(rested)
    BY <1>0, <1>21, Providers, FS_Subset DEF ReprobeStart
  <2>3. Cardinality(rested) \in Nat \ {0}
    BY <2>2, FS_CardinalityType, FS_EmptySet
  <2>4. o \in [1 .. Cardinality(rested) -> rested]
    BY <2>1 DEF SetToSeqs
  <2>5. o \in Seq(ailed) /\ o # <<>>
    <3> HIDE DEF rested
    <3> QED  BY <2>2, <2>3, <2>4
  <2>6. UNCHANGED <<pc, call, health, ailed, mark>> /\ todo' = o
    BY <1>21, <2>1 DEF ReprobeStart, Work, restVars, worldVars
  <2> QED  BY <1>0, <1>19, <2>5, <2>6
<1>22. ASSUME ReprobeProbe \/ ReprobeListed \/ ReprobeUnlisted PROVE RestInv'
  <2>1. /\ todo \in Seq(ailed) /\ todo # <<>>
        /\ UNCHANGED <<pc, call, health, ailed>>
    BY <1>22 DEF ReprobeProbe, ReprobeListed, ReprobeUnlisted, worldVars, RestInv, Grounds
  <2>2. Head(todo) \in ailed /\ Tail(todo) \in Seq(ailed)
    BY <2>1
  <2>3. \/ UNCHANGED mark
        \/ \E kind : mark' = [mark EXCEPT ![Head(todo)] = kind]
    BY <1>22 DEF ReprobeProbe, ReprobeListed, ReprobeUnlisted, MarkUp, Remarked, restVars
  <2>4. /\ mark' = [p \in Provider |-> mark'[p]]
        /\ \A p \in Provider : mark'[p] # "up" => (mark[p] # "up" \/ p \in ailed)
    BY <1>0, <2>2, <2>3, OneMark
  <2>5. \/ loop' = "idle" \/ todo' = todo
        \/ todo' = Tail(todo) /\ Tail(todo) # <<>>
    BY <1>22 DEF ReprobeProbe, ReprobeListed, ReprobeUnlisted, Reprobed, Work
  <2> QED  BY <1>19, <2>1, <2>2, <2>4, <2>5
<1>23. ASSUME NEW p \in Provider, Turn(p) PROVE RestInv'
  <2>1. /\ ailed' = IF health'[p] = "well" THEN ailed ELSE ailed \union {p}
        /\ health' = [q \in Provider |-> health'[q]]
        /\ \A q \in Provider \ {p} : health'[q] = health[q]
        /\ UNCHANGED <<mark, pc, call, loop, todo>>
    BY <1>23 DEF Turn, restVars, loopVars, RestInv, Grounds
  <2>2. ailed \subseteq ailed' /\ ailed' \subseteq Provider
    BY <2>1 DEF RestInv, Grounds
  <2>3. Seq(ailed) \subseteq Seq(ailed')  BY <2>2
  <2> QED  BY <2>1, <2>2, <2>3
           DEF RestInv, Remembered, Grounds, HealthyNeverRested, Current
<1>24. ASSUME \/ \E p \in Switched : Toggle(p)
              \/ \E s \in Session : PinExpires(s)
       PROVE RestInv'
  BY <1>24 DEF Toggle, PinExpires, keyVars, restVars, worldVars, loopVars,
               RestInv, Remembered, Grounds, HealthyNeverRested, Current
<1>25. ASSUME UNCHANGED vars PROVE RestInv'
  BY <1>25 DEF vars, keyVars, restVars, worldVars, loopVars,
               RestInv, Remembered, Grounds, HealthyNeverRested, Current
<1> QED
  BY <1>4, <1>5, <1>6, <1>7, <1>8, <1>9, <1>10, <1>11, <1>12, <1>13, <1>14, <1>15, <1>16, <1>17,
     <1>18, <1>20, <1>21, <1>22, <1>23, <1>24, <1>25 DEF Next, Proceed, Reprobe

\* An account rests only after its vendor refused it: a busy model, a full lane, a
\* prompt turned away, a client gone or a late look of the recovery loop never rests
\* an account that was always well.
THEOREM HealthyNeverRestedCorrect == Spec => []HealthyNeverRested
<1>1. RestInv => HealthyNeverRested  BY DEF RestInv
<1> QED  BY <1>1, RestInit, RestStep, PTL DEF Spec

-----------------------------------------------------------------------------
(***************************************************************************)
(* No pin without an answer or a reservation.                              *)
(***************************************************************************)
LEMMA PinInit == Init => PinInv
<1> SUFFICES ASSUME Init PROVE PinInv  OBVIOUS
<1>1. Remembered
  BY DEF Init, Remembered, Fresh, Field
<1> QED  BY <1>1 DEF Init, PinInv, Anchors, PinFollowsAnswer, Fresh, Settling

\* A step of a request keeps the invariant if what is left pinned by its conversation
\* is still what it answered from or reserved.
LEMMA PinKeeps ==
    ASSUME PinInv, NEW c \in Call, NEW place, NEW changed, Moves(c, place, changed),
           place # "new", call'[c].session \in Session,
           place \in {"keyed", "ordered", "reserve"} => call'[c].reserved = None,
           place \notin Settling \union {"done"} => call'[c].server = None,
           (place \in Settling /\ ~call'[c].worthy) => call'[c].server = Current(c)',
           place = "resting" => call'[c].worthy,
           pin' = [s \in Session |-> pin'[s]],
           \A s \in Session : pin'[s] # None =>
               \/ pin'[s] = pin[s] /\ call[c].session # s
               \/ call'[c].session = s /\ pin'[s] \in {call'[c].server, call'[c].reserved}
               \/ pin'[s] = pin[s] /\ pin[s] \notin {call[c].server, call[c].reserved}
    PROVE  PinInv'
<1>1. Remembered' /\ Anchors'
  BY DEF PinInv, Anchors, Moves, Current
<1>2. ASSUME NEW s \in Session, pin'[s] # None
      PROVE  \E d \in Call : call'[d].session = s /\ pin'[s] \in {call'[d].server, call'[d].reserved}
  <2>1. CASE call'[c].session = s /\ pin'[s] \in {call'[c].server, call'[c].reserved}
    BY <2>1
  <2>2. CASE /\ pin'[s] = pin[s]
             /\ call[c].session # s \/ pin[s] \notin {call[c].server, call[c].reserved}
    <3>1. PICK d \in Call : call[d].session = s /\ pin[s] \in {call[d].server, call[d].reserved}
      BY <1>2, <2>2 DEF PinInv, PinFollowsAnswer
    <3>2. d # c  BY <2>2, <3>1
    <3> QED  BY <2>2, <3>1, <3>2 DEF Moves
  <2> QED  BY <1>2, <2>1, <2>2
<1> QED  BY <1>1, <1>2 DEF PinInv, PinFollowsAnswer

\* A request on its way pins nothing.
LEMMA OnItsWay ==
    ASSUME PinInv, NEW c \in Call, pc[c] \notin {"new", "done"} \union Settling, UNCHANGED pin,
           NEW place, NEW changed, Moves(c, place, changed),
           changed \intersect {"session", "server", "reserved"} = {},
           \/ place \in {"try", "sent", "advance", "broken"}
           \/ place \in {"settling", "resting"} /\ call'[c].worthy
    PROVE  PinInv'
<1>1. /\ call'[c].session = call[c].session /\ call'[c].server = call[c].server
      /\ call'[c].reserved = call[c].reserved
  BY DEF Moves, Field
<1>2. call[c].session \in Session /\ call[c].server = None /\ pin = [s \in Session |-> pin[s]]
  BY DEF PinInv, Anchors
<1> QED  BY <1>1, <1>2, PinKeeps DEF Settling

\* Pinning or unpinning its conversation touches no other.
LEMMA OnePin ==
    ASSUME PinInv, NEW c \in Call, NEW p, pin' = Pinned(c, p)
    PROVE  /\ pin' = [s \in Session |-> pin'[s]]
           /\ \A s \in Session : pin'[s] = IF s = call[c].session THEN p ELSE pin[s]
BY DEF PinInv, Anchors, Pinned

\* A request that ends without an answer clears what it reserved.
LEMMA Leaves ==
    ASSUME PinInv, NEW c \in Call, pc[c] # "new", Return(c), pin' = PinLeft(c)
    PROVE  PinInv'
<1>1. /\ Moves(c, "done", Field \ {"session", "server"})
      /\ call'[c].session = call[c].session /\ call'[c].server = call[c].server
  BY ReturnMoves DEF PinInv, Moves, Field
<1>2. call[c].session \in Session /\ pin = [s \in Session |-> pin[s]]
  BY DEF PinInv, Anchors
<1>3. CASE call[c].reserved = None
  BY <1>1, <1>2, <1>3, PinKeeps DEF PinLeft, Settling
<1>4. CASE call[c].reserved # None
  <2>1. /\ pin' = [s \in Session |-> pin'[s]]
        /\ \A s \in Session : pin'[s] = IF s = call[c].session THEN None ELSE pin[s]
    BY <1>4, OnePin DEF PinLeft
  <2> QED  BY <1>1, <1>2, <2>1, PinKeeps DEF Settling
<1> QED  BY <1>3, <1>4

LEMMA PinStep == PinInv /\ [Next]_vars => PinInv'
<1> SUFFICES ASSUME PinInv, [Next]_vars PROVE PinInv'  OBVIOUS
<1>0. /\ Remembered /\ pin = [s \in Session |-> pin[s]]
      /\ None \notin Session
      /\ \A c \in Call : pc[c] # "new" => call[c].session \in Session
  BY ChainAssumption DEF PinInv, Anchors, None
<1>1. ASSUME NEW c \in Call, Authenticate(c) PROVE PinInv'
  <2>1. PICK s \in Session :
           pin' = IF pin[s] \in disabled /\ Enabled # <<>> THEN [pin EXCEPT ![s] = None] ELSE pin
    BY <1>1 DEF Authenticate
  <2>2. pin' = [t \in Session |-> pin'[t]] /\ \A t \in Session : pin'[t] \in {pin[t], None}
    BY <1>0, <2>1
  <2>3. call[c].session = None /\ call[c].reserved = None /\ call[c].server = None
    BY <1>1 DEF Authenticate, PinInv, Anchors, Settling
  <2>4. Moves(c, "keyed", {"session", "active"}) /\ call'[c].session \in Session
    BY <1>0, <1>1, AuthenticateMoves
  <2>5. call'[c].reserved = None /\ call'[c].server = None
    BY <2>3, <2>4 DEF Moves, Field
  <2> QED  BY <1>0, <2>2, <2>3, <2>4, <2>5, PinKeeps DEF Settling
<1>2. ASSUME NEW c \in Call, Schedule(c) PROVE PinInv'
  <2>1. pc[c] = "keyed"  BY <1>2 DEF Schedule
  <2>2. CASE Leave(c)
    BY <2>1, <2>2, Leaves DEF Leave
  <2>3. CASE Moves(c, "ordered", {"order"}) /\ UNCHANGED pin
    <3>1. /\ call'[c].session = call[c].session /\ call'[c].server = call[c].server
          /\ call'[c].reserved = call[c].reserved
      BY <2>3 DEF Moves, Field
    <3>2. call[c].session \in Session /\ call[c].server = None /\ call[c].reserved = None
      BY <2>1 DEF PinInv, Anchors, Settling
    <3> QED  BY <1>0, <2>3, <3>1, <3>2, PinKeeps DEF Settling
  <2> QED  BY <1>0, <1>2, <2>2, <2>3, ScheduleMoves
<1>3. ASSUME NEW c \in Call, ApplyPin(c) PROVE PinInv'
  <2>1. PICK place \in {"try", "reserve"} : Moves(c, place, {"order", "pinned"})
    BY <1>0, <1>3, ApplyPinMoves
  <2>2. /\ call'[c].session = call[c].session /\ call'[c].server = call[c].server
        /\ call'[c].reserved = call[c].reserved
    BY <2>1 DEF Moves, Field
  <2>3. call[c].session \in Session /\ call[c].server = None /\ call[c].reserved = None
    BY <1>3 DEF ApplyPin, PinInv, Anchors, Settling
  <2>4. pin' = [s \in Session |-> pin'[s]] /\ \A s \in Session : pin'[s] \in {pin[s], None}
    <3>1. CASE UNCHANGED pin  BY <1>0, <3>1
    <3>2. CASE pin' = Pinned(c, None)  BY <3>2, OnePin
    <3> QED  BY <1>3, <3>1, <3>2 DEF ApplyPin
  <2> QED  BY <2>1, <2>2, <2>3, <2>4, PinKeeps DEF Settling
<1>4. ASSUME NEW c \in Call, Reserve(c) PROVE PinInv'
  <2>1. Moves(c, "try", {"reserved"}) /\ call'[c].reserved = Current(c)
    BY <1>0, <1>4, ReserveMoves
  <2>2. call'[c].session = call[c].session /\ call'[c].server = call[c].server
    BY <2>1 DEF Moves, Field
  <2>3. call[c].session \in Session /\ call[c].server = None
    BY <1>4 DEF Reserve, PinInv, Anchors, Settling
  <2>4. /\ pin' = [s \in Session |-> pin'[s]]
        /\ \A s \in Session : pin'[s] = IF s = call[c].session THEN Current(c) ELSE pin[s]
    BY <1>4, OnePin DEF Reserve
  <2> QED  BY <2>1, <2>2, <2>3, <2>4, PinKeeps DEF Settling
<1>5. ASSUME NEW c \in Call, NextProvider(c), pc[c] \in {"try", "sent"}, UNCHANGED pin PROVE PinInv'
  BY <1>0, <1>5, NextProviderMoves, OnItsWay DEF Settling
<1>6. ASSUME NEW c \in Call, Skip(c) \/ Saturated(c) PROVE PinInv'
  <2>1. pc[c] \in {"try", "sent"} /\ PassOver(c)
    BY <1>6 DEF Skip, Saturated
  <2> QED  BY <1>5, <2>1, Leaves DEF PassOver, Leave
<1>7. ASSUME NEW c \in Call, ClientGone(c) \/ Broken(c) PROVE PinInv'
  BY <1>7, Leaves DEF ClientGone, Broken, Leave
<1>8. ASSUME NEW c \in Call, Send(c) PROVE PinInv'
  <2>1. pc[c] = "try" /\ UNCHANGED pin /\ Moves(c, "sent", {})
    BY <1>0, <1>8, StaysSame DEF Send
  <2> QED  BY <2>1, OnItsWay DEF Settling
<1>9. ASSUME NEW c \in Call, Advance(c) PROVE PinInv'
  <2>1. Moves(c, "try", {"order"}) /\ pc[c] = "advance"
    BY <1>0, <1>9, NextProviderMoves DEF Advance
  <2>2. CASE UNCHANGED pin
    BY <2>1, <2>2, OnItsWay DEF Settling
  <2>3. CASE pin' = Pinned(c, None)
    <3>1. /\ call'[c].session = call[c].session /\ call'[c].server = call[c].server
      BY <2>1 DEF Moves, Field
    <3>2. call[c].session \in Session /\ call[c].server = None
      BY <2>1 DEF PinInv, Anchors, Settling
    <3>3. /\ pin' = [s \in Session |-> pin'[s]]
          /\ \A s \in Session : pin'[s] = IF s = call[c].session THEN None ELSE pin[s]
      BY <2>3, OnePin
    <3> QED  BY <2>1, <3>1, <3>2, <3>3, PinKeeps DEF Settling
  <2> QED  BY <1>9, <2>2, <2>3 DEF Advance
<1>10. ASSUME NEW c \in Call, Answered(c) PROVE PinInv'
  <2>1. Moves(c, "settling", {"worthy", "server"}) /\ call'[c].server = Current(c)
    BY <1>0, <1>10, AnsweredMoves
  <2>2. /\ call'[c].session = call[c].session /\ call'[c].reserved = call[c].reserved
        /\ Current(c)' = Current(c)
    BY <2>1 DEF Moves, Field, Current
  <2>3. call[c].session \in Session /\ call[c].server = None /\ UNCHANGED pin
    BY <1>10 DEF Answered, PinInv, Anchors, Settling
  <2> QED  BY <1>0, <2>1, <2>2, <2>3, PinKeeps DEF Settling
<1>11. ASSUME NEW c \in Call, Passed(c) PROVE PinInv'
  <2>1. PICK place \in {"advance", "settling", "broken"} :
           Moves(c, place, {"worthy"}) /\ call'[c].worthy = TRUE
    BY <1>0, <1>11, PassedMoves
  <2> QED  BY <1>11, <2>1, OnItsWay DEF Passed, Settling
<1>12. ASSUME NEW c \in Call,
              \/ RefusedDisabled(c) \/ RefusedHard(c) \/ RefusedResting(c)
              \/ RefusedOnProbation(c) \/ RefusedCounted(c)
       PROVE PinInv'
  <2>1. PICK place \in {"advance", "settling", "broken", "resting"} : Goto(c, place)
    BY <1>12 DEF RefusedDisabled, RefusedHard, RefusedResting, RefusedOnProbation, RefusedCounted, Failed
  <2>2. PICK probation : Charge(c, probation)
    BY <1>12 DEF RefusedDisabled, RefusedHard, RefusedResting, RefusedOnProbation, RefusedCounted
  <2>3. pc[c] = "sent" /\ UNCHANGED pin
    BY <1>12 DEF RefusedDisabled, RefusedHard, RefusedResting, RefusedOnProbation, RefusedCounted, Refused
  <2>4. Moves(c, place, {"worthy", "blame"}) /\ call'[c].worthy = TRUE
    BY <1>0, <2>1, <2>2, ChargeMoves
  <2> QED  BY <2>1, <2>3, <2>4, OnItsWay DEF Settling
<1>13. ASSUME NEW c \in Call, Rest(c) PROVE PinInv'
  <2>1. PICK place \in {"advance", "settling", "broken"} : Moves(c, place, {})
    BY <1>0, <1>13, StaysSame DEF Rest, Failed
  <2>2. pc[c] = "resting" /\ call[c].worthy /\ UNCHANGED <<pin, call>>
    BY <1>13 DEF Rest, PinInv, Anchors
  <2> QED  BY <2>1, <2>2, OnItsWay DEF Settling
<1>14. ASSUME NEW c \in Call, MoveKey(c) \/ SaveKey(c) PROVE PinInv'
  <2>1. PICK place \in Settling : Moves(c, place, {})
    BY <1>0, <1>14, StaysSame DEF MoveKey, SaveKey, Settling
  <2>2. pc[c] \in Settling /\ UNCHANGED <<pin, call>>
    BY <1>14 DEF MoveKey, SaveKey, Settling
  <2>3. /\ ~call[c].worthy => call[c].server = Current(c)
        /\ call[c].session \in Session
    BY <2>2 DEF PinInv, Anchors, Settling
  <2>4. Current(c)' = Current(c)
    BY <2>2 DEF Current
  <2> QED  BY <1>0, <2>1, <2>2, <2>3, <2>4, PinKeeps DEF Settling
<1>15. ASSUME NEW c \in Call, Settle(c) PROVE PinInv'
  <2>1. pc[c] = "pinning" /\ pin' = PinSettled(c) /\ Return(c)
    BY <1>15 DEF Settle
  <2>2. CASE call[c].worthy
    BY <2>1, <2>2, Leaves DEF PinSettled
  <2>3. CASE ~call[c].worthy
    <3>1. /\ Moves(c, "done", Field \ {"session", "server"})
          /\ call'[c].session = call[c].session /\ call'[c].server = call[c].server
      BY <1>0, <2>1, ReturnMoves DEF Moves, Field
    <3>2. call[c].session \in Session /\ call[c].server = Current(c)
      BY <2>1, <2>3 DEF PinInv, Anchors, Settling
    <3>3. /\ pin' = [s \in Session |-> pin'[s]]
          /\ \A s \in Session : pin'[s] = IF s = call[c].session THEN Current(c) ELSE pin[s]
      BY <2>1, <2>3, OnePin DEF PinSettled
    <3> QED  BY <3>1, <3>2, <3>3, PinKeeps DEF Settling
  <2> QED  BY <2>2, <2>3
<1>16. ASSUME \/ Recover \/ Reprobe
              \/ \E p \in Provider : Turn(p)
              \/ \E p \in Switched : Toggle(p)
              \/ UNCHANGED vars
       PROVE PinInv'
  <2>1. UNCHANGED <<pin, pc, call>>
    BY <1>16 DEF Recover, RecoverStart, RecoverProbe, RecoverMove, RecoverSave, Reprobe,
                 ReprobeStart, ReprobeProbe, ReprobeListed, ReprobeUnlisted, Turn, Toggle, vars
  <2> QED  BY <2>1 DEF PinInv, Remembered, Anchors, PinFollowsAnswer, Current
<1>17. ASSUME NEW s \in Session, PinExpires(s) PROVE PinInv'
  <2>1. UNCHANGED <<pc, call>> /\ pin' = [pin EXCEPT ![s] = None]
    BY <1>17 DEF PinExpires
  <2>2. pin' = [t \in Session |-> pin'[t]] /\ \A t \in Session : pin'[t] \in {pin[t], None}
    BY <1>0, <2>1
  <2> QED  BY <2>1, <2>2 DEF PinInv, Remembered, Anchors, PinFollowsAnswer, Current
<1> QED
  BY <1>1, <1>2, <1>3, <1>4, <1>6, <1>7, <1>8, <1>9, <1>10, <1>11, <1>12, <1>13, <1>14, <1>15,
     <1>16, <1>17 DEF Next, Proceed

\* Whichever way requests end, and whatever pins run out or are evicted meanwhile, no
\* conversation is left pinned to an account that neither answered it nor is being
\* asked on its behalf.
THEOREM PinFollowsAnswerCorrect == Spec => []PinFollowsAnswer
<1>1. PinInv => PinFollowsAnswer  BY DEF PinInv
<1> QED  BY <1>1, PinInit, PinStep, PTL DEF Spec

-----------------------------------------------------------------------------
(***************************************************************************)
(* The order a request tries the chain in.                                 *)
(***************************************************************************)
\* An order of providers fits the chain exactly when no provider comes twice.
LEMMA FitsChain == \A o : o \in Chains(Provider) <=> o \in Seq(Provider) /\ IsInjective(o)
<1> SUFFICES ASSUME NEW o PROVE o \in Chains(Provider) <=> o \in Seq(Provider) /\ IsInjective(o)
  OBVIOUS
<1>1. ASSUME o \in Chains(Provider) PROVE o \in Seq(Provider) /\ IsInjective(o)
  <2>1. PICK n \in 0 .. Len(Chain) : o \in [1 .. n -> Provider]  BY <1>1 DEF Chains
  <2>2. n \in Nat  BY ChainAssumption
  <2> QED  BY <1>1, <2>1, <2>2 DEF Chains
<1>2. ASSUME o \in Seq(Provider), IsInjective(o) PROVE o \in Chains(Provider)
  <2>1. /\ Len(o) \in Nat /\ Len(Chain) \in Nat /\ Chain \in Seq(Provider)
        /\ o \in [1 .. Len(o) -> Provider] /\ DOMAIN o = 1 .. Len(o)
        /\ Chain \in [1 .. Len(Chain) -> Provider] /\ DOMAIN Chain = 1 .. Len(Chain)
    BY <1>2, ChainAssumption
  <2>2. \A p \in Provider : \E i \in 1 .. Len(Chain) : Chain[i] = p
    BY <2>1 DEF Provider, ToSet
  <2> DEFINE place == [i \in 1 .. Len(o) |-> Index(o[i])]
  <2>3. \A i \in 1 .. Len(o) : Index(o[i]) \in 1 .. Len(Chain) /\ Chain[Index(o[i])] = o[i]
    BY <2>1, <2>2 DEF Index
  <2>4. place \in Injection(1 .. Len(o), 1 .. Len(Chain))
    <3>1. place \in [1 .. Len(o) -> 1 .. Len(Chain)]  BY <2>3
    <3>2. ASSUME NEW i \in 1 .. Len(o), NEW j \in 1 .. Len(o), place[i] = place[j] PROVE i = j
      <4>1. o[i] = o[j]  BY <2>3, <3>2
      <4> QED  BY <1>2, <2>1, <4>1 DEF IsInjective
    <3> HIDE DEF place
    <3> QED  BY <3>1, <3>2 DEF Injection, IsInjective
  <2>5. /\ IsFiniteSet(1 .. Len(o)) /\ IsFiniteSet(1 .. Len(Chain))
        /\ Cardinality(1 .. Len(o)) = Len(o) /\ Cardinality(1 .. Len(Chain)) = Len(Chain)
    <3>1. ASSUME NEW n \in Nat PROVE IsFiniteSet(1 .. n) /\ Cardinality(1 .. n) = n
      <4>1. IsFiniteSet(1 .. n) /\ Cardinality(1 .. n) = IF 1 > n THEN 0 ELSE n - 1 + 1
        BY FS_Interval
      <4> QED  BY <4>1
    <3> QED  BY <2>1, <3>1
  <2>6. Len(o) <= Len(Chain)
    <3> HIDE DEF place
    <3> QED  BY <2>4, <2>5, FS_Injection
  <2> QED  BY <1>2, <2>1, <2>6 DEF Chains
<1> QED  BY <1>1, <1>2

LEMMA TailFits ==
    ASSUME NEW o \in Chains(Provider), o # <<>>
    PROVE  Head(o) \in Provider /\ Tail(o) \in Chains(Provider) /\ (Len(o) > 1 => Tail(o) # <<>>)
<1>1. o \in Seq(Provider) /\ IsInjective(o) /\ Len(o) \in Nat /\ Len(o) > 0 /\ DOMAIN o = 1 .. Len(o)
  BY FitsChain
<1>2. /\ Tail(o) \in Seq(Provider) /\ Len(Tail(o)) = Len(o) - 1 /\ DOMAIN Tail(o) = 1 .. Len(o) - 1
      /\ Head(o) \in Provider
      /\ \A i \in 1 .. Len(o) - 1 : Tail(o)[i] = o[i + 1]
  BY <1>1
<1>3. IsInjective(Tail(o))
  <2> SUFFICES ASSUME NEW i \in 1 .. Len(o) - 1, NEW j \in 1 .. Len(o) - 1,
                      Tail(o)[i] = Tail(o)[j] PROVE i = j
    BY <1>2 DEF IsInjective
  <2>1. o[i + 1] = o[j + 1] /\ i + 1 \in 1 .. Len(o) /\ j + 1 \in 1 .. Len(o)  BY <1>1, <1>2
  <2>2. i + 1 = j + 1  BY <1>1, <2>1 DEF IsInjective
  <2> QED  BY <2>2
<1>4. Tail(o) \in Chains(Provider)  BY <1>2, <1>3, FitsChain
<1>5. Len(o) > 1 => Tail(o) # <<>>
  <2>1. Len(<<>>) = 0  OBVIOUS
  <2> QED  BY <1>1, <1>2, <2>1
<1> QED  BY <1>2, <1>4, <1>5

\* Part of an order is one.
LEMMA KeptFits ==
    ASSUME NEW o \in Chains(Provider), NEW wanted
    PROVE  /\ Kept(o, wanted) \in Chains(Provider)
           /\ \A k \in DOMAIN Kept(o, wanted) : Kept(o, wanted)[k] \in wanted
           /\ \A i \in DOMAIN o : o[i] \in wanted => Kept(o, wanted) # <<>>
<1> DEFINE u == Kept(o, wanted)
<1>1. o \in Seq(Provider) /\ IsInjective(o)  BY FitsChain
<1>2. /\ u \in Seq(Provider)
      /\ \A k \in DOMAIN u : u[k] \in wanted
      /\ \A i \in DOMAIN o : o[i] \in wanted => \E k \in DOMAIN u : u[k] = o[i]
      /\ \A k, l \in DOMAIN u : k < l => \E i, j \in DOMAIN o : i < j /\ o[i] = u[k] /\ o[j] = u[l]
  BY <1>1, KeptFacts
<1> HIDE DEF u
<1>3. \A k, l \in DOMAIN u : k < l => u[k] # u[l]
  <2> SUFFICES ASSUME NEW k \in DOMAIN u, NEW l \in DOMAIN u, k < l, u[k] = u[l] PROVE FALSE  OBVIOUS
  <2>1. PICK i \in DOMAIN o, j \in DOMAIN o : i < j /\ o[i] = u[k] /\ o[j] = u[l]  BY <1>2
  <2>2. i = j  BY <1>1, <2>1 DEF IsInjective
  <2>3. DOMAIN o = 1 .. Len(o)  BY <1>1
  <2> QED  BY <2>1, <2>2, <2>3
<1>4. IsInjective(u)
  <2>1. DOMAIN u = 1 .. Len(u) /\ Len(u) \in Nat  BY <1>2
  <2> SUFFICES ASSUME NEW k \in DOMAIN u, NEW l \in DOMAIN u, u[k] = u[l], k # l PROVE FALSE
    BY DEF IsInjective
  <2>2. k < l \/ l < k  BY <2>1
  <2> QED  BY <1>3, <2>2
<1>5. u \in Chains(Provider)  BY <1>2, <1>4, FitsChain
<1>6. \A i \in DOMAIN o : o[i] \in wanted => u # <<>>
  <2>1. DOMAIN <<>> = {}  OBVIOUS
  <2> QED  BY <1>2, <2>1
<1> QED  BY <1>2, <1>5, <1>6 DEF u

\* Two orders without a common provider, one after the other.
LEMMA JoinFits ==
    ASSUME NEW o \in Chains(Provider), NEW n \in Chains(Provider),
           \A i \in DOMAIN o, j \in DOMAIN n : o[i] # n[j]
    PROVE  o \o n \in Chains(Provider) /\ (o # <<>> \/ n # <<>> => o \o n # <<>>)
<1>1. /\ o \in Seq(Provider) /\ n \in Seq(Provider) /\ IsInjective(o) /\ IsInjective(n)
      /\ DOMAIN o = 1 .. Len(o) /\ DOMAIN n = 1 .. Len(n) /\ Len(o) \in Nat /\ Len(n) \in Nat
  BY FitsChain
<1> DEFINE u == o \o n
<1>2. /\ u \in Seq(Provider) /\ Len(u) = Len(o) + Len(n) /\ DOMAIN u = 1 .. Len(o) + Len(n)
      /\ \A i \in 1 .. Len(o) : u[i] = o[i]
      /\ \A i \in 1 .. Len(o) + Len(n) : i > Len(o) => u[i] = n[i - Len(o)] /\ i - Len(o) \in 1 .. Len(n)
  BY <1>1
<1> HIDE DEF u
<1>3. IsInjective(u)
  <2> SUFFICES ASSUME NEW i \in 1 .. Len(o) + Len(n), NEW j \in 1 .. Len(o) + Len(n), u[i] = u[j]
               PROVE  i = j
    BY <1>2 DEF IsInjective
  <2>1. CASE i <= Len(o) /\ j <= Len(o)
    <3>1. i \in 1 .. Len(o) /\ j \in 1 .. Len(o)  BY <1>1, <2>1
    <3> QED  BY <1>1, <1>2, <3>1 DEF IsInjective
  <2>2. CASE i > Len(o) /\ j > Len(o)
    <3>1. n[i - Len(o)] = n[j - Len(o)] /\ i - Len(o) \in 1 .. Len(n) /\ j - Len(o) \in 1 .. Len(n)
      BY <1>2, <2>2
    <3>2. i - Len(o) = j - Len(o)  BY <1>1, <3>1 DEF IsInjective
    <3> QED  BY <1>1, <3>2
  <2>3. CASE i <= Len(o) /\ j > Len(o)
    <3>1. i \in 1 .. Len(o)  BY <1>1, <2>3
    <3> QED  BY <1>1, <1>2, <2>3, <3>1
  <2>4. CASE i > Len(o) /\ j <= Len(o)
    <3>1. j \in 1 .. Len(o)  BY <1>1, <2>4
    <3> QED  BY <1>1, <1>2, <2>4, <3>1
  <2> QED  BY <1>1, <2>1, <2>2, <2>3, <2>4
<1>4. o # <<>> \/ n # <<>> => u # <<>>
  <2>1. ASSUME u = <<>> PROVE o = <<>> /\ n = <<>>
    <3>1. Len(u) = 0  BY <2>1
    <3>2. Len(o) = 0 /\ Len(n) = 0  BY <1>1, <1>2, <3>1
    <3> QED  BY <1>1, <3>2
  <2> QED  BY <2>1
<1>5. u \in Chains(Provider)  BY <1>2, <1>3, FitsChain
<1> QED  BY <1>4, <1>5 DEF u

LEMMA SubFits ==
    ASSUME NEW o \in Chains(Provider), NEW a \in Nat \ {0}, NEW b \in Nat, b <= Len(o), a <= b + 1
    PROVE  /\ SubSeq(o, a, b) \in Chains(Provider)
           /\ DOMAIN SubSeq(o, a, b) = 1 .. b - a + 1
           /\ \A i \in 1 .. b - a + 1 : SubSeq(o, a, b)[i] = o[a + i - 1] /\ a + i - 1 \in DOMAIN o
<1>1. o \in Seq(Provider) /\ IsInjective(o) /\ DOMAIN o = 1 .. Len(o) /\ Len(o) \in Nat
  BY FitsChain
<1> DEFINE u == SubSeq(o, a, b)
<1>2. /\ u \in Seq(Provider) /\ DOMAIN u = 1 .. b - a + 1
      /\ \A i \in 1 .. b - a + 1 : u[i] = o[a + i - 1] /\ a + i - 1 \in 1 .. Len(o)
  <2>1. \A i \in a .. b : o[i] \in Provider  BY <1>1
  <2>2. u = [i \in 1 .. b - a + 1 |-> o[a + i - 1]]  BY <1>1
  <2>3. \A i \in 1 .. b - a + 1 : a + i - 1 \in 1 .. Len(o)  BY <1>1
  <2>4. b - a + 1 \in Nat  OBVIOUS
  <2> HIDE DEF u
  <2>5. u \in [1 .. b - a + 1 -> Provider]  BY <1>1, <2>2, <2>3
  <2>6. u \in Seq(Provider)  BY <2>4, <2>5
  <2>7. DOMAIN u = 1 .. b - a + 1  BY <2>5
  <2>8. \A i \in 1 .. b - a + 1 : u[i] = o[a + i - 1]  BY <2>2
  <2> QED  BY <2>3, <2>6, <2>7, <2>8
<1> HIDE DEF u
<1>3. IsInjective(u)
  <2> SUFFICES ASSUME NEW i \in 1 .. b - a + 1, NEW j \in 1 .. b - a + 1, u[i] = u[j] PROVE i = j
    BY <1>2 DEF IsInjective
  <2>1. a + i - 1 = a + j - 1  BY <1>1, <1>2 DEF IsInjective
  <2> QED  BY <2>1
<1>4. u \in Chains(Provider)  BY <1>2, <1>3, FitsChain
<1> QED  BY <1>1, <1>2, <1>4 DEF u

\* The providers that may take traffic, and the orders a request tries them in.
LEMMA EnabledFits == Enabled \in Chains(Provider) /\ Chain \in Chains(Provider)
<1>1. Chain \in Chains(Provider)  BY ChainAssumption, FitsChain
<1> QED  BY <1>1, KeptFits DEF Enabled

LEMMA RotatedFits ==
    ASSUME NEW p, Enabled # <<>>
    PROVE  RotatedAt(p) \in Chains(Provider) /\ RotatedAt(p) # <<>>
<1> DEFINE E == Enabled
           start == IF p \in ToSet(E) THEN CHOOSE i \in DOMAIN E : E[i] = p ELSE 1
<1>1. /\ E \in Chains(Provider) /\ E \in Seq(Provider) /\ IsInjective(E) /\ E # <<>>
      /\ DOMAIN E = 1 .. Len(E) /\ Len(E) \in Nat
  BY EnabledFits, FitsChain
<1>2. RotatedAt(p) = SubSeq(E, start, Len(E)) \o SubSeq(E, 1, start - 1)  BY DEF RotatedAt
<1> HIDE DEF E
<1>3. start \in 1 .. Len(E)
  <2>1. Len(E) > 0  BY <1>1
  <2> QED  BY <1>1, <2>1 DEF ToSet
<1> HIDE DEF start
<1> DEFINE a == SubSeq(E, start, Len(E))  b == SubSeq(E, 1, start - 1)
<1>4. /\ a \in Chains(Provider) /\ DOMAIN a = 1 .. Len(E) - start + 1
      /\ \A i \in 1 .. Len(E) - start + 1 : a[i] = E[start + i - 1] /\ start + i - 1 \in DOMAIN E
  BY <1>1, <1>3, SubFits
<1>5. /\ b \in Chains(Provider) /\ DOMAIN b = 1 .. start - 1
      /\ \A i \in 1 .. start - 1 : b[i] = E[i] /\ i \in DOMAIN E
  <2>1. /\ b \in Chains(Provider) /\ DOMAIN b = 1 .. (start - 1) - 1 + 1
        /\ \A i \in 1 .. (start - 1) - 1 + 1 : b[i] = E[1 + i - 1] /\ 1 + i - 1 \in DOMAIN E
    BY <1>1, <1>3, SubFits
  <2>2. (start - 1) - 1 + 1 = start - 1 /\ \A i \in 1 .. start - 1 : 1 + i - 1 = i  BY <1>3
  <2> HIDE DEF b
  <2> QED  BY <2>1, <2>2
<1> HIDE DEF a, b
<1>6. \A i \in DOMAIN a, j \in DOMAIN b : a[i] # b[j]
  <2> SUFFICES ASSUME NEW i \in DOMAIN a, NEW j \in DOMAIN b, a[i] = b[j] PROVE FALSE  OBVIOUS
  <2>1. start + i - 1 = j  BY <1>1, <1>4, <1>5 DEF IsInjective
  <2> QED  BY <1>3, <1>4, <1>5, <2>1
<1>7. a # <<>>
  <2>1. 1 \in DOMAIN a  BY <1>3, <1>4
  <2> QED  BY <2>1
<1>8. a \o b \in Chains(Provider) /\ a \o b # <<>>  BY <1>4, <1>5, <1>6, <1>7, JoinFits
<1> QED  BY <1>2, <1>8 DEF a, b

\* Every way of putting some providers in order.
LEMMA OrdersFit ==
    ASSUME NEW S \in SUBSET Provider, NEW o \in SetToSeqs(S)
    PROVE  o \in Chains(Provider) /\ (S # {} => o # <<>>)
<1>1. IsFiniteSet(S)  BY Providers, FS_Subset
<1>2. Cardinality(S) \in Nat /\ (S # {} => Cardinality(S) # 0)  BY <1>1, FS_CardinalityType, FS_EmptySet
<1>3. /\ o \in [1 .. Cardinality(S) -> S]
      /\ \A i, j \in 1 .. Cardinality(S) : i # j => o[i] # o[j]
  BY DEF SetToSeqs
<1>4. o \in Seq(Provider)  BY <1>2, <1>3
<1>5. DOMAIN o = 1 .. Cardinality(S)  BY <1>3
<1>6. IsInjective(o)  BY <1>3, <1>5 DEF IsInjective
<1>7. S # {} => o # <<>>
  <2>1. S # {} => 1 \in DOMAIN o  BY <1>2, <1>5
  <2> QED  BY <2>1
<1> QED  BY <1>4, <1>6, <1>7, FitsChain

LEMMA HealthyFirstFits ==
    ASSUME NEW o \in Chains(Provider), o # <<>>
    PROVE  HealthyFirst(o) \in Chains(Provider) /\ HealthyFirst(o) # <<>>
<1> DEFINE a == Kept(o, Up)  b == Kept(o, Provider \ Up)
<1>1. /\ a \in Chains(Provider) /\ b \in Chains(Provider)
      /\ \A k \in DOMAIN a : a[k] \in Up
      /\ \A k \in DOMAIN b : b[k] \in Provider \ Up
      /\ \A i \in DOMAIN o : o[i] \in Up => a # <<>>
      /\ \A i \in DOMAIN o : o[i] \in Provider \ Up => b # <<>>
  BY KeptFits
<1> HIDE DEF a, b
<1>2. 1 \in DOMAIN o /\ o[1] \in Provider
  <2>1. o \in Seq(Provider)  BY FitsChain
  <2> QED  BY <2>1
<1>3. a # <<>> \/ b # <<>>  BY <1>1, <1>2
<1>4. \A i \in DOMAIN a, j \in DOMAIN b : a[i] # b[j]  BY <1>1
<1>5. a \o b \in Chains(Provider) /\ a \o b # <<>>  BY <1>1, <1>3, <1>4, JoinFits
<1> QED  BY <1>5 DEF HealthyFirst, a, b

LEMMA ToFrontFits ==
    ASSUME NEW o \in Chains(Provider), NEW p \in Provider
    PROVE  ToFront(o, p) \in Chains(Provider) /\ ToFront(o, p) # <<>>
<1> DEFINE b == Kept(o, Provider \ {p})  a == <<p>>
<1>1. b \in Chains(Provider) /\ \A k \in DOMAIN b : b[k] # p  BY KeptFits
<1>2. a \in Seq(Provider) /\ DOMAIN a = {1} /\ a[1] = p /\ a # <<>>  OBVIOUS
<1> HIDE DEF a, b
<1>3. a \in Chains(Provider)
  <2>1. IsInjective(a)  BY <1>2 DEF IsInjective
  <2> QED  BY <1>2, <2>1, FitsChain
<1>4. \A i \in DOMAIN a, j \in DOMAIN b : a[i] # b[j]  BY <1>1, <1>2
<1>5. a \o b \in Chains(Provider) /\ a \o b # <<>>  BY <1>1, <1>2, <1>3, <1>4, JoinFits
<1> QED  BY <1>5 DEF ToFront, a, b

-----------------------------------------------------------------------------
(***************************************************************************)
(* Types.                                                                  *)
(***************************************************************************)
Place == {"new", "keyed", "ordered", "reserve", "try", "sent", "resting",
          "advance", "broken", "settling", "saving", "pinning", "done"}

KeyType == mode \in Modes /\ active \in Provider /\ saved \in Provider
RestType == mark \in [Provider -> {"up", "soft", "hard"}] /\ soft \in [Provider -> 0 .. Threshold]
PinType == pin \in [Session -> Maybe(Provider)]
WorldType == /\ disabled \subseteq Switched /\ turns \in 0 .. MaxTurns /\ ailed \subseteq Provider
             /\ health \in [Provider -> Ailment \union {"well"}]

\* A request that goes on to the next provider has one.
OrderFit(place, order) ==
    /\ place \notin {"new", "keyed", "done"} => order # <<>>
    /\ place = "advance" => Len(order) > 1

CallType == /\ pc \in [Call -> Place] /\ call \in [Call -> CallRecord]
            /\ \A c \in Call : OrderFit(pc[c], call[c].order)

Busy == {"moving", "saving", "reprobing", "listed", "unlisted"}
LoopType == /\ loop \in {"idle", "recovering"} \union Busy
            /\ todo \in Chains(Provider) /\ (loop \in Busy => todo # <<>>)

TypeInv == KeyType /\ RestType /\ PinType /\ WorldType /\ CallType /\ LoopType

LEMMA TypeInvSays == TypeInv => TypeOK
BY DEF TypeInv, KeyType, RestType, PinType, WorldType, CallType, LoopType, TypeOK, Place, Busy, OrderFit

LEMMA TypeInit == Init => TypeInv
<1> SUFFICES ASSUME Init PROVE TypeInv  OBVIOUS
<1>1. <<>> \in Chains(Provider)
  <2>1. <<>> \in Seq(Provider) /\ IsInjective(<<>>)  BY DEF IsInjective
  <2> QED  BY <2>1, FitsChain
<1>2. Preferred \in Provider
  <2>1. Chain \in Seq(Provider) /\ Chain # <<>>  BY ChainAssumption
  <2> QED  BY <2>1 DEF Preferred
<1>3. Fresh \in CallRecord  BY <1>1 DEF Fresh, CallRecord, Maybe
<1>4. CallType  BY <1>3 DEF Init, CallType, Place, OrderFit
<1>5. KeyType /\ RestType /\ PinType  BY <1>2, ChainAssumption DEF Init, KeyType, RestType, PinType, Maybe
<1>6. WorldType  BY ChainAssumption DEF Init, WorldType
<1>7. LoopType  BY <1>1 DEF Init, LoopType, Busy
<1> QED  BY <1>4, <1>5, <1>6, <1>7 DEF TypeInv

\* A request that takes a new record and goes to a place that fits it.
LEMMA CallKeeps ==
    ASSUME CallType, NEW c \in Call, NEW new \in CallRecord, call' = [call EXCEPT ![c] = new],
           NEW place \in Place, Goto(c, place), OrderFit(place, new.order)
    PROVE  CallType'
<1>1. /\ pc' \in [Call -> Place] /\ call' \in [Call -> CallRecord]
      /\ pc'[c] = place /\ call'[c] = new
      /\ \A d \in Call \ {c} : pc'[d] = pc[d] /\ call'[d] = call[d]
  BY DEF CallType, Goto
<1>2. \A d \in Call : OrderFit(pc'[d], call'[d].order)  BY <1>1 DEF CallType
<1> QED  BY <1>1, <1>2 DEF CallType, OrderFit

LEMMA CallMoves ==
    ASSUME CallType, NEW c \in Call, UNCHANGED call, NEW place \in Place, Goto(c, place),
           OrderFit(place, call[c].order)
    PROVE  CallType'
<1>1. call[c] \in CallRecord /\ call' = [call EXCEPT ![c] = call[c]]  BY DEF CallType
<1> QED  BY <1>1, CallKeeps

\* A failed request, whatever record it took that has the order it had.
LEMMA FailedKeeps ==
    ASSUME CallType, NEW c \in Call, call[c].order # <<>>, Failed(c),
           NEW new \in CallRecord, call' = [call EXCEPT ![c] = new], new.order = call[c].order
    PROVE  CallType'
<1>1. PICK place \in {IF CanDefer(c) THEN "advance" ELSE "settling", "broken"} : Goto(c, place)
  BY DEF Failed
<1>2. place \in Place  BY DEF Place
<1>3. OrderFit(place, new.order)  BY DEF OrderFit, CanDefer
<1> QED  BY <1>1, <1>2, <1>3, CallKeeps

LEMMA ReturnKeeps ==
    ASSUME CallType, NEW c \in Call, Return(c)
    PROVE  CallType'
<1> DEFINE new == [Fresh EXCEPT !.session = call[c].session, !.server = call[c].server]
<1>1. new \in CallRecord
  <2>1. <<>> \in Seq(Provider) /\ IsInjective(<<>>)  BY DEF IsInjective
  <2>2. <<>> \in Chains(Provider)  BY <2>1, FitsChain
  <2> QED  BY <2>2 DEF CallType, CallRecord, Fresh, Maybe
<1>2. call' = [call EXCEPT ![c] = new] /\ Goto(c, "done")  BY DEF Return
<1>3. "done" \in Place /\ OrderFit("done", new.order)  BY DEF Place, OrderFit
<1> HIDE DEF new
<1> QED  BY <1>1, <1>2, <1>3, CallKeeps

LEMMA PinKeepsType ==
    ASSUME PinType, NEW s, NEW p \in Maybe(Provider), pin' = [pin EXCEPT ![s] = p]
    PROVE  PinType'
BY DEF PinType

LEMMA LeaveKeeps ==
    ASSUME PinType, CallType, NEW c \in Call, Leave(c)
    PROVE  PinType' /\ CallType'
<1>1. PinType'
  <2>1. pin' = PinLeft(c)  BY DEF Leave
  <2> QED  BY <2>1 DEF PinLeft, Pinned, PinType, Maybe
<1>2. CallType'  BY ReturnKeeps DEF Leave
<1> QED  BY <1>1, <1>2

LEMMA NextKeeps ==
    ASSUME CallType, NEW c \in Call, CanDefer(c), call[c].order # <<>>, NextProvider(c)
    PROVE  CallType'
<1> DEFINE new == [call[c] EXCEPT !.order = Tail(@)]
<1>1. call[c] \in CallRecord /\ call[c].order \in Chains(Provider)  BY DEF CallType, CallRecord
<1>2. Tail(call[c].order) \in Chains(Provider) /\ Tail(call[c].order) # <<>>
  BY <1>1, TailFits DEF CanDefer
<1>3. new \in CallRecord /\ new.order = Tail(call[c].order)  BY <1>1, <1>2 DEF CallRecord
<1>4. call' = [call EXCEPT ![c] = new] /\ Goto(c, "try")  BY DEF NextProvider
<1>5. "try" \in Place /\ OrderFit("try", new.order)  BY <1>2, <1>3 DEF Place, OrderFit
<1> HIDE DEF new
<1> QED  BY <1>3, <1>4, <1>5, CallKeeps

\* The account a request is on, and marking it.
LEMMA CurrentType ==
    ASSUME CallType, NEW c \in Call, pc[c] \notin {"new", "keyed", "done"}
    PROVE  /\ call[c] \in CallRecord /\ call[c].order \in Chains(Provider)
           /\ call[c].order # <<>> /\ Current(c) \in Provider
<1>1. call[c] \in CallRecord /\ call[c].order \in Chains(Provider) /\ call[c].order # <<>>
  BY DEF CallType, CallRecord, OrderFit
<1> QED  BY <1>1, TailFits DEF Current

LEMMA MarkType ==
    ASSUME RestType, NEW p \in Provider
    PROVE  /\ MarkUp(p) => RestType'
           /\ \A kind \in {"up", "soft", "hard"} :
                 mark' = [mark EXCEPT ![p] = kind] /\ soft' \in {soft, [soft EXCEPT ![p] = 0]} => RestType'
<1>1. 0 \in 0 .. Threshold  BY ChainAssumption
<1> QED  BY <1>1 DEF RestType, MarkUp

LEMMA CountsType ==
    ASSUME RestType, NEW p \in Provider
    PROVE  Counts(p) \subseteq 0 .. Threshold
BY ChainAssumption DEF RestType, Counts

\* The steps of a request.
LEMMA ProceedType ==
    ASSUME TypeInv, NEW c \in Call, Proceed(c)
    PROVE  TypeInv'
<1> DEFINE r == call[c]
<1>0. /\ KeyType /\ RestType /\ PinType /\ WorldType /\ CallType /\ LoopType
      /\ r \in CallRecord /\ r.order \in Chains(Provider)
  BY DEF TypeInv, CallType, CallRecord
<1>k. ASSUME UNCHANGED keyVars, UNCHANGED worldVars PROVE KeyType' /\ WorldType'
  BY <1>0, <1>k DEF KeyType, WorldType, keyVars, worldVars
<1>r. ASSUME UNCHANGED restVars PROVE RestType'  BY <1>0, <1>r DEF RestType, restVars
<1>p. ASSUME UNCHANGED pin PROVE PinType'  BY <1>0, <1>p DEF PinType
<1>l. ASSUME UNCHANGED loopVars PROVE LoopType'  BY <1>0, <1>l DEF LoopType, loopVars
<1>v. ASSUME PassOver(c), r.order # <<>> PROVE TypeInv'
  <2>1. PinType' /\ CallType'
    <3>1. CASE CanDefer(c) /\ NextProvider(c) /\ UNCHANGED pin
      BY <1>0, <1>v, <1>p, <3>1, NextKeeps
    <3>2. CASE Leave(c)  BY <1>0, <3>2, LeaveKeeps
    <3> QED  BY <1>v, <3>1, <3>2 DEF PassOver
  <2> QED  BY <1>v, <2>1, <1>k, <1>r, <1>l DEF PassOver, TypeInv
<1>1. CASE Authenticate(c)
  <2>1. PICK s \in Session :
           /\ call' = [call EXCEPT ![c].session = s, ![c].active = active]
           /\ pin' = IF pin[s] \in disabled /\ Enabled # <<>> THEN [pin EXCEPT ![s] = None] ELSE pin
    BY <1>1 DEF Authenticate
  <2> DEFINE new == [r EXCEPT !.session = s, !.active = active]
  <2>2. new \in CallRecord  BY <1>0 DEF CallRecord, Maybe, KeyType
  <2>3. call' = [call EXCEPT ![c] = new]  BY <1>0, <2>1 DEF CallType, CallRecord
  <2>4. "keyed" \in Place /\ OrderFit("keyed", new.order)  BY DEF Place, OrderFit
  <2> HIDE DEF new
  <2>5. CallType'  BY <1>0, <1>1, <2>2, <2>3, <2>4, CallKeeps DEF Authenticate
  <2>6. PinType'  BY <1>0, <2>1 DEF PinType, Maybe
  <2> QED  BY <1>1, <2>5, <2>6, <1>k, <1>r, <1>l DEF Authenticate, TypeInv
<1>2. CASE Schedule(c)
  <2>1. CASE Leave(c)  BY <1>0, <1>2, <2>1, LeaveKeeps, <1>k, <1>r, <1>l DEF Schedule, TypeInv
  <2>2. CASE ~Leave(c)
    <3>1. PICK o \in IF mode = "spread" THEN Spread ELSE {RotatedAt(r.active)} :
             call' = [call EXCEPT ![c].order = HealthyFirst(o)]
      BY <1>2, <2>2 DEF Schedule
    <3>2. Enabled # <<>>  BY <1>2, <2>2 DEF Schedule
    <3>3. o \in Chains(Provider) /\ o # <<>>
      <4>1. CASE mode = "spread"
        <5>1. o \in SetToSeqs(ToSet(Enabled))  BY <3>1, <4>1 DEF Spread
        <5>2. Enabled \in Seq(Provider)  BY EnabledFits, FitsChain
        <5>3. ToSet(Enabled) \in SUBSET Provider /\ ToSet(Enabled) # {}
          <6>1. 1 \in DOMAIN Enabled  BY <3>2, <5>2
          <6> QED  BY <5>2, <6>1 DEF ToSet
        <5> QED  BY <5>1, <5>3, OrdersFit
      <4>2. CASE mode # "spread"
        <5>1. o = RotatedAt(r.active)  BY <3>1, <4>2
        <5> QED  BY <3>2, <5>1, RotatedFits
      <4> QED  BY <4>1, <4>2
    <3>4. HealthyFirst(o) \in Chains(Provider) /\ HealthyFirst(o) # <<>>  BY <3>3, HealthyFirstFits
    <3> DEFINE new == [r EXCEPT !.order = HealthyFirst(o)]
    <3>5. new \in CallRecord /\ new.order = HealthyFirst(o)  BY <1>0, <3>4 DEF CallRecord
    <3>6. call' = [call EXCEPT ![c] = new]  BY <3>1
    <3>7. Goto(c, "ordered") /\ UNCHANGED pin  BY <1>2, <2>2 DEF Schedule
    <3>8. "ordered" \in Place /\ OrderFit("ordered", new.order)  BY <3>4, <3>5 DEF Place, OrderFit
    <3> HIDE DEF new
    <3>9. CallType'  BY <1>0, <3>5, <3>6, <3>7, <3>8, CallKeeps
    <3> QED  BY <1>2, <3>7, <3>9, <1>k, <1>r, <1>p, <1>l DEF Schedule, TypeInv
  <2> QED  BY <2>1, <2>2
<1>c. ASSUME pc[c] \notin {"new", "keyed", "done"}
      PROVE  r.order # <<>> /\ Current(c) \in Provider
  BY <1>0, <1>c, CurrentType
<1>m. ASSUME NEW place \in Place, place \notin {"advance"}, r.order # <<>>, Goto(c, place), UNCHANGED call
      PROVE  CallType'
  <2>1. OrderFit(place, r.order)  BY <1>m DEF OrderFit
  <2> QED  BY <1>0, <1>m, <2>1, CallMoves
<1>3. CASE ApplyPin(c)
  <2>0. pc[c] = "ordered" /\ r.order # <<>>  BY <1>3, <1>c DEF ApplyPin
  <2>1. CASE Pin(c) \in ToSet(r.order)
    <3>1. Pin(c) \in Provider
      <4>1. r.order \in Seq(Provider)  BY <1>0, FitsChain
      <4> QED  BY <2>1, <4>1 DEF ToSet
    <3>2. ToFront(r.order, Pin(c)) \in Chains(Provider) /\ ToFront(r.order, Pin(c)) # <<>>
      BY <1>0, <3>1, ToFrontFits
    <3> DEFINE new == [r EXCEPT !.order = ToFront(r.order, Pin(c)), !.pinned = Pin(c)]
    <3>3. new \in CallRecord /\ new.order = ToFront(r.order, Pin(c))
      BY <1>0, <3>1, <3>2 DEF CallRecord, Maybe
    <3>4. call' = [call EXCEPT ![c] = new]  BY <1>0, <1>3, <2>1 DEF ApplyPin, CallType, CallRecord
    <3>5. Goto(c, "try") /\ UNCHANGED pin  BY <1>3, <2>1 DEF ApplyPin
    <3>6. "try" \in Place /\ OrderFit("try", new.order)  BY <3>2, <3>3 DEF Place, OrderFit
    <3> HIDE DEF new
    <3>7. CallType'  BY <1>0, <3>3, <3>4, <3>5, <3>6, CallKeeps
    <3> QED  BY <1>3, <3>5, <3>7, <1>k, <1>r, <1>p, <1>l DEF ApplyPin, TypeInv
  <2>2. CASE Pin(c) \notin ToSet(r.order)
    <3>1. UNCHANGED call /\ pin' = Pinned(c, None)  BY <1>3, <2>2 DEF ApplyPin
    <3>2. PICK place \in {"try", "reserve"} : Goto(c, place)  BY <1>3, <2>2 DEF ApplyPin
    <3>3. CallType'  BY <2>0, <3>1, <3>2, <1>m DEF Place
    <3>4. PinType'  BY <1>0, <3>1 DEF Pinned, PinType, Maybe
    <3> QED  BY <1>3, <3>3, <3>4, <1>k, <1>r, <1>l DEF ApplyPin, TypeInv
  <2> QED  BY <2>1, <2>2
<1>4. CASE Reserve(c)
  <2>0. r.order # <<>> /\ Current(c) \in Provider  BY <1>4, <1>c DEF Reserve
  <2> DEFINE new == [r EXCEPT !.reserved = Current(c)]
  <2>1. new \in CallRecord /\ new.order = r.order  BY <1>0, <2>0 DEF CallRecord, Maybe
  <2>2. call' = [call EXCEPT ![c] = new] /\ Goto(c, "try")  BY <1>4 DEF Reserve
  <2>3. "try" \in Place /\ OrderFit("try", new.order)  BY <2>0, <2>1 DEF Place, OrderFit
  <2> HIDE DEF new
  <2>4. CallType'  BY <1>0, <2>1, <2>2, <2>3, CallKeeps
  <2>5. PinType'  BY <1>0, <1>4, <2>0 DEF Reserve, Pinned, PinType, Maybe
  <2> QED  BY <1>4, <2>4, <2>5, <1>k, <1>r, <1>l DEF Reserve, TypeInv
<1>5. CASE Skip(c)  BY <1>5, <1>c, <1>v DEF Skip
<1>6. CASE Send(c)
  <2>1. r.order # <<>>  BY <1>6, <1>c DEF Send
  <2>2. CallType'  BY <1>6, <2>1, <1>m DEF Send, Place
  <2> QED  BY <1>6, <2>2, <1>k, <1>r, <1>p, <1>l DEF Send, TypeInv
<1>7. CASE Saturated(c)  BY <1>7, <1>c, <1>v DEF Saturated
<1>8. CASE ClientGone(c) \/ Broken(c)
  BY <1>0, <1>8, LeaveKeeps, <1>k, <1>r, <1>l DEF ClientGone, Broken, TypeInv
<1>9. CASE Answered(c)
  <2>0. r.order # <<>> /\ Current(c) \in Provider  BY <1>9, <1>c DEF Answered
  <2> DEFINE new == [r EXCEPT !.worthy = FALSE, !.server = Current(c)]
  <2>1. new \in CallRecord /\ new.order = r.order  BY <1>0, <2>0 DEF CallRecord, Maybe
  <2>2. call' = [call EXCEPT ![c] = new] /\ Goto(c, "settling")
    BY <1>0, <1>9 DEF Answered, CallType, CallRecord
  <2>3. "settling" \in Place /\ OrderFit("settling", new.order)  BY <2>0, <2>1 DEF Place, OrderFit
  <2> HIDE DEF new
  <2>4. CallType'  BY <1>0, <2>1, <2>2, <2>3, CallKeeps
  <2>5. RestType'  BY <1>0, <1>9, <2>0, MarkType DEF Answered
  <2> QED  BY <1>9, <2>4, <2>5, <1>k, <1>p, <1>l DEF Answered, TypeInv
<1>10. CASE Passed(c)
  <2>0. r.order # <<>> /\ Current(c) \in Provider  BY <1>10, <1>c DEF Passed
  <2> DEFINE new == [r EXCEPT !.worthy = TRUE]
  <2>1. new \in CallRecord /\ new.order = r.order  BY <1>0 DEF CallRecord
  <2>2. call' = [call EXCEPT ![c] = new] /\ Failed(c)  BY <1>10 DEF Passed
  <2> HIDE DEF new
  <2>4. CallType'  BY <1>0, <2>0, <2>1, <2>2, FailedKeeps
  <2>5. RestType'
    <3>1. 0 \in 0 .. Threshold  BY ChainAssumption
    <3> QED  BY <1>0, <1>10, <3>1 DEF Passed, RestType
  <2> QED  BY <1>10, <2>4, <2>5, <1>k, <1>p, <1>l DEF Passed, TypeInv
<1>q. ASSUME NEW probation \in SUBSET Qoder, Charge(c, probation), Failed(c), r.order # <<>>
      PROVE  CallType'
  <2> DEFINE new == [r EXCEPT !.worthy = TRUE, !.blame = @ \union probation]
  <2>1. new \in CallRecord /\ new.order = r.order  BY <1>0 DEF CallRecord
  <2>2. call' = [call EXCEPT ![c] = new]  BY <1>0, <1>q DEF Charge, CallType, CallRecord
  <2> HIDE DEF new
  <2> QED  BY <1>0, <1>q, <2>1, <2>2, FailedKeeps
<1>x. ASSUME Refused(c)
      PROVE  /\ r.order # <<>> /\ Current(c) \in Provider
             /\ KeyType' /\ WorldType' /\ PinType' /\ LoopType'
  <2>1. UNCHANGED <<keyVars, pin, worldVars, loopVars>>  BY <1>x DEF Refused
  <2> QED  BY <1>x, <2>1, <1>c, <1>k, <1>p, <1>l DEF Refused
<1>11. CASE RefusedDisabled(c)
  <2>1. Refused(c) /\ MarkUp(Current(c)) /\ Charge(c, {}) /\ Failed(c)  BY <1>11 DEF RefusedDisabled
  <2> QED  BY <1>0, <2>1, <1>x, <1>q, MarkType DEF TypeInv
<1>12. CASE RefusedHard(c)
  <2>1. Refused(c) /\ Charge(c, {}) /\ Failed(c)  BY <1>12 DEF RefusedHard
  <2>2. RestType'  BY <1>0, <1>12, <2>1, <1>x, MarkType DEF RefusedHard
  <2> QED  BY <2>1, <2>2, <1>x, <1>q DEF TypeInv
<1>13. CASE RefusedResting(c)
  <2>1. Refused(c) /\ Charge(c, {}) /\ Failed(c)  BY <1>13 DEF RefusedResting
  <2>2. RestType'  BY <1>0, <1>13, <2>1, <1>x, MarkType DEF RefusedResting
  <2> QED  BY <2>1, <2>2, <1>x, <1>q DEF TypeInv
<1>14. CASE RefusedOnProbation(c)
  <2>1. /\ Refused(c) /\ Current(c) \in Qoder /\ Charge(c, {Current(c)}) /\ Failed(c)
        /\ UNCHANGED restVars
    BY <1>14 DEF RefusedOnProbation
  <2>2. {Current(c)} \in SUBSET Qoder  BY <2>1
  <2> QED  BY <2>1, <2>2, <1>x, <1>q, <1>r DEF TypeInv
<1>15. CASE RefusedCounted(c)
  <2>1. Refused(c) /\ Charge(c, {}) /\ UNCHANGED mark  BY <1>15 DEF RefusedCounted
  <2>2. PICK n \in Counts(Current(c)) :
           /\ soft' = [soft EXCEPT ![Current(c)] = n]
           /\ IF n = Threshold THEN Goto(c, "resting") ELSE Failed(c)
    BY <1>15 DEF RefusedCounted
  <2>3. r.order # <<>> /\ Current(c) \in Provider  BY <2>1, <1>x
  <2>4. RestType'  BY <1>0, <2>1, <2>2, <2>3, CountsType DEF RestType
  <2>5. CallType'
    <3>1. CASE n = Threshold
      <4> DEFINE new == [r EXCEPT !.worthy = TRUE, !.blame = @ \union {}]
      <4>1. new \in CallRecord /\ new.order = r.order  BY <1>0 DEF CallRecord
      <4>2. call' = [call EXCEPT ![c] = new]  BY <1>0, <2>1 DEF Charge, CallType, CallRecord
      <4>3. "resting" \in Place /\ OrderFit("resting", new.order)  BY <2>3, <4>1 DEF Place, OrderFit
      <4> HIDE DEF new
      <4> QED  BY <1>0, <2>2, <3>1, <4>1, <4>2, <4>3, CallKeeps
    <3>2. CASE n # Threshold
      <4>1. {} \in SUBSET Qoder  OBVIOUS
      <4> QED  BY <2>1, <2>2, <2>3, <3>2, <4>1, <1>q
    <3> QED  BY <3>1, <3>2
  <2> QED  BY <2>1, <2>4, <2>5, <1>x DEF TypeInv
<1>16. CASE Rest(c)
  <2>0. r.order # <<>> /\ Current(c) \in Provider  BY <1>16, <1>c DEF Rest
  <2>1. CallType'
    <3>1. call' = [call EXCEPT ![c] = r] /\ Failed(c)  BY <1>0, <1>16 DEF Rest, CallType
    <3> QED  BY <1>0, <2>0, <3>1, FailedKeeps
  <2>2. RestType'  BY <1>0, <1>16, <2>0, MarkType DEF Rest
  <2> QED  BY <1>16, <2>1, <2>2, <1>k, <1>p, <1>l DEF Rest, TypeInv
<1>17. CASE Advance(c)
  <2>0. CanDefer(c) /\ r.order # <<>>
    BY <1>0, <1>17, <1>c DEF Advance, CallType, OrderFit, CanDefer
  <2>1. CallType'  BY <1>0, <1>17, <2>0, NextKeeps DEF Advance
  <2>2. PinType'  BY <1>0, <1>17 DEF Advance, Pinned, PinType, Maybe
  <2> QED  BY <1>17, <2>1, <2>2, <1>k, <1>r, <1>l DEF Advance, TypeInv
<1>18. CASE MoveKey(c)
  <2>0. r.order # <<>> /\ Current(c) \in Provider  BY <1>18, <1>c DEF MoveKey
  <2>1. PICK place \in {"saving", "pinning"} : Goto(c, place)  BY <1>18 DEF MoveKey
  <2>2. CallType'  BY <1>18, <2>0, <2>1, <1>m DEF MoveKey, Place
  <2>3. KeyType'  BY <1>0, <1>18, <2>0 DEF MoveKey, KeyType, worldVars
  <2>4. WorldType'  BY <1>0, <1>18 DEF MoveKey, WorldType, worldVars
  <2> QED  BY <1>18, <2>2, <2>3, <2>4, <1>r, <1>p, <1>l DEF MoveKey, TypeInv
<1>19. CASE SaveKey(c)
  <2>0. r.order # <<>> /\ Current(c) \in Provider  BY <1>19, <1>c DEF SaveKey
  <2>2. CallType'  BY <1>19, <2>0, <1>m DEF SaveKey, Place
  <2>3. KeyType'  BY <1>0, <1>19, <2>0 DEF SaveKey, KeyType, worldVars
  <2>4. WorldType'  BY <1>0, <1>19 DEF SaveKey, WorldType, worldVars
  <2> QED  BY <1>19, <2>2, <2>3, <2>4, <1>r, <1>p, <1>l DEF SaveKey, TypeInv
<1>20. CASE Settle(c)
  <2>0. Current(c) \in Provider  BY <1>20, <1>c DEF Settle
  <2>1. PinType'
    <3>1. pin' = PinSettled(c)  BY <1>20 DEF Settle
    <3> QED  BY <1>0, <2>0, <3>1 DEF PinSettled, PinLeft, Pinned, PinType, Maybe
  <2>2. RestType'
    <3>1. soft' \in [Provider -> 0 .. Threshold]  BY <1>20 DEF Settle
    <3>2. mark' = [p \in Provider |->
                     IF p \in Charged(c) /\ soft'[p] = Threshold THEN "soft" ELSE mark[p]]
      BY <1>20 DEF Settle
    <3> QED  BY <1>0, <3>1, <3>2 DEF RestType
  <2>3. CallType'  BY <1>0, <1>20, ReturnKeeps DEF Settle
  <2> QED  BY <1>20, <2>1, <2>2, <2>3, <1>k, <1>l DEF Settle, TypeInv
<1> QED
  BY <1>1, <1>2, <1>3, <1>4, <1>5, <1>6, <1>7, <1>8, <1>9, <1>10, <1>11, <1>12, <1>13, <1>14,
     <1>15, <1>16, <1>17, <1>18, <1>19, <1>20 DEF Proceed

\* The steps of the recovery loop, of the vendors, the administrator and the clock.
LEMMA TypeStep == TypeInv /\ [Next]_vars => TypeInv'
<1> SUFFICES ASSUME TypeInv, [Next]_vars PROVE TypeInv'  OBVIOUS
<1>0. KeyType /\ RestType /\ PinType /\ WorldType /\ CallType /\ LoopType  BY DEF TypeInv
<1>1. ASSUME NEW c \in Call, Proceed(c) PROVE TypeInv'  BY <1>1, ProceedType
<1>l. ASSUME NEW doing, NEW list \in Chains(Provider), Work(doing, list),
             doing \in {"idle", "recovering"} \union Busy, doing \in Busy => list # <<>>
      PROVE  LoopType'
  BY <1>l DEF Work, LoopType
<1>e. <<>> \in Chains(Provider)
  <2>1. <<>> \in Seq(Provider) /\ IsInjective(<<>>)  BY DEF IsInjective
  <2> QED  BY <2>1, FitsChain
<1>p. ASSUME NEW list \in Chains(Provider), Reprobed(list) PROVE LoopType'
  BY <1>e, <1>p, <1>l DEF Reprobed, Busy
<1>b. ASSUME loop \in Busy PROVE Head(todo) \in Provider /\ Tail(todo) \in Chains(Provider)
                                 /\ todo \in Chains(Provider) /\ todo # <<>>
  BY <1>0, <1>b, TailFits DEF LoopType
<1>k. ASSUME UNCHANGED <<keyVars, pin, worldVars, pc, call>>
      PROVE  KeyType' /\ PinType' /\ WorldType' /\ CallType'
  BY <1>0, <1>k DEF KeyType, PinType, WorldType, CallType, keyVars, worldVars
<1>2. CASE RecoverStart
  <2>1. SubSeq(Chain, 1, Index(active) - 1) \in Chains(Provider)
    <3>1. \E i \in DOMAIN Chain : Chain[i] = active  BY <1>0 DEF KeyType, Provider, ToSet
    <3>2. Index(active) \in DOMAIN Chain  BY <3>1 DEF Index
    <3>3. DOMAIN Chain = 1 .. Len(Chain) /\ Len(Chain) \in Nat  BY ChainAssumption
    <3> DEFINE n == Index(active) - 1
    <3>4. n \in Nat /\ n <= Len(Chain) /\ 1 \in Nat \ {0} /\ 1 <= n + 1  BY <3>2, <3>3
    <3> HIDE DEF n
    <3>5. SubSeq(Chain, 1, n) \in Chains(Provider)  BY <3>4, EnabledFits, SubFits
    <3> QED  BY <3>5 DEF n
  <2>2. LoopType'  BY <1>2, <2>1, <1>l DEF RecoverStart, Busy
  <2> QED  BY <1>0, <1>2, <2>2 DEF RecoverStart, TypeInv, KeyType, PinType, WorldType, CallType,
             RestType, keyVars, worldVars, restVars
<1>3. CASE RecoverProbe
  <2>1. todo \in Chains(Provider) /\ (todo # <<>> => Tail(todo) \in Chains(Provider))
    BY <1>0, TailFits DEF LoopType
  <2>2. LoopType'  BY <1>3, <1>e, <2>1, <1>l DEF RecoverProbe, Busy
  <2> QED  BY <1>0, <1>3, <2>2 DEF RecoverProbe, TypeInv, KeyType, PinType, WorldType, CallType,
             RestType, keyVars, worldVars, restVars
<1>4. CASE RecoverMove
  <2>1. Head(todo) \in Provider /\ todo \in Chains(Provider) /\ todo # <<>>
    BY <1>4, <1>b DEF RecoverMove, Busy
  <2>2. LoopType'  BY <1>4, <2>1, <1>l DEF RecoverMove, Busy
  <2> QED  BY <1>0, <1>4, <2>1, <2>2 DEF RecoverMove, TypeInv, KeyType, PinType, WorldType, CallType,
             RestType, worldVars, restVars
<1>5. CASE RecoverSave
  <2>1. Head(todo) \in Provider  BY <1>5, <1>b DEF RecoverSave, Busy
  <2>2. LoopType'  BY <1>5, <1>e, <1>l DEF RecoverSave, Busy
  <2> QED  BY <1>0, <1>5, <2>1, <2>2 DEF RecoverSave, TypeInv, KeyType, PinType, WorldType, CallType,
             RestType, worldVars, restVars
<1>6. CASE ReprobeStart
  <2> DEFINE rested == {p \in Provider : mark[p] # "up"}
  <2>1. PICK o \in SetToSeqs(rested) : Work("reprobing", o)  BY <1>6 DEF ReprobeStart
  <2>2. rested \in SUBSET Provider /\ rested # {}  BY <1>6 DEF ReprobeStart
  <2> HIDE DEF rested
  <2>3. o \in Chains(Provider) /\ o # <<>>  BY <2>2, OrdersFit
  <2>4. LoopType'  BY <2>1, <2>3, <1>l DEF Busy
  <2> QED  BY <1>0, <1>6, <2>4 DEF ReprobeStart, TypeInv, KeyType, PinType, WorldType, CallType,
             RestType, keyVars, worldVars, restVars
<1>7. CASE ReprobeProbe
  <2>1. /\ Head(todo) \in Provider /\ Tail(todo) \in Chains(Provider)
        /\ todo \in Chains(Provider) /\ todo # <<>>
    BY <1>7, <1>b DEF ReprobeProbe, Busy
  <2>2. LoopType' /\ RestType'
    <3>1. CASE MarkUp(Head(todo)) /\ Reprobed(Tail(todo))  BY <1>0, <2>1, <3>1, <1>p, MarkType
    <3>2. CASE UNCHANGED restVars /\ \E doing \in {"listed", "unlisted"} : Work(doing, todo)
      BY <1>0, <2>1, <3>2, <1>l DEF Busy, RestType, restVars
    <3> QED  BY <1>7, <3>1, <3>2 DEF ReprobeProbe
  <2> QED  BY <1>7, <2>2, <1>k DEF ReprobeProbe, TypeInv
<1>r. ASSUME NEW p \in Provider, mark' = Remarked(p), soft' \in {soft, [soft EXCEPT ![p] = 0]}
      PROVE  RestType'
  <2>1. PICK kind \in {"up", "soft", "hard"} : mark' = [mark EXCEPT ![p] = kind]
    BY <1>r DEF Remarked
  <2> QED  BY <1>0, <1>r, <2>1, MarkType
<1>8. CASE ReprobeListed
  <2>1. Head(todo) \in Provider /\ Tail(todo) \in Chains(Provider)
    BY <1>8, <1>b DEF ReprobeListed, Busy
  <2>2. RestType'
    <3>1. CASE MarkUp(Head(todo))  BY <1>0, <2>1, <3>1, MarkType
    <3>2. CASE mark' = Remarked(Head(todo)) /\ UNCHANGED soft  BY <2>1, <3>2, <1>r
    <3> QED  BY <1>8, <3>1, <3>2 DEF ReprobeListed
  <2>3. LoopType'  BY <1>8, <2>1, <1>p DEF ReprobeListed
  <2> QED  BY <1>8, <2>2, <2>3, <1>k DEF ReprobeListed, TypeInv
<1>9. CASE ReprobeUnlisted
  <2>1. Head(todo) \in Provider /\ Tail(todo) \in Chains(Provider)
    BY <1>9, <1>b DEF ReprobeUnlisted, Busy
  <2>2. RestType'  BY <1>9, <2>1, <1>r DEF ReprobeUnlisted
  <2>3. LoopType'  BY <1>9, <2>1, <1>p DEF ReprobeUnlisted
  <2> QED  BY <1>9, <2>2, <2>3, <1>k DEF ReprobeUnlisted, TypeInv
<1>o. ASSUME UNCHANGED <<keyVars, restVars, pc, call, loopVars>>
      PROVE  RestType' /\ CallType' /\ LoopType' /\ active' \in Provider /\ saved' \in Provider
  BY <1>0, <1>o DEF KeyType, RestType, CallType, LoopType, keyVars, restVars, loopVars
<1>10. ASSUME NEW p \in Provider, Turn(p) PROVE TypeInv'
  <2>1. WorldType'
    <3>1. PICK h \in Ailment \union {"well"} : health' = [health EXCEPT ![p] = h]
      BY <1>10 DEF Turn
    <3>2. health' \in [Provider -> Ailment \union {"well"}]  BY <1>0, <3>1 DEF WorldType
    <3>3. turns' \in 0 .. MaxTurns  BY <1>0, <1>10, ChainAssumption DEF WorldType, Turn
    <3>4. ailed' \subseteq Provider /\ disabled' \subseteq Switched
      BY <1>0, <1>10 DEF WorldType, Turn
    <3> QED  BY <3>2, <3>3, <3>4 DEF WorldType
  <2>2. KeyType' /\ PinType'  BY <1>0, <1>10 DEF Turn, KeyType, PinType, keyVars
  <2> QED  BY <1>10, <2>1, <2>2, <1>o DEF Turn, TypeInv
<1>11. ASSUME NEW p \in Switched, Toggle(p) PROVE TypeInv'
  <2>1. WorldType'  BY <1>0, <1>11 DEF WorldType, Toggle
  <2>2. KeyType' /\ PinType'  BY <1>0, <1>11 DEF Toggle, KeyType, PinType, keyVars
  <2> QED  BY <1>11, <2>1, <2>2, <1>o DEF Toggle, TypeInv
<1>12. ASSUME NEW s \in Session, PinExpires(s) PROVE TypeInv'
  <2>1. PinType'  BY <1>0, <1>12 DEF PinExpires, PinType, Maybe
  <2>2. KeyType' /\ WorldType'  BY <1>0, <1>12 DEF PinExpires, KeyType, WorldType, keyVars, worldVars
  <2> QED  BY <1>12, <2>1, <2>2, <1>o DEF PinExpires, TypeInv
<1>13. CASE UNCHANGED vars
  BY <1>0, <1>13 DEF vars, TypeInv, KeyType, PinType, WorldType, CallType, LoopType, RestType,
     keyVars, worldVars, restVars, loopVars
<1> QED
  BY <1>1, <1>2, <1>3, <1>4, <1>5, <1>6, <1>7, <1>8, <1>9, <1>10, <1>11, <1>12, <1>13
  DEF Next, Recover, Reprobe

\* Whatever the marks, the pins and the switches a request reads, and however often the
\* chain is filtered, rotated and rearranged, every variable keeps its type: an order
\* has no provider twice, and a request in the loop has one to try
\* (provider_failover.go:1405, :1430).
THEOREM TypeCorrect == Spec => []TypeOK
<1>1. Spec => []TypeInv  BY TypeInit, TypeStep, PTL DEF Spec
<1> QED  BY <1>1, TypeInvSays, PTL

-----------------------------------------------------------------------------
(***************************************************************************)
(* Failures on probation.                                                  *)
(***************************************************************************)
\* The count of a Qoder account rises only as an answered request returns.
Blamed == \A p \in Qoder : soft'[p] > soft[p] =>
              \E c \in Call : pc[c] # "done" /\ pc'[c] = "done" /\ call[c].server # None

LEMMA BlameStep == TypeInv /\ PinInv /\ [Next]_vars => Blamed
<1> SUFFICES ASSUME TypeInv, PinInv, [Next]_vars, NEW p \in Qoder, soft'[p] > soft[p]
             PROVE  \E c \in Call : pc[c] # "done" /\ pc'[c] = "done" /\ call[c].server # None
  BY DEF Blamed
<1>0. /\ RestType /\ CallType /\ LoopType /\ soft \in [Provider -> 0 .. Threshold]
      /\ p \in Provider /\ soft[p] \in Nat
  BY ChainAssumption DEF TypeInv, RestType
<1>1. \A q : ~(soft' \in {soft, [soft EXCEPT ![q] = 0]})
  BY <1>0
<1>2. ~UNCHANGED soft /\ \A q : ~MarkUp(q)
  BY <1>1 DEF MarkUp
<1>3. ASSUME NEW c \in Call, RefusedCounted(c) PROVE FALSE
  BY <1>0, <1>3 DEF RefusedCounted
<1>4. ASSUME NEW c \in Call, Settle(c) PROVE pc[c] # "done" /\ pc'[c] = "done" /\ call[c].server # None
  <2>1. pc[c] = "pinning" /\ pc'[c] = "done"
    BY <1>0, <1>4 DEF Settle, Return, Goto, CallType
  <2>2. p \in Charged(c)
    BY <1>0, <1>4 DEF Settle
  <2>3. ~call[c].worthy  BY <2>2 DEF Charged
  <2>4. call[c].server = Current(c)  BY <2>1, <2>3 DEF PinInv, Anchors, Settling
  <2>5. Current(c) \in Provider  BY <1>0, <2>1, CurrentType
  <2>6. None \notin Provider  BY ChainAssumption DEF None
  <2> QED  BY <2>1, <2>4, <2>5, <2>6
<1>5. ASSUME NEW c \in Call, Proceed(c) PROVE Settle(c)
  <2>1. ~UNCHANGED restVars  BY <1>2 DEF restVars
  <2>2. ~PassOver(c)  BY <2>1 DEF PassOver
  <2>3. ~(Skip(c) \/ Saturated(c))  BY <2>2 DEF Skip, Saturated
  <2>4. ~(Authenticate(c) \/ Schedule(c) \/ ApplyPin(c) \/ Reserve(c) \/ Send(c) \/ ClientGone(c))
    BY <2>1 DEF Authenticate, Schedule, ApplyPin, Reserve, Send, ClientGone
  <2>5. ~(Advance(c) \/ Broken(c) \/ MoveKey(c) \/ SaveKey(c) \/ RefusedOnProbation(c))
    BY <2>1 DEF Advance, Broken, MoveKey, SaveKey, RefusedOnProbation
  <2>6. ~(Answered(c) \/ Passed(c) \/ RefusedDisabled(c) \/ RefusedHard(c) \/ RefusedResting(c) \/ Rest(c))
    BY <1>1, <1>2 DEF Answered, Passed, RefusedDisabled, RefusedHard, RefusedResting, Rest
  <2> QED  BY <1>3, <1>5, <2>3, <2>4, <2>5, <2>6 DEF Proceed
<1>6. ~Recover /\ ~Reprobe
  BY <1>1, <1>2
  DEF Recover, Reprobe, RecoverStart, RecoverProbe, RecoverMove, RecoverSave, restVars,
      ReprobeStart, ReprobeProbe, ReprobeListed, ReprobeUnlisted
<1>7. /\ \A q \in Provider : ~Turn(q)
      /\ \A q \in Switched : ~Toggle(q)
      /\ \A s \in Session : ~PinExpires(s)
      /\ ~UNCHANGED vars
  BY <1>2 DEF Turn, Toggle, PinExpires, restVars, vars
<1>8. PICK c \in Call : Settle(c)  BY <1>5, <1>6, <1>7 DEF Next
<1> QED  BY <1>4, <1>8

\* A request that ends without an answer leaves the counts of the pool as they were,
\* whatever refusals it met and whoever runs beside it.
THEOREM BlameNeedsAnswerCorrect == Spec => BlameNeedsAnswer
<1>1. Spec => []TypeInv  BY TypeInit, TypeStep, PTL DEF Spec
<1>2. Spec => []PinInv  BY PinInit, PinStep, PTL DEF Spec
<1>3. TypeInv /\ PinInv /\ [Next]_vars => [Blamed]_vars  BY BlameStep
<1>4. Spec => [][Blamed]_vars  BY <1>1, <1>2, <1>3, PTL DEF Spec
<1> QED  BY <1>4 DEF BlameNeedsAnswer, Blamed
=============================================================================
