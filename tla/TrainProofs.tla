---------------------------- MODULE TrainProofs -----------------------------
(***************************************************************************)
(* The theorem about Train: for any number of trains of one direction,     *)
(* never two are on the track, whatever the races on T do to the counts.   *)
(*                                                                         *)
(* The argument is a token that is in G, in F of that direction or on the  *)
(* track.  A wrong count sends the token to the wrong semaphore; it does   *)
(* not make a second one.                                                  *)
(***************************************************************************)
EXTENDS Train, TLAPS

\* All trains draw the same direction.
OneWay == \E d \in {0, 1} : Direction = {d}

Way == CHOOSE d \in Direction : TRUE

OneToken ==
  \/ G = 1 /\ F[Way] = 0 /\ OnTrack = {}
  \/ G = 0 /\ F[Way] = 1 /\ OnTrack = {}
  \/ G = 0 /\ F[Way] = 0 /\ \E t \in Trains : OnTrack = {t}

TrainInv == TypeOK /\ OneToken

LEMMA OneDirection ==
  ASSUME OneWay PROVE Way \in {0, 1} /\ Direction = {Way}
<1>1. PICK d \in {0, 1} : Direction = {d}
  BY DEF OneWay
<1> QED BY <1>1 DEF Way

LEMMA TypeOKNext == OneWay /\ TypeOK /\ [Next]_vars => TypeOK'
<1> SUFFICES ASSUME OneWay, TypeOK, [Next]_vars PROVE TypeOK'
  OBVIOUS
<1> USE DEF OneWay, TypeOK, Location, GoTo
<1>1. \A t \in Trains : dir[t] \in {0, 1} /\ 1 - dir[t] \in {0, 1}
  <2>1. ASSUME NEW t \in Trains PROVE dir[t] = 0 \/ dir[t] = 1
    BY <2>1
  <2> QED BY <2>1
<1>2. ASSUME NEW t \in Trains, Look(t) \/ Load(t) \/ Arrive(t) PROVE TypeOK'
  BY <1>1, <1>2 DEF Look, Load, Arrive
<1>3. ASSUME NEW t \in Trains, Count(t) \/ Uncount(t) PROVE TypeOK'
  BY <1>1, <1>3 DEF Count, Uncount
<1>4. ASSUME NEW t \in Trains, EnterFirst(t) \/ EnterNext(t) PROVE TypeOK'
  BY <1>1, <1>4 DEF EnterFirst, EnterNext
<1>5. ASSUME NEW t \in Trains, Leave(t) \/ Switch(t) PROVE TypeOK'
  BY <1>1, <1>5 DEF Leave, Switch
<1>6. CASE UNCHANGED vars
  BY <1>6 DEF vars
<1> QED BY <1>2, <1>3, <1>4, <1>5, <1>6 DEF Next

LEMMA OneTokenNext ==
  ASSUME OneWay, TypeOK, OneToken, [Next]_vars PROVE OneToken'
<1> USE DEF TypeOK, Location, GoTo
<1>1. Way \in {0, 1} /\ \A t \in Trains : dir[t] = Way
  BY OneDirection
<1>2. ASSUME NEW t \in Trains,
             Look(t) \/ Load(t) \/ Count(t) \/ Arrive(t) \/ Uncount(t)
      PROVE  OneToken'
  <2>1. OnTrack' = OnTrack /\ UNCHANGED <<F, G>>
    BY <1>2 DEF Look, Load, Count, Arrive, Uncount, OnTrack
  <2> QED BY <2>1 DEF OneToken
<1>3. ASSUME NEW t \in Trains, EnterFirst(t) \/ EnterNext(t) PROVE OneToken'
  <2>1. OnTrack = {}
    BY <1>1, <1>3 DEF EnterFirst, EnterNext, OneToken
  <2>2. OnTrack' = {t}
    BY <1>3, <2>1 DEF EnterFirst, EnterNext, OnTrack
  <2> QED BY <1>1, <1>3, <2>1, <2>2 DEF EnterFirst, EnterNext, OneToken
<1>4. ASSUME NEW t \in Trains, Leave(t) PROVE OneToken'
  <2>1. OnTrack = {t} /\ G = 0 /\ F[Way] = 0
    BY <1>4 DEF Leave, OneToken, OnTrack
  <2>2. OnTrack' = {}
    BY <1>4, <2>1 DEF Leave, OnTrack
  <2> QED BY <1>1, <1>4, <2>1, <2>2 DEF Leave, OneToken
<1>5. ASSUME NEW t \in Trains, Switch(t) PROVE OneToken'
  <2>1. OnTrack' = OnTrack /\ G' = G /\ F'[Way] = F[Way]
    BY <1>1, <1>5 DEF Switch, OnTrack
  <2> QED BY <2>1 DEF OneToken
<1>6. CASE UNCHANGED vars
  BY <1>6 DEF vars, OneToken, OnTrack
<1> QED BY <1>2, <1>3, <1>4, <1>5, <1>6 DEF Next

\* When the trains of train.c all draw the same direction, one at most is on the track.
THEOREM OneWayIsSafe ==
  ASSUME OneWay PROVE Spec => []OneTrain
<1>1. Init => TrainInv
  BY OneDirection DEF OneWay, Init, TrainInv, TypeOK, OneToken, OnTrack, Location
<1>2. TrainInv /\ [Next]_vars => TrainInv'
  BY TypeOKNext, OneTokenNext DEF TrainInv
<1>3. TrainInv => OneTrain
  BY DEF TrainInv, OneToken, OneTrain
<1> QED BY <1>1, <1>2, <1>3, PTL DEF Spec

=============================================================================
