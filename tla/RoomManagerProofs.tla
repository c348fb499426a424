------------------------- MODULE RoomManagerProofs -------------------------
(***************************************************************************)
(* Theorems about the room table, for any set of sessions, any set of room *)
(* ids and any viewer limit.                                               *)
(***************************************************************************)
EXTENDS RoomManager, FiniteSetTheorems, TLAPS

(***************************************************************************)
(* The pure part of removeSession keeps the types: what is left of the     *)
(* three tables is again three tables of the right shape.                  *)
(***************************************************************************)
LEMMA RemovalTypes ==
  ASSUME RMTypeOK, NEW s \in Sessions
  PROVE  /\ SharersWithout(s) \in [RoomIds -> Sessions \union {None}]
         /\ ViewersWithout(s) \in [RoomIds -> SUBSET Sessions]
         /\ IndexWithout(s) \in [Sessions -> RoomIds \union {None}]
         /\ \A r \in RoomIds : SharersWithout(s)[r] = None => ViewersWithout(s)[r] = {}
BY DEF RMTypeOK, SharersWithout, ViewersWithout, IndexWithout, RemovalKind, RoomExists

(***************************************************************************)
(* The tables keep their types, and a room that does not exist has no      *)
(* viewers.                                                                *)
(***************************************************************************)
LEMMA RMTypeOKStep == RMTypeOK /\ [RMNext]_rmVars => RMTypeOK'
<1> SUFFICES ASSUME RMTypeOK, [RMNext]_rmVars PROVE RMTypeOK'
  OBVIOUS
<1>1. CASE UNCHANGED rmVars
  BY <1>1 DEF RMTypeOK, rmVars, RoomExists
<1>2. ASSUME NEW s \in Sessions, RemoveSession(s) PROVE RMTypeOK'
  BY <1>2, RemovalTypes DEF RMTypeOK, RemoveSession, RoomExists
<1>3. ASSUME NEW s \in Sessions, NEW r \in RoomIds, CreateRoom(s, r) PROVE RMTypeOK'
  BY <1>3, RemovalTypes, NoneAssumption DEF RMTypeOK, CreateRoom, RoomExists
<1>4. ASSUME NEW s \in Sessions, NEW r \in RoomIds, JoinRoom(r, s) PROVE RMTypeOK'
  BY <1>4 DEF RMTypeOK, JoinRoom, JoinResult, RoomExists, rmVars
<1> QED
  BY <1>1, <1>2, <1>3, <1>4 DEF RMNext

THEOREM RMTypeCorrect == RMSpec => []RMTypeOK
<1>1. RMInit => RMTypeOK
  BY DEF RMInit, RMTypeOK, RoomExists
<1> QED
  BY <1>1, RMTypeOKStep, PTL DEF RMSpec
-----------------------------------------------------------------------------
(***************************************************************************)
(* removeSession and getRoomForSession may trust the index: a session is   *)
(* only ever indexed under a live room it shares or watches.               *)
(***************************************************************************)
LEMMA IndexSoundAfterRemoval ==
  ASSUME RMTypeOK, IndexSound, NEW s \in Sessions, NEW t \in Sessions,
         IndexWithout(s)[t] # None
  PROVE  /\ t # s
         /\ IndexWithout(s)[t] = sessionRooms[t]
         /\ SharersWithout(s)[sessionRooms[t]] = sharerId[sessionRooms[t]]
         /\ t = sharerId[sessionRooms[t]] \/ t \in ViewersWithout(s)[sessionRooms[t]]
         /\ sharerId[sessionRooms[t]] # None
<1>1. /\ t # s /\ sessionRooms[t] # None /\ IndexWithout(s)[t] = sessionRooms[t]
      /\ sessionRooms[t] \in RoomIds
      /\ RemovalKind(s) = "room-ended" => t \notin viewers[sessionRooms[s]]
  BY DEF IndexWithout, RMTypeOK
<1>2. sharerId[sessionRooms[t]] # None /\ (t = sharerId[sessionRooms[t]] \/ t \in viewers[sessionRooms[t]])
  BY <1>1 DEF IndexSound, RoomExists
<1>3. ~(RemovalKind(s) = "room-ended" /\ sessionRooms[t] = sessionRooms[s])
  BY <1>1, <1>2 DEF RemovalKind
<1> QED
  BY <1>1, <1>2, <1>3 DEF SharersWithout, ViewersWithout, RMTypeOK

LEMMA IndexSoundStep ==
  RMTypeOK /\ RMTypeOK' /\ IndexSound /\ [RMNext]_rmVars => IndexSound'
<1> SUFFICES ASSUME RMTypeOK, RMTypeOK', IndexSound, [RMNext]_rmVars PROVE IndexSound'
  OBVIOUS
<1>1. CASE UNCHANGED rmVars
  BY <1>1 DEF IndexSound, rmVars, RoomExists
<1>2. ASSUME NEW s \in Sessions, RemoveSession(s) PROVE IndexSound'
  BY <1>2, IndexSoundAfterRemoval DEF IndexSound, RemoveSession, RoomExists
<1>3. ASSUME NEW s \in Sessions, NEW r \in RoomIds, CreateRoom(s, r) PROVE IndexSound'
  <2>1. SUFFICES ASSUME NEW t \in Sessions, sessionRooms'[t] # None
                 PROVE  /\ sharerId'[sessionRooms'[t]] # None
                        /\ t = sharerId'[sessionRooms'[t]] \/ t \in viewers'[sessionRooms'[t]]
    BY DEF IndexSound, RoomExists
  <2>2. CASE t = s
    BY <1>3, <2>2, RemovalTypes, NoneAssumption DEF CreateRoom, RMTypeOK
  <2>3. CASE t # s
    <3>1. sessionRooms'[t] = IndexWithout(s)[t] /\ IndexWithout(s)[t] # None
      BY <1>3, <2>1, <2>3, RemovalTypes DEF CreateRoom
    <3>2. sessionRooms[t] # r /\ sessionRooms[t] \in RoomIds
      BY <1>3, <3>1, IndexSoundAfterRemoval DEF CreateRoom, RMTypeOK
    <3> QED
      BY <1>3, <3>1, <3>2, IndexSoundAfterRemoval, RemovalTypes DEF CreateRoom
  <2> QED
    BY <2>2, <2>3
<1>4. ASSUME NEW s \in Sessions, NEW r \in RoomIds, JoinRoom(r, s) PROVE IndexSound'
  BY <1>4 DEF IndexSound, JoinRoom, JoinResult, RoomExists, RMTypeOK, rmVars
<1> QED
  BY <1>1, <1>2, <1>3, <1>4 DEF RMNext

THEOREM IndexIsSound == RMSpec => []IndexSound
<1>1. RMInit => IndexSound
  BY DEF RMInit, IndexSound
<1> QED
  BY <1>1, RMTypeCorrect, IndexSoundStep, PTL DEF RMSpec
-----------------------------------------------------------------------------
(***************************************************************************)
(* However removal leaves a room, it leaves no more viewers than it had.   *)
(***************************************************************************)
LEMMA RemovalKeepsCap ==
  ASSUME RMTypeOK, ViewerCap, NEW s \in Sessions, NEW r \in RoomIds
  PROVE  /\ IsFiniteSet(ViewersWithout(s)[r])
         /\ Cardinality(ViewersWithout(s)[r]) <= MaxViewers
         /\ SharersWithout(s)[r] \notin ViewersWithout(s)[r]
<1> DEFINE V == ViewersWithout(s)[r]
<1>1. IsFiniteSet(viewers[r]) /\ Cardinality(viewers[r]) <= MaxViewers
  BY DEF ViewerCap
<1>2. V \subseteq viewers[r]
  BY DEF ViewersWithout, RMTypeOK
<1>3. IsFiniteSet(V) /\ Cardinality(V) <= Cardinality(viewers[r])
  BY <1>1, <1>2, FS_Subset
<1>4. Cardinality(V) \in Nat /\ Cardinality(viewers[r]) \in Nat
  BY <1>1, <1>3, FS_CardinalityType
<1>5. Cardinality(V) <= MaxViewers
  BY <1>1, <1>3, <1>4, MaxViewersAssumption
<1>6. SharersWithout(s)[r] \notin V
  BY <1>2, NoneAssumption DEF SharersWithout, ViewerCap, RMTypeOK
<1> QED
  BY <1>3, <1>5, <1>6

LEMMA ViewerCapStep == RMTypeOK /\ ViewerCap /\ [RMNext]_rmVars => ViewerCap'
<1> SUFFICES ASSUME RMTypeOK, ViewerCap, [RMNext]_rmVars PROVE ViewerCap'
  OBVIOUS
<1>1. CASE UNCHANGED rmVars
  BY <1>1 DEF ViewerCap, rmVars
<1>2. ASSUME NEW s \in Sessions, RemoveSession(s) PROVE ViewerCap'
  BY <1>2, RemovalKeepsCap DEF ViewerCap, RemoveSession
<1>3. ASSUME NEW s \in Sessions, NEW r \in RoomIds, CreateRoom(s, r) PROVE ViewerCap'
  <2>1. SUFFICES ASSUME NEW q \in RoomIds
                 PROVE  /\ IsFiniteSet(viewers'[q])
                        /\ Cardinality(viewers'[q]) <= MaxViewers
                        /\ sharerId'[q] \notin viewers'[q]
    BY DEF ViewerCap
  <2>2. CASE q = r
    <3>1. viewers'[q] = {}
      BY <1>3, <2>2, RemovalTypes DEF CreateRoom
    <3> QED
      BY <3>1, FS_EmptySet, MaxViewersAssumption
  <2>3. CASE q # r
    BY <1>3, <2>3, RemovalTypes, RemovalKeepsCap DEF CreateRoom
  <2> QED
    BY <2>2, <2>3
<1>4. ASSUME NEW s \in Sessions, NEW r \in RoomIds, JoinRoom(r, s) PROVE ViewerCap'
  <2>1. CASE JoinResult(r, s) # "ok"
    BY <1>4, <2>1 DEF JoinRoom, ViewerCap, rmVars
  <2>2. CASE JoinResult(r, s) = "ok"
    <3>1. /\ viewers' = [viewers EXCEPT ![r] = @ \union {s}] /\ sharerId' = sharerId
          /\ s \notin viewers[r] /\ s # sharerId[r]
          /\ ~(Cardinality(viewers[r]) >= MaxViewers)
      BY <1>4, <2>2 DEF JoinRoom, JoinResult
    <3>2. /\ IsFiniteSet(viewers[r] \union {s})
          /\ Cardinality(viewers[r] \union {s}) = Cardinality(viewers[r]) + 1
      BY <3>1, FS_AddElement DEF ViewerCap
    <3>3. Cardinality(viewers[r]) \in Nat
      BY FS_CardinalityType DEF ViewerCap
    <3>4. Cardinality(viewers[r] \union {s}) <= MaxViewers
      BY <3>1, <3>2, <3>3, MaxViewersAssumption
    <3>5. ASSUME NEW q \in RoomIds
          PROVE  viewers'[q] = IF q = r THEN viewers[r] \union {s} ELSE viewers[q]
      BY <3>1 DEF RMTypeOK
    <3> QED
      BY <3>1, <3>2, <3>4, <3>5 DEF ViewerCap
  <2> QED
    BY <2>1, <2>2
<1> QED
  BY <1>1, <1>2, <1>3, <1>4 DEF RMNext

(***************************************************************************)
(* No interleaving of joins and departures takes a room past maxViewers,   *)
(* and no sharer watches itself.                                           *)
(***************************************************************************)
THEOREM ViewerCapHolds == RMSpec => []ViewerCap
<1>1. RMInit => ViewerCap
  BY FS_EmptySet, MaxViewersAssumption DEF RMInit, ViewerCap
<1> QED
  BY <1>1, RMTypeCorrect, ViewerCapStep, PTL DEF RMSpec
-----------------------------------------------------------------------------
(***************************************************************************)
(* The other half of the index.  Removing or creating keeps it complete;   *)
(* joining does so for a session that is in no room.                       *)
(***************************************************************************)
LEMMA IndexCompleteAfterRemoval ==
  ASSUME RMTypeOK, IndexComplete, NEW s \in Sessions, NEW r \in RoomIds,
         SharersWithout(s)[r] # None,
         NEW t \in ViewersWithout(s)[r] \union {SharersWithout(s)[r]}
  PROVE  /\ t \in Sessions /\ t # s
         /\ IndexWithout(s)[t] = r
<1>1. /\ sharerId[r] # None /\ SharersWithout(s)[r] = sharerId[r]
      /\ ~(RemovalKind(s) = "room-ended" /\ r = sessionRooms[s])
  BY DEF SharersWithout
<1>2. t \in viewers[r] \union {sharerId[r]} /\ t \in Sessions
  BY <1>1 DEF ViewersWithout, RMTypeOK
<1>3. sessionRooms[t] = r
  BY <1>1, <1>2 DEF IndexComplete, RoomExists
<1>4. t # s
  <2> SUFFICES ASSUME t = s PROVE FALSE
    OBVIOUS
  <2>1. sessionRooms[s] = r /\ RemovalKind(s) = "viewer-left"
    BY <1>1, <1>3, NoneAssumption DEF RemovalKind, RoomExists
  <2>2. t \notin ViewersWithout(s)[r]
    BY <2>1 DEF ViewersWithout
  <2>3. sharerId[r] # s
    BY <2>1 DEF RemovalKind
  <2> QED
    BY <1>1, <2>2, <2>3
<1>5. ~(RemovalKind(s) = "room-ended" /\ t \in viewers[sessionRooms[s]])
  <2> SUFFICES ASSUME RemovalKind(s) = "room-ended", t \in viewers[sessionRooms[s]]
               PROVE  FALSE
    OBVIOUS
  <2>1. sessionRooms[s] # None /\ sharerId[sessionRooms[s]] # None
    BY DEF RemovalKind, RoomExists
  <2>2. sessionRooms[s] \in RoomIds
    BY <2>1 DEF RMTypeOK
  <2>3. sessionRooms[t] = sessionRooms[s]
    BY <2>1, <2>2 DEF IndexComplete, RoomExists
  <2> QED
    BY <1>1, <1>3, <2>3
<1> QED
  BY <1>2, <1>3, <1>4, <1>5 DEF IndexWithout

LEMMA IndexCompleteRemove ==
  ASSUME RMTypeOK, IndexComplete, NEW s \in Sessions, RemoveSession(s)
  PROVE  IndexComplete'
BY IndexCompleteAfterRemoval DEF IndexComplete, RemoveSession, RoomExists

LEMMA IndexCompleteCreate ==
  ASSUME RMTypeOK, IndexComplete, NEW s \in Sessions, NEW r \in RoomIds, CreateRoom(s, r)
  PROVE  IndexComplete'
<1>1. SUFFICES ASSUME NEW q \in RoomIds, sharerId'[q] # None,
                      NEW t \in viewers'[q] \union {sharerId'[q]}
               PROVE  sessionRooms'[t] = q
  BY DEF IndexComplete, RoomExists
<1>2. CASE q = r
  BY <1>2, RemovalTypes DEF CreateRoom
<1>3. CASE q # r
  <2>1. sharerId'[q] = SharersWithout(s)[q] /\ viewers'[q] = ViewersWithout(s)[q]
    BY <1>3, RemovalTypes DEF CreateRoom
  <2>2. t \in Sessions /\ t # s /\ IndexWithout(s)[t] = q
    BY <1>1, <2>1, IndexCompleteAfterRemoval
  <2> QED
    BY <2>2, RemovalTypes DEF CreateRoom
<1> QED
  BY <1>2, <1>3

LEMMA IndexCompleteJoin ==
  ASSUME RMTypeOK, IndexComplete, NEW s \in Sessions, NEW r \in RoomIds, JoinRoom(r, s),
         sessionRooms[s] = None
  PROVE  IndexComplete'
<1>1. CASE JoinResult(r, s) # "ok"
  BY <1>1 DEF JoinRoom, IndexComplete, RoomExists, rmVars
<1>2. CASE JoinResult(r, s) = "ok"
  <2>1. /\ viewers' = [viewers EXCEPT ![r] = @ \union {s}] /\ sharerId' = sharerId
        /\ sessionRooms' = [sessionRooms EXCEPT ![s] = r]
    BY <1>2 DEF JoinRoom
  <2>2. SUFFICES ASSUME NEW q \in RoomIds, sharerId[q] # None,
                        NEW t \in viewers'[q] \union {sharerId[q]}
                 PROVE  sessionRooms'[t] = q
    BY <2>1 DEF IndexComplete, RoomExists
  <2>3. CASE t \in viewers[q] \union {sharerId[q]}
    <3>1. sessionRooms[t] = q /\ t \in Sessions
      BY <2>2, <2>3 DEF IndexComplete, RoomExists, RMTypeOK
    <3> QED
      BY <2>1, <3>1, NoneAssumption DEF RMTypeOK
  <2>4. CASE t \notin viewers[q] \union {sharerId[q]}
    BY <2>1, <2>2, <2>4 DEF RMTypeOK
  <2> QED
    BY <2>3, <2>4
<1> QED
  BY <1>1, <1>2
=============================================================================
