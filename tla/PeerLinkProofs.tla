--------------------------- MODULE PeerLinkProofs ---------------------------
(***************************************************************************)
(* Theorems about one viewer's connection to a sharer, for any numbers of  *)
(* connections, candidates and packets, and whatever mishaps come          *)
(* together.                                                               *)
(***************************************************************************)
EXTENDS PeerLink, SequenceTheorems, FiniteSetTheorems, TLAPS

(***************************************************************************)
(* What can be in the two queues.                                          *)
(***************************************************************************)
ViewerMail ==
  [type : {"offer"}, conn : Connections]
  \union [type : {"ice-candidate"}, candidate : Candidates]
  \union [type : {"room-ended", "error"}]
SharerMail ==
  [type : {"answer"}, conn : Connections, by : Connections]
  \union [type : {"ice-candidate"}, candidate : Candidates]
  \union [type : {"viewer-joined", "viewer-left"}]
Mail == toViewer \in Seq(ViewerMail) /\ toSharer \in Seq(SharerMail)

(***************************************************************************)
(* The manager: without a subscription it has nothing, without a           *)
(* connection nothing that belongs to one, and an offer is applied before  *)
(* it is answered.                                                         *)
(***************************************************************************)
ManagerInv ==
  /\ ~listening => conn = 0 /\ pending = <<>>
  /\ conn = 0 => /\ remote = 0 /\ ~answered /\ found = 0 /\ accepting = Idle /\ applied = {}
                 /\ path = "new"
  /\ conn # 0 => conn = made
  /\ remote = 0 => applied = {}
  /\ answered => remote # 0
  /\ \A c \in Connections : accepting[c].at \in {"draining", "answering"} => remote # 0

\* An entry that is there has a connection, and candidates once it is answered.
EntryInv ==
  /\ entry # NoEntry => entry.conn = offers /\ entry.conn # 0 /\ entry.phase # "none"
  /\ entry.by = 0 => entry.applied = {}
  /\ entry.phase = "offered" => entry.by = 0
  /\ entry.phase = "answered" => entry.by # 0
-----------------------------------------------------------------------------
(***************************************************************************)
(* From here to SampleInv: what holds as long as no viewer was back before *)
(* its departure was dealt with.                                           *)
(***************************************************************************)
Calm == Spared({"quick rejoin"})

(***************************************************************************)
(* A stay: the sharer hears of it before anything else of it comes to      *)
(* pass, and one that the server has ended has nothing left at the sharer. *)
(***************************************************************************)
Announced == Plain("viewer-joined") \in Range(toSharer)
Foremost ==
  /\ toSharer[1] = Plain("viewer-joined")
  /\ \A i \in DOMAIN toSharer : i # 1 => toSharer[i] = Plain("viewer-left")
Untouched == (toViewer = <<>> \/ ~listening) /\ conn = 0 /\ pending = <<>> /\ entry = NoEntry
Over == entry = NoEntry /\ toSharer = <<>>
StayInv == (Announced => Foremost /\ Untouched) /\ (listening /\ ~member => Over)

(***************************************************************************)
(* It is made one offer, so that one acceptOffer runs at a time, and the   *)
(* sharer hears nothing of a connection before it has made that offer.     *)
(***************************************************************************)
NoOffers(q) == \A m \in Range(q) : m.type # "offer"
OneOffer(q) == \A i, j \in DOMAIN q : q[i].type = "offer" /\ q[j].type = "offer" => i = j
Unanswered(q) == \A m \in Range(q) : m.type \notin {"answer", "ice-candidate"}
OfferInv ==
  /\ listening => OneOffer(toViewer)
  /\ conn # 0 => NoOffers(toViewer)
  /\ entry.phase = "offering" => /\ entry.by = 0 /\ conn = 0 /\ Unanswered(toSharer)
                                 /\ listening => NoOffers(toViewer)
  /\ \A c \in Connections : accepting[c].at # "nowhere" => c = offers /\ ~answered

(***************************************************************************)
(* Whatever the viewer has or will hear is of the sharer's last            *)
(* connection ...                                                          *)
(***************************************************************************)
OfTheSharer(c) == c.from = "sharer" /\ c.of = offers /\ (entry # NoEntry => c.n <= entry.found)
ToDo == UNION {Range(accepting[c].todo) : c \in Connections}
Held == Range(pending) \union ToDo \union applied
SharersMessage(m) ==
  (m.type = "offer" => m.conn = offers) /\ (m.type = "ice-candidate" => OfTheSharer(m.candidate))
FromTheSharer ==
  /\ listening => \A m \in Range(toViewer) : SharersMessage(m)
  /\ \A c \in Held : OfTheSharer(c)
  /\ remote \in {0, offers}

(***************************************************************************)
(* ... and whatever the sharer has or will hear, of the viewer's.          *)
(***************************************************************************)
OfTheViewer(c) == c.from = "viewer" /\ c.of = made /\ (conn # 0 => c.n <= found)
ViewersMessage(m) ==
  (m.type = "answer" => m.by = made) /\ (m.type = "ice-candidate" => OfTheViewer(m.candidate))
FromTheViewer ==
  /\ \A m \in Range(toSharer) : ViewersMessage(m)
  /\ listening /\ conn = 0 => entry.by = 0 /\ Unanswered(toSharer)
  /\ entry.by # 0 => entry.by = made
  /\ \A c \in entry.applied : OfTheViewer(c)

(***************************************************************************)
(* No candidate of the sharer's is lost: it was applied, waits or is on    *)
(* its way.                                                                *)
(***************************************************************************)
WaitsOrDrains ==
  /\ pending # <<>> => remote = 0 \/ \E c \in Connections : accepting[c].at = "draining"
  /\ \A c \in Connections :
       accepting[c].at = "draining" => Range(pending) \subseteq applied \union Range(accepting[c].todo)
SharersCandidate(n) == [from |-> "sharer", of |-> offers, n |-> n]
ReachesTheViewer(c) == c \in applied \union Range(pending) \/ Candidate(c) \in Range(toViewer)
SharersAccounted ==
  /\ WaitsOrDrains
  /\ listening /\ entry # NoEntry =>
       \A n \in 1 .. entry.found : ReachesTheViewer(SharersCandidate(n))

(***************************************************************************)
(* Nor one of the viewer's, which are behind its answer.                   *)
(***************************************************************************)
Behind(q) == \A i \in DOMAIN q : q[i].type = "ice-candidate" =>
  \E j \in DOMAIN q : j < i /\ q[j].type = "answer"
BehindAnswer == entry.phase \notin {"answered", "none"} => Behind(toSharer)
ViewersCandidate(n) == [from |-> "viewer", of |-> made, n |-> n]
ReachesTheSharer(c) == c \in entry.applied \/ Candidate(c) \in Range(toSharer)
AnswerIsOut ==
  answered /\ entry.phase \in {"offering", "offered"} => \E m \in Range(toSharer) : m.type = "answer"
AnsweredFirst == found # 0 => answered
ViewersAccounted ==
  /\ AnsweredFirst
  /\ BehindAnswer
  /\ conn # 0 /\ entry # NoEntry =>
       \A n \in 1 .. found : ReachesTheSharer(ViewersCandidate(n))

LinkInv ==
  /\ StayInv /\ OfferInv /\ FromTheSharer /\ FromTheViewer
  /\ SharersAccounted /\ AnswerIsOut /\ ViewersAccounted
-----------------------------------------------------------------------------

(***************************************************************************)
(* The tracker's last sample, and what is shown, are of the connection     *)
(* there is.                                                               *)
(***************************************************************************)
PollsAreOfNow == Spared({"poll outlives connection"})
SampleInv ==
  PollsAreOfNow =>
    /\ previous # NoPrevious => conn # 0 /\ previous.delivered <= traffic[conn].delivered
    /\ shown.stats => conn # 0
    /\ shown.stats /\ shown.loss # Unmeasured =>
         shown.loss.lost <= shown.loss.total
         /\ shown.loss.total <= traffic[conn].delivered + traffic[conn].lost
\* What is shown of the loss is a fraction, and the word fits it.
Losses == [lost : Nat, total : Nat]
ShownInv == shown.loss \in Losses \union {Unmeasured} /\ WordFitsTheNumbers
-----------------------------------------------------------------------------
(***************************************************************************)
(* Queues.                                                                 *)
(***************************************************************************)
LEMMA QueueGrows ==
  ASSUME NEW S, NEW q \in Seq(S), NEW m \in S
  PROVE  /\ Append(q, m) \in Seq(S)
         /\ Range(Append(q, m)) = Range(q) \union {m}
         /\ Append(q, m) # <<>>
<1>1. /\ Append(q, m) \in Seq(S) /\ Len(q) \in Nat /\ DOMAIN q = 1 .. Len(q)
      /\ DOMAIN Append(q, m) = 1 .. Len(q) + 1 /\ Append(q, m)[Len(q) + 1] = m
      /\ \A i \in 1 .. Len(q) : Append(q, m)[i] = q[i]
  OBVIOUS
<1>2. Range(Append(q, m)) = Range(q) \union {m}
  BY <1>1 DEF Range
<1> QED
  BY <1>1, <1>2

LEMMA QueueShrinks ==
  ASSUME NEW S, NEW q \in Seq(S), q # <<>>
  PROVE  /\ Tail(q) \in Seq(S) /\ Head(q) \in S /\ Head(q) \in Range(q)
         /\ Range(q) = Range(Tail(q)) \union {Head(q)}
<1>1. /\ Tail(q) \in Seq(S) /\ Head(q) \in S /\ Head(q) = q[1]
      /\ Len(q) \in Nat \ {0} /\ DOMAIN q = 1 .. Len(q) /\ DOMAIN Tail(q) = 1 .. Len(q) - 1
      /\ \A i \in 1 .. Len(q) - 1 : Tail(q)[i] = q[i + 1]
  OBVIOUS
<1>2. Range(Tail(q)) \union {Head(q)} \subseteq Range(q)
  BY <1>1 DEF Range
<1>3. ASSUME NEW i \in DOMAIN q PROVE q[i] \in Range(Tail(q)) \union {Head(q)}
  <2>1. CASE i = 1
    BY <1>1, <2>1
  <2>2. CASE i # 1
    <3>1. i - 1 \in DOMAIN Tail(q) /\ Tail(q)[i - 1] = q[i]
      <4>1. i - 1 \in 1 .. Len(q) - 1 /\ (i - 1) + 1 = i
        BY <1>1, <2>2
      <4> QED
        BY <1>1, <4>1
    <3> QED
      BY <3>1 DEF Range
  <2> QED
    BY <2>1, <2>2
<1>4. Range(q) \subseteq Range(Tail(q)) \union {Head(q)}
  BY <1>3 DEF Range
<1>5. Head(q) \in Range(q)
  BY <1>1 DEF Range
<1> QED
  BY <1>1, <1>2, <1>4, <1>5

LEMMA QueueOf ==
  ASSUME NEW S, NEW q \in Seq(S)
  PROVE  Range(q) \subseteq S /\ (Range(q) = {} <=> q = <<>>)
<1>1. DOMAIN q = 1 .. Len(q) /\ Len(q) \in Nat /\ (q = <<>> <=> Len(q) = 0)
      /\ \A i \in 1 .. Len(q) : q[i] \in S
  OBVIOUS
<1>2. Range(q) \subseteq S
  BY <1>1 DEF Range
<1>3. q # <<>> => q[1] \in Range(q)
  BY <1>1 DEF Range
<1>4. q = <<>> => Range(q) = {}
  BY <1>1 DEF Range
<1> QED
  BY <1>2, <1>3, <1>4

LEMMA QueueGrowsAt ==
  ASSUME NEW S, NEW q \in Seq(S), NEW m \in S
  PROVE  /\ Len(q) \in Nat /\ DOMAIN q = 1 .. Len(q) /\ DOMAIN Append(q, m) = 1 .. Len(q) + 1
         /\ Append(q, m)[Len(q) + 1] = m
         /\ \A i \in DOMAIN q : Append(q, m)[i] = q[i]
OBVIOUS

LEMMA EmptyRange == Range(<<>>) = {}
BY DEF Range

(***************************************************************************)
(* The messages that are sent are mail.                                    *)
(***************************************************************************)
LEMMA MailIs ==
  /\ \A c \in Connections : Offer(c) \in ViewerMail
  /\ \A c \in Connections, by \in Connections : Answer(c, by) \in SharerMail
  /\ \A c \in Candidates : Candidate(c) \in ViewerMail /\ Candidate(c) \in SharerMail
  /\ Plain("room-ended") \in ViewerMail /\ Plain("error") \in ViewerMail
  /\ Plain("viewer-joined") \in SharerMail /\ Plain("viewer-left") \in SharerMail
BY DEF ViewerMail, SharerMail, Offer, Answer, Candidate, Plain

LEMMA OfferMail == \A m \in ViewerMail : m.type = "offer" => m.conn \in Connections
BY DEF ViewerMail
LEMMA AnswerMail == \A m \in SharerMail : m.type = "answer" => m.conn \in Connections /\ m.by \in Connections
BY DEF SharerMail
LEMMA CandidateMail ==
  \A m \in ViewerMail \union SharerMail : m.type = "ice-candidate" => m.candidate \in Candidates
BY DEF ViewerMail, SharerMail
LEMMA PlainMail ==
  /\ \A m \in ViewerMail : m.type \in {"offer", "ice-candidate", "room-ended", "error"}
  /\ \A m \in SharerMail : m.type \in {"answer", "ice-candidate", "viewer-joined", "viewer-left"}
BY DEF ViewerMail, SharerMail
LEMMA JoinedMail == \A m \in SharerMail : m.type = "viewer-joined" => m = Plain("viewer-joined")
BY DEF SharerMail, Plain

LEMMA ConnectionsAre ==
  /\ \A c \in 0 .. MaxConnections : c # 0 => c \in Connections
  /\ \A c \in Connections : c \in 0 .. MaxConnections /\ c # 0 /\ c \in Int
  /\ MaxConnections \in Nat /\ MaxCandidates \in Nat /\ MaxPackets \in Nat
  /\ MaxLost \in Nat /\ Arrivals \subseteq Nat
BY BoundsAssumption DEF Connections
-----------------------------------------------------------------------------
(***************************************************************************)
(* Types, by the end whose they are.                                       *)
(***************************************************************************)
StateTypes ==
  /\ state \in {"idle", "connecting", "connected", "reconnecting", "disconnected", "error"}
  /\ listening \in BOOLEAN /\ answered \in BOOLEAN
NumberTypes ==
  /\ conn \in 0 .. MaxConnections /\ made \in 0 .. MaxConnections
  /\ remote \in 0 .. MaxConnections /\ found \in 0 .. MaxCandidates
AcceptingTypes == accepting \in [Connections -> Suspended]
CandidateTypes == pending \in Seq(Candidates) /\ applied \subseteq Candidates
ManagerTypes == StateTypes /\ NumberTypes /\ AcceptingTypes /\ CandidateTypes
SharerTypes == entry \in Entries /\ offers \in 0 .. MaxConnections
StreamTypes ==
  /\ path \in PathStates /\ poll \in 0 .. MaxConnections
  /\ traffic \in [Connections -> Counters(MaxPackets)]
  /\ previous \in Counters(MaxPackets) \union {NoPrevious}
  /\ shown.quality \in Qualities
LinkTypes == member \in BOOLEAN /\ Mail

managerVars == <<state, listening, negotiationVars>>

LEMMA TypesByPart ==
  PLTypeOK /\ Mail <=>
    ManagerTypes /\ SharerTypes /\ StreamTypes /\ LinkTypes /\ happened \subseteq MishapKinds
BY DEF PLTypeOK, ManagerTypes, StateTypes, NumberTypes, AcceptingTypes, CandidateTypes, SharerTypes, StreamTypes, LinkTypes

LEMMA ManagerTypesKept == ManagerTypes /\ UNCHANGED managerVars => ManagerTypes'
BY DEF ManagerTypes, StateTypes, NumberTypes, AcceptingTypes, CandidateTypes, managerVars,
       negotiationVars
LEMMA SharerTypesKept == SharerTypes /\ UNCHANGED sharerVars => SharerTypes'
BY DEF SharerTypes, sharerVars
LEMMA StreamTypesKept == StreamTypes /\ UNCHANGED streamVars => StreamTypes'
BY DEF StreamTypes, streamVars
LEMMA LinkTypesKept == LinkTypes /\ UNCHANGED linkVars => LinkTypes'
BY DEF LinkTypes, Mail, linkVars

AnyPathChange == \E becomes \in {"connected", "disconnected", "failed"} : PathChanges(becomes)

Typed ==
  /\ ManagerTypes /\ SharerTypes /\ StreamTypes /\ LinkTypes /\ happened \subseteq MishapKinds
  /\ ManagerInv /\ EntryInv

\* What the connection and the candidates are when they are sent.
LEMMA SentTypes ==
  ASSUME Typed
  PROVE  /\ conn # 0 => conn \in Connections
         /\ \A c \in Connections : accepting[c].at # "nowhere" => conn # 0
         /\ answered => conn # 0
         /\ remote # 0 => remote \in Connections /\ conn # 0
         /\ entry # NoEntry => entry.conn \in Connections /\ entry.found \in 0 .. MaxCandidates
<1>1. /\ conn \in 0 .. MaxConnections /\ remote \in 0 .. MaxConnections /\ entry \in Entries
      /\ ManagerInv /\ EntryInv
  BY DEF Typed, ManagerTypes, NumberTypes, SharerTypes
<1>2. conn = 0 => \A c \in Connections : accepting[c].at = "nowhere"
  BY <1>1 DEF ManagerInv, Idle, Nowhere
<1> QED
  BY <1>1, <1>2, ConnectionsAre DEF ManagerInv, EntryInv, Entries

LEMMA ViewerSendsTypes ==
  ASSUME LinkTypes, NEW m \in SharerMail, ViewerSends(m), member' \in BOOLEAN
  PROVE  LinkTypes'
BY QueueGrows, MailIs DEF LinkTypes, Mail, ViewerSends

LEMMA SharerSendsTypes ==
  ASSUME LinkTypes, NEW m \in ViewerMail, SharerSends(m), member' \in BOOLEAN
  PROVE  LinkTypes'
BY QueueGrows, MailIs DEF LinkTypes, Mail, SharerSends

LEMMA CleanUpTypes ==
  ASSUME ManagerTypes, StreamTypes, NEW becomes \in {"idle", "disconnected", "error"},
         CleanUp(becomes), poll' \in 0 .. MaxConnections
  PROVE  ManagerTypes' /\ StreamTypes'
<1>1. ManagerTypes'
  <2>1. Idle \in [Connections -> Suspended] /\ <<>> \in Seq(Candidates)
    BY DEF Idle, Nowhere, Suspended
  <2>2. StateTypes' /\ AcceptingTypes'
    BY <2>1 DEF CleanUp, StateTypes, AcceptingTypes
  <2>3. NumberTypes'
    BY ConnectionsAre DEF CleanUp, ManagerTypes, NumberTypes
  <2>4. CandidateTypes'
    BY <2>1 DEF CleanUp, CandidateTypes, PendingAfterCleanUp
  <2> QED
    BY <2>2, <2>3, <2>4 DEF ManagerTypes
<1>2. StreamTypes'
  BY DEF StreamTypes, CleanUp, PreviousAfterReset, NothingShown, PathStates, Qualities
<1> QED
  BY <1>1, <1>2

\* join() in brief; and what Calm makes of it.
LEMMA JoinIs ==
  ASSUME Join
  PROVE  /\ ~listening /\ listening' = TRUE /\ state' = "connecting" /\ member' = TRUE
         /\ \/ toViewer' = Append(toViewer, Plain("error")) /\ toSharer' = toSharer
            \/ toSharer' = Append(toSharer, Plain("viewer-joined")) /\ toViewer' = toViewer
         /\ UNCHANGED <<negotiationVars, sharerVars, streamVars>>
         /\ \E ms \in SUBSET MishapKinds : happened' = happened \union ms
BY Zenon DEF Join, Befalls
LEMMA JoinsAfresh == Join /\ Calm' => ~Unsettled
BY Zenon DEF Join, Befalls, OnlyIf, Spared, Calm

LEMMA ComingAndGoingTypes ==
  ASSUME Typed, Join \/ Leave \/ SharerStops
  PROVE  ManagerTypes' /\ SharerTypes' /\ StreamTypes' /\ LinkTypes' /\ happened' \subseteq MishapKinds
<1>1. CASE Join
  <2>1. LinkTypes'
    BY <1>1, JoinIs, MailIs, QueueGrows DEF Typed, LinkTypes, Mail
  <2>2. ManagerTypes'
    BY <1>1, JoinIs DEF Typed, ManagerTypes, StateTypes, NumberTypes, AcceptingTypes, CandidateTypes,
                        negotiationVars
  <2>3. happened' \subseteq MishapKinds
    BY <1>1, JoinIs DEF Typed
  <2> QED
    BY <1>1, <2>1, <2>2, <2>3, JoinIs, SharerTypesKept, StreamTypesKept DEF Typed
<1>2. CASE Leave
  <2>1. LinkTypes'
    BY <1>2, MailIs, QueueGrows DEF Leave, Typed, LinkTypes, Mail
  <2>2. ManagerTypes' /\ StreamTypes'
    BY <1>2, CleanUpTypes, ConnectionsAre DEF Leave, Typed
  <2> QED
    BY <1>2, <2>1, <2>2, SharerTypesKept DEF Leave, Typed
<1>3. CASE SharerStops
  <2>1. LinkTypes'
    <3>1. <<>> \in Seq(SharerMail)
      OBVIOUS
    <3> QED
      BY <1>3, <3>1, MailIs, QueueGrows DEF SharerStops, Typed, LinkTypes, Mail
  <2>2. SharerTypes'
    BY <1>3, ConnectionsAre DEF SharerStops, Typed, SharerTypes, NoEntry, Entries
  <2> QED
    BY <1>3, <2>1, <2>2, ManagerTypesKept, StreamTypesKept DEF SharerStops, Typed, managerVars
<1> QED
  BY <1>1, <1>2, <1>3

LEMMA AcceptTypes ==
  ASSUME Typed, NEW c \in Connections, Described(c) \/ Drain(c) \/ Drained(c) \/ SendAnswer(c) \/ AcceptFails(c)
  PROVE  ManagerTypes' /\ SharerTypes' /\ StreamTypes' /\ LinkTypes' /\ happened' \subseteq MishapKinds
<1>1. SharerTypes' /\ StreamTypes' /\ happened' \subseteq MishapKinds
  <2>1. UNCHANGED sharerVars /\ UNCHANGED streamVars
    BY DEF Described, Drain, Drained, SendAnswer, AcceptFails
  <2>2. happened' \subseteq MishapKinds
    BY DEF Described, Drain, Drained, SendAnswer, AcceptFails, Befalls, Typed
  <2> QED
    BY <2>1, <2>2, SharerTypesKept, StreamTypesKept DEF Typed
<1>2. LinkTypes'
  <2>1. CASE SendAnswer(c)
    <3>1. accepting[c].at = "answering" /\ remote # 0
      BY <2>1 DEF SendAnswer, Typed, ManagerInv
    <3>2. Answer(remote, conn) \in SharerMail
      BY <3>1, SentTypes, MailIs
    <3> QED
      BY <2>1, <3>2, ViewerSendsTypes DEF SendAnswer, Typed, LinkTypes
  <2> QED
    BY <2>1, LinkTypesKept DEF Described, Drain, Drained, AcceptFails, Typed
<1>3. /\ accepting \in [Connections -> Suspended] /\ accepting[c] \in Suspended
      /\ accepting[c].todo \in Seq(Candidates) /\ ManagerTypes
  <2>1. accepting \in [Connections -> Suspended] /\ ManagerTypes
    BY DEF Typed, ManagerTypes, AcceptingTypes
  <2> QED
    BY <2>1 DEF Suspended
<1>4. Nowhere \in Suspended /\ <<>> \in Seq(Candidates)
  BY DEF Nowhere, Suspended
<1>5. StateTypes' /\ NumberTypes'
  BY <1>3, ConnectionsAre DEF ManagerTypes, StateTypes, NumberTypes, Described, Drain, Drained, SendAnswer,
                              AcceptFails
<1>6. ASSUME NEW x \in Suspended, accepting' = [accepting EXCEPT ![c] = x] PROVE AcceptingTypes'
  BY <1>3, <1>6 DEF AcceptingTypes
<1>7. CASE Described(c)
  <2>1. pending \in Seq(Candidates) /\ CandidateTypes'
    BY <1>3, <1>7 DEF Described, ManagerTypes, CandidateTypes
  <2>2. [at |-> "draining", todo |-> pending] \in Suspended
    BY <2>1 DEF Suspended
  <2>3. AcceptingTypes'
    BY <1>6, <1>7, <2>2 DEF Described
  <2> QED
    BY <1>1, <1>2, <1>5, <2>1, <2>3 DEF ManagerTypes
<1>8. CASE Drain(c)
  <2>1. Head(accepting[c].todo) \in Candidates /\ Tail(accepting[c].todo) \in Seq(Candidates)
    BY <1>3, <1>8, QueueShrinks DEF Drain
  <2>2. [accepting[c] EXCEPT !.todo = Tail(@)] \in Suspended
    BY <1>3, <2>1 DEF Suspended
  <2>3. accepting' = [accepting EXCEPT ![c] = [accepting[c] EXCEPT !.todo = Tail(@)]]
    BY <1>8 DEF Drain
  <2>4. CandidateTypes'
    BY <1>3, <1>8, <2>1 DEF Drain, ManagerTypes, CandidateTypes
  <2> QED
    BY <1>1, <1>2, <1>5, <1>6, <2>2, <2>3, <2>4 DEF ManagerTypes
<1>9. CASE Drained(c) \/ SendAnswer(c) \/ AcceptFails(c)
  <2>1. CandidateTypes'
    BY <1>3, <1>4, <1>9 DEF Drained, SendAnswer, AcceptFails, ManagerTypes, CandidateTypes
  <2>2. [accepting[c] EXCEPT !.at = "answering"] \in Suspended
    BY <1>3 DEF Suspended
  <2>3. \/ accepting' = [accepting EXCEPT ![c] = [accepting[c] EXCEPT !.at = "answering"]]
        \/ accepting' = [accepting EXCEPT ![c] = Nowhere]
    BY <1>9 DEF Drained, SendAnswer, AcceptFails
  <2> QED
    BY <1>1, <1>2, <1>4, <1>5, <1>6, <2>1, <2>2, <2>3 DEF ManagerTypes
<1> QED
  BY <1>1, <1>2, <1>7, <1>8, <1>9

LEMMA ViewerHearsTypes ==
  ASSUME Typed, ViewerHears
  PROVE  ManagerTypes' /\ SharerTypes' /\ StreamTypes' /\ LinkTypes' /\ happened' \subseteq MishapKinds
<1> DEFINE m == Head(toViewer)
<1>1. /\ toViewer \in Seq(ViewerMail) /\ toViewer # <<>> /\ ManagerTypes /\ StreamTypes
      /\ UNCHANGED <<sharerVars, member, toSharer, poll, happened>> /\ toViewer' = Tail(toViewer)
  BY DEF ViewerHears, Typed, LinkTypes, Mail
<1>2. m \in ViewerMail /\ toViewer' \in Seq(ViewerMail)
  BY <1>1, QueueShrinks
<1>3. SharerTypes' /\ LinkTypes' /\ happened' \subseteq MishapKinds
  BY <1>1, <1>2, SharerTypesKept DEF Typed, LinkTypes, Mail
<1>4. /\ m.type = "offer" => m.conn \in Connections
      /\ m.type = "ice-candidate" => m.candidate \in Candidates
  <2> HIDE DEF m
  <2> QED
    BY <1>2, OfferMail, CandidateMail
<1>5. CASE UNCHANGED <<state, listening, negotiationVars, path, traffic, previous, shown>>
  BY <1>1, <1>3, <1>5, ManagerTypesKept, StreamTypesKept DEF managerVars, streamVars
<1>6. ASSUME NEW c \in Connections, TakeOffer(c), UNCHANGED traffic PROVE ManagerTypes' /\ StreamTypes'
  <2>1. made \in 0 .. MaxConnections /\ accepting \in [Connections -> Suspended]
    BY <1>1 DEF ManagerTypes, NumberTypes, AcceptingTypes
  <2>2. AcceptingTypes'
    <3>1. [at |-> "describing", todo |-> <<>>] \in Suspended
      BY DEF Suspended
    <3> QED
      BY <1>6, <2>1, <3>1 DEF TakeOffer, AcceptingTypes
  <2>3. StateTypes' /\ CandidateTypes'
    BY <1>1, <1>6 DEF TakeOffer, ManagerTypes, StateTypes, CandidateTypes
  <2>4. NumberTypes'
    BY <1>1, <1>6, ConnectionsAre DEF TakeOffer, ManagerTypes, NumberTypes
  <2>5. StreamTypes'
    BY <1>1, <1>6 DEF TakeOffer, StreamTypes, PreviousAfterReset
  <2> QED
    BY <2>2, <2>3, <2>4, <2>5 DEF ManagerTypes
<1>7. ASSUME NEW c \in Candidates, AddCandidate(c), UNCHANGED traffic PROVE ManagerTypes' /\ StreamTypes'
  <2>1. pending \in Seq(Candidates) /\ Append(pending, c) \in Seq(Candidates) /\ applied \subseteq Candidates
    BY <1>1, QueueGrows DEF ManagerTypes, CandidateTypes
  <2>2. CandidateTypes'
    BY <1>7, <2>1 DEF AddCandidate, CandidateTypes
  <2>3. StateTypes' /\ NumberTypes' /\ AcceptingTypes'
    BY <1>1, <1>7 DEF AddCandidate, ManagerTypes, StateTypes, NumberTypes, AcceptingTypes
  <2>4. StreamTypes'
    BY <1>1, <1>7 DEF AddCandidate, StreamTypes
  <2> QED
    BY <2>2, <2>3, <2>4 DEF ManagerTypes
<1>8. CASE CleanUp("disconnected") \/ CleanUp("error")
  <2>1. poll' \in 0 .. MaxConnections
    BY <1>1 DEF StreamTypes
  <2> QED
    BY <1>1, <1>3, <1>8, <2>1, CleanUpTypes
<1>9. \/ UNCHANGED <<state, listening, negotiationVars, path, traffic, previous, shown>>
      \/ m.type = "offer" /\ TakeOffer(m.conn) /\ UNCHANGED traffic
      \/ m.type = "ice-candidate" /\ AddCandidate(m.candidate) /\ UNCHANGED traffic
      \/ CleanUp("disconnected") \/ CleanUp("error")
  BY DEF ViewerHears
<1> HIDE DEF m
<1> QED
  BY <1>3, <1>4, <1>5, <1>6, <1>7, <1>8, <1>9

LEMMA FindsTypes ==
  ASSUME Typed, ViewerFinds \/ SharerFinds \/ OfferReady
  PROVE  ManagerTypes' /\ SharerTypes' /\ StreamTypes' /\ LinkTypes' /\ happened' \subseteq MishapKinds
<1>1. CASE ViewerFinds
  <2>1. found \in 0 .. MaxCandidates /\ conn \in Connections /\ found' \in 1 .. MaxCandidates
        /\ found' = found + 1 /\ found' \in 0 .. MaxCandidates
    <3>1. conn \in Connections
      BY <1>1, SentTypes DEF ViewerFinds
    <3>2. found \in 0 .. MaxCandidates
      BY DEF Typed, ManagerTypes, NumberTypes
    <3>3. found < MaxCandidates /\ found' = found + 1
      BY <1>1 DEF ViewerFinds
    <3> QED
      BY <3>1, <3>2, <3>3, ConnectionsAre
  <2>2. Candidate([from |-> "viewer", of |-> conn, n |-> found + 1]) \in SharerMail
    BY <2>1, MailIs DEF Candidates
  <2>3. LinkTypes'
    BY <1>1, <2>2, ViewerSendsTypes DEF ViewerFinds, Typed, LinkTypes
  <2>4. ManagerTypes'
    BY <1>1, <2>1 DEF ViewerFinds, Typed, ManagerTypes, StateTypes, NumberTypes, AcceptingTypes,
                      CandidateTypes
  <2> QED
    BY <1>1, <2>3, <2>4, SharerTypesKept, StreamTypesKept DEF ViewerFinds, Typed
<1>2. CASE SharerFinds
  <2>1. entry \in Entries /\ entry.found + 1 \in 1 .. MaxCandidates /\ entry.conn \in Connections
    BY <1>2, SentTypes, ConnectionsAre DEF SharerFinds, Typed, SharerTypes
  <2>2. Candidate([from |-> "sharer", of |-> entry.conn, n |-> entry.found + 1]) \in ViewerMail
    BY <2>1, MailIs DEF Candidates
  <2>3. LinkTypes'
    BY <1>2, <2>2, SharerSendsTypes DEF SharerFinds, Typed, LinkTypes
  <2>4. SharerTypes'
    BY <1>2, <2>1, ConnectionsAre DEF SharerFinds, Typed, SharerTypes, Entries
  <2> QED
    BY <1>2, <2>3, <2>4, ManagerTypesKept, StreamTypesKept DEF SharerFinds, Typed, managerVars
<1>3. CASE OfferReady
  <2>1. entry # NoEntry
    BY <1>3 DEF OfferReady, NoEntry
  <2>2. entry \in Entries /\ Offer(entry.conn) \in ViewerMail
    BY <2>1, SentTypes, MailIs DEF Typed, SharerTypes
  <2>3. LinkTypes'
    BY <1>3, <2>2, SharerSendsTypes DEF OfferReady, Typed, LinkTypes
  <2>4. SharerTypes'
    BY <1>3, <2>2 DEF OfferReady, Typed, SharerTypes, Entries
  <2> QED
    BY <1>3, <2>3, <2>4, ManagerTypesKept, StreamTypesKept DEF OfferReady, Typed, managerVars
<1> QED
  BY <1>1, <1>2, <1>3

\* What the sharer does with its mail.
Answers(m) ==
  /\ m.type = "answer" /\ entry.by = 0 /\ offers' = offers
  /\ \/ /\ entry.phase = "offering"
        /\ entry' = [entry EXCEPT !.of = m.conn, !.by = m.by]
     \/ /\ entry.phase = "offered"
        /\ entry' = [[entry EXCEPT !.of = m.conn, !.by = m.by] EXCEPT !.phase = "answered"]
Adds(m) ==
  /\ m.type = "ice-candidate" /\ entry.by # 0 /\ offers' = offers
  /\ entry' = [entry EXCEPT !.applied = @ \union {m.candidate}]
Begins(m) ==
  /\ m.type = "viewer-joined" /\ entry = NoEntry /\ offers < MaxConnections /\ offers' = offers + 1
  /\ entry' = [NoEntry EXCEPT !.conn = offers + 1, !.phase = "offering"]
LEMMA SharerHearsIs ==
  ASSUME Typed, SharerHears
  PROVE  /\ toSharer \in Seq(SharerMail) /\ toSharer # <<>> /\ toSharer' = Tail(toSharer)
         /\ UNCHANGED <<state, listening, negotiationVars, member, toViewer, streamVars, happened>>
         /\ \E m \in SharerMail :
              /\ m = Head(toSharer) /\ m \in Range(toSharer)
              /\ \/ Answers(m) \/ Adds(m) \/ Begins(m)
                 \/ m.type \in {"answer", "viewer-left"} /\ entry' = NoEntry /\ offers' = offers
                 \/ m.type = "ice-candidate" /\ UNCHANGED <<entry, offers>>
                 \/ m.type = "viewer-joined" /\ entry # NoEntry /\ UNCHANGED <<entry, offers>>
<1>1. /\ toSharer \in Seq(SharerMail) /\ toSharer # <<>> /\ toSharer' = Tail(toSharer)
      /\ UNCHANGED <<state, listening, negotiationVars, member, toViewer, streamVars, happened>>
  BY DEF SharerHears, Typed, LinkTypes, Mail
<1>2. PICK m \in SharerMail : m = Head(toSharer) /\ m \in Range(toSharer)
  BY <1>1, QueueShrinks
<1>3. entry.phase \in {"none", "offering", "offered", "answered"}
  BY DEF Typed, SharerTypes, Entries
<1>4. CASE m.type = "answer" /\ entry' \in AfterAnswer(m) /\ offers' = offers
  BY <1>1, <1>2, <1>3, <1>4 DEF AfterAnswer, Answers, Typed, EntryInv
<1>5. CASE m.type # "answer"
  BY <1>1, <1>2, <1>5 DEF SharerHears, Adds, Begins
<1> QED
  BY <1>2, <1>4, <1>5 DEF SharerHears

\* What an answer and a candidate make of an entry.
LEMMA AnswersMakes ==
  ASSUME entry \in Entries, NEW m \in SharerMail, Answers(m)
  PROVE  /\ entry # NoEntry /\ entry' \in Entries /\ entry'.conn = entry.conn /\ entry'.found = entry.found
         /\ entry'.applied = entry.applied /\ entry'.of = m.conn /\ entry'.by = m.by /\ m.by # 0
         /\ entry.phase = "offering" => entry'.phase = "offering"
         /\ entry.phase = "offered" => entry'.phase = "answered"
<1>1. /\ m.conn \in 0 .. MaxConnections /\ m.by \in 0 .. MaxConnections /\ m.by # 0
      /\ NoEntry.phase = "none"
  BY AnswerMail, ConnectionsAre DEF Answers, NoEntry
<1> QED
  BY <1>1 DEF Answers, Entries

LEMMA AddsMakes ==
  ASSUME entry \in Entries, NEW m \in SharerMail, Adds(m)
  PROVE  /\ entry # NoEntry /\ entry' \in Entries /\ entry'.conn = entry.conn /\ entry'.found = entry.found
         /\ entry'.applied = entry.applied \union {m.candidate} /\ entry'.of = entry.of
         /\ entry'.by = entry.by /\ entry'.phase = entry.phase
<1>1. entry.applied \union {m.candidate} \in SUBSET Candidates /\ NoEntry.by = 0
  BY CandidateMail DEF Adds, Entries, NoEntry
<1> QED
  BY <1>1 DEF Adds, Entries

LEMMA SharerHearsTypes ==
  ASSUME Typed, SharerHears \/ ConnectionFails
  PROVE  ManagerTypes' /\ SharerTypes' /\ StreamTypes' /\ LinkTypes' /\ happened' \subseteq MishapKinds
<1>1. NoEntry \in Entries /\ entry \in Entries /\ offers \in 0 .. MaxConnections
  BY ConnectionsAre DEF NoEntry, Entries, Typed, SharerTypes
<1>2. CASE ConnectionFails
  <2>1. SharerTypes' /\ happened' \subseteq MishapKinds
    BY <1>1, <1>2 DEF ConnectionFails, SharerTypes, Befalls, Typed
  <2> QED
    BY <1>2, <2>1, ManagerTypesKept, StreamTypesKept, LinkTypesKept DEF ConnectionFails, Typed, managerVars
<1>3. CASE SharerHears
  <2>1. LinkTypes'
    BY <1>3, SharerHearsIs, QueueShrinks DEF Typed, LinkTypes, Mail
  <2>2. PICK m \in SharerMail :
          \/ Answers(m) \/ Adds(m) \/ Begins(m) \/ (entry' \in {NoEntry, entry} /\ offers' = offers)
    BY <1>3, SharerHearsIs
  <2>3. CASE Begins(m)
    <3>1. offers + 1 \in 0 .. MaxConnections
      BY <1>1, <2>3, ConnectionsAre DEF Begins
    <3> QED
      BY <1>1, <1>3, <2>1, <2>3, <3>1, SharerHearsIs, ManagerTypesKept, StreamTypesKept
         DEF Typed, managerVars, Begins, SharerTypes, Entries
  <2>4. CASE ~Begins(m)
    <3>1. SharerTypes'
      BY <1>1, <2>2, <2>4, AnswersMakes, AddsMakes DEF SharerTypes, Answers, Adds
    <3> QED
      BY <1>3, <2>1, <3>1, SharerHearsIs, ManagerTypesKept, StreamTypesKept DEF Typed, managerVars
  <2> QED
    BY <2>3, <2>4
<1> QED
  BY <1>2, <1>3

(***************************************************************************)
(* What is shown is a quality, and its loss a fraction.                    *)
(***************************************************************************)
LEMMA QualityIs ==
  \A latency, loss, frames, at : Classify(latency, loss, frames, at) \in Qualities
BY DEF Classify, WorstOf, Qualities, Ratings

LEMMA CountersAre ==
  ASSUME NEW n \in Nat, NEW t \in Counters(n) \union {NoPrevious}
  PROVE  /\ t.delivered \in Int /\ t.lost \in Int
         /\ t # NoPrevious => t.delivered >= 0 /\ t.lost >= 0
BY DEF Counters, NoPrevious

LEMMA LossIs ==
  ASSUME StreamTypes, NEW c \in Connections
  PROVE  LET loss == LossOverInterval(previous, traffic[c]) IN
         /\ loss \in Losses \union {Unmeasured}
         /\ loss # Unmeasured => /\ previous # NoPrevious
                                /\ loss.total <= traffic[c].delivered + traffic[c].lost
                                /\ (previous.delivered <= traffic[c].delivered => loss.lost <= loss.total)
<1> DEFINE t == traffic[c]
<1> DEFINE d == t.delivered - previous.delivered
<1> DEFINE l == t.lost - previous.lost
<1>1. t \in Counters(MaxPackets) /\ t \in Counters(MaxPackets) \union {NoPrevious} /\ MaxPackets \in Nat
  BY ConnectionsAre DEF StreamTypes
<1>2. /\ t.delivered \in Nat /\ t.lost \in Nat
      /\ previous.delivered \in Int /\ previous.lost \in Int
      /\ previous # NoPrevious => previous.delivered >= 0 /\ previous.lost >= 0
  <2>1. t.delivered \in Nat /\ t.lost \in Nat
    BY <1>1 DEF Counters
  <2> QED
    BY <1>1, <2>1, CountersAre DEF StreamTypes
<1> HIDE DEF t
<1>3. CASE previous = NoPrevious \/ d + l <= 0
  BY <1>3 DEF LossOverInterval, t
<1>4. CASE ~(previous = NoPrevious \/ d + l <= 0)
  <2>1. LossOverInterval(previous, t) = [lost |-> IF l > 0 THEN l ELSE 0, total |-> d + l]
    BY <1>4 DEF LossOverInterval
  <2>2. d \in Int /\ l \in Int /\ d + l \in Nat /\ (IF l > 0 THEN l ELSE 0) \in Nat
        /\ d + l <= t.delivered + t.lost
        /\ (previous.delivered <= t.delivered => (IF l > 0 THEN l ELSE 0) <= d + l)
    BY <1>2, <1>4
  <2> HIDE DEF d, l
  <2> QED
    BY <1>4, <2>1, <2>2 DEF Losses, t
<1> QED
  BY <1>3, <1>4

LEMMA PollTypes ==
  ASSUME Typed, AnyPathChange \/ Packet \/ PollStarts \/ PollReturns \/ PollFails
  PROVE  ManagerTypes' /\ SharerTypes' /\ StreamTypes' /\ LinkTypes' /\ happened' \subseteq MishapKinds
<1>1. SharerTypes' /\ LinkTypes' /\ happened' \subseteq MishapKinds
  <2>1. UNCHANGED sharerVars /\ UNCHANGED linkVars
    BY DEF AnyPathChange, PathChanges, Packet, PollStarts, PollReturns, PollFails
  <2>2. happened' \subseteq MishapKinds
    BY DEF AnyPathChange, PathChanges, Packet, PollStarts, PollReturns, PollFails, Befalls, Typed
  <2> QED
    BY <2>1, <2>2, SharerTypesKept, LinkTypesKept DEF Typed
<1>2. ManagerTypes'
  <2>1. CASE UNCHANGED managerVars
    BY <2>1, ManagerTypesKept DEF Typed
  <2>2. CASE AnyPathChange
    BY <2>2 DEF AnyPathChange, PathChanges, Typed, ManagerTypes, StateTypes, NumberTypes, AcceptingTypes,
                CandidateTypes, negotiationVars
  <2> QED
    BY <2>1, <2>2 DEF Packet, PollStarts, PollReturns, PollFails, managerVars
<1>3. StreamTypes /\ conn \in 0 .. MaxConnections /\ (conn # 0 => conn \in Connections)
      /\ (poll # 0 => poll \in Connections)
  BY ConnectionsAre DEF Typed, StreamTypes, ManagerTypes, NumberTypes
<1>4. CASE AnyPathChange
  BY <1>1, <1>2, <1>3, <1>4 DEF AnyPathChange, PathChanges, StreamTypes, PathStates, LivePath, DeadPath
<1>5. CASE Packet
  <2>1. conn \in Connections
    <3>1. path # "new"
      BY <1>5 DEF Packet
    <3> QED
      BY <1>3, <3>1 DEF Typed, ManagerInv
  <2>2. traffic[conn] \in Counters(MaxPackets) /\ MaxPackets \in Nat
    BY <1>3, <2>1, ConnectionsAre DEF StreamTypes
  <2>3. PICK n \in Arrivals, missing \in 0 .. MaxLost :
          /\ traffic[conn].delivered + n + missing <= MaxPackets
          /\ traffic' = [traffic EXCEPT ![conn] =
                          [delivered |-> traffic[conn].delivered + n, lost |-> missing]]
    BY <1>5 DEF Packet
  <2>4. [delivered |-> traffic[conn].delivered + n, lost |-> missing] \in Counters(MaxPackets)
    <3>1. traffic[conn].delivered \in Nat
      BY <2>2 DEF Counters
    <3>2. n \in Nat /\ missing \in Nat
      BY ConnectionsAre
    <3>3. traffic[conn].delivered + n \in 0 .. MaxPackets /\ missing \in 0 .. MaxPackets
      BY <2>2, <2>3, <3>1, <3>2
    <3> QED
      BY <3>3 DEF Counters
  <2> QED
    BY <1>1, <1>2, <1>3, <1>5, <2>1, <2>3, <2>4 DEF Packet, StreamTypes
<1>6. CASE PollStarts \/ PollFails
  BY <1>1, <1>2, <1>3, <1>6, ConnectionsAre DEF PollStarts, PollFails, StreamTypes, NothingShown, Qualities
<1>7. CASE PollReturns
  <2>1. poll \in Connections
    BY <1>3, <1>7 DEF PollReturns
  <2>2. shown'.quality \in Qualities
    <3>1. PICK latency, frames \in OtherRatings :
            shown' = [quality |-> Classify(latency, LossOverInterval(previous, traffic[poll]), frames,
                                           IF poll = conn THEN path ELSE "closed"),
                      stats |-> TRUE, loss |-> LossOverInterval(previous, traffic[poll])]
      BY <1>7 DEF PollReturns
    <3> QED
      BY <3>1, QualityIs
  <2>3. previous' \in Counters(MaxPackets) /\ poll' \in 0 .. MaxConnections
    <3>1. previous' = traffic[poll] /\ poll' = 0
      BY <1>7 DEF PollReturns
    <3> QED
      BY <1>3, <2>1, <3>1, ConnectionsAre DEF StreamTypes
  <2> QED
    BY <1>1, <1>2, <1>3, <1>7, <2>2, <2>3 DEF PollReturns, StreamTypes
<1> QED
  BY <1>1, <1>2, <1>4, <1>5, <1>6, <1>7

LEMMA TypesStep ==
  ASSUME Typed, PLNext
  PROVE  ManagerTypes' /\ SharerTypes' /\ StreamTypes' /\ LinkTypes' /\ happened' \subseteq MishapKinds
BY ComingAndGoingTypes, AcceptTypes, ViewerHearsTypes, FindsTypes, SharerHearsTypes, PollTypes
   DEF PLNext, AnyPathChange
-----------------------------------------------------------------------------
(***************************************************************************)
(* The manager and the entry, step by step.                                *)
(***************************************************************************)
AtTheSharer == SharerStops \/ OfferReady \/ SharerFinds \/ SharerHears \/ ConnectionFails
OfTheStatistics == Packet \/ PollStarts \/ PollReturns \/ PollFails

AtWorkOn(c) == Described(c) \/ Drain(c) \/ Drained(c) \/ SendAnswer(c) \/ AcceptFails(c)
Accepts == \E c \in Connections : AtWorkOn(c)

LEMMA NextIs ==
  PLNext => \/ Join \/ Leave \/ Accepts \/ ViewerHears \/ ViewerFinds
            \/ AtTheSharer \/ AnyPathChange \/ OfTheStatistics
BY DEF PLNext, Accepts, AtWorkOn, AtTheSharer, AnyPathChange, OfTheStatistics

LEMMA SharersStepsLeave == AtTheSharer => UNCHANGED <<listening, negotiationVars, path>>
BY DEF AtTheSharer, SharerStops, OfferReady, SharerFinds, SharerHears, ConnectionFails, streamVars
LEMMA StreamStepsLeave ==
  /\ OfTheStatistics \/ AnyPathChange => UNCHANGED <<listening, negotiationVars, sharerVars, linkVars>>
  /\ OfTheStatistics => UNCHANGED path
  /\ AnyPathChange => conn # 0
BY DEF OfTheStatistics, AnyPathChange, Packet, PollStarts, PollReturns, PollFails, PathChanges
LEMMA AcceptStepsLeave ==
  ASSUME NEW c
  PROVE  /\ AtWorkOn(c) => /\ UNCHANGED <<listening, conn, made, found, sharerVars, member, path>>
                           /\ accepting[c].at # "nowhere"
         /\ AtWorkOn(c) /\ ~SendAnswer(c) => UNCHANGED linkVars
         /\ AtWorkOn(c) /\ ~Described(c) => UNCHANGED remote
BY DEF AtWorkOn, Described, Drain, Drained, AcceptFails, SendAnswer, streamVars, linkVars
LEMMA ViewersStepsLeave ==
  /\ Join \/ Leave \/ Accepts \/ ViewerHears \/ ViewerFinds => UNCHANGED sharerVars
  /\ Accepts => UNCHANGED <<listening, conn, made, found, sharerVars, member, path>>
<1>1. Leave \/ ViewerHears \/ ViewerFinds => UNCHANGED sharerVars
  BY DEF Leave, ViewerHears, ViewerFinds
<1> QED
  BY <1>1, JoinIs, AcceptStepsLeave DEF Accepts
LEMMA ViewerHearsIs ==
  ASSUME ViewerHears
  PROVE  /\ toViewer # <<>> /\ toViewer' = Tail(toViewer)
         /\ UNCHANGED <<sharerVars, member, toSharer, poll, happened>>
         /\ \/ UNCHANGED <<state, listening, negotiationVars, path, traffic, previous, shown>> /\ ~listening
            \/ listening /\ Head(toViewer).type = "offer" /\ TakeOffer(Head(toViewer).conn) /\ UNCHANGED traffic
            \/ listening /\ Head(toViewer).type = "ice-candidate" /\ AddCandidate(Head(toViewer).candidate)
               /\ UNCHANGED traffic
            \/ listening /\ CleanUp("disconnected")
            \/ listening /\ CleanUp("error")
BY DEF ViewerHears

LEMMA CleanUpSettles ==
  ASSUME NEW becomes, CleanUp(becomes)
  PROVE  /\ listening' = FALSE /\ conn' = 0 /\ remote' = 0 /\ answered' = FALSE /\ found' = 0
         /\ applied' = {} /\ accepting' = Idle /\ pending' = <<>> /\ path' = "new" /\ made' = made
         /\ previous' = NoPrevious /\ shown' = NothingShown /\ traffic' = traffic
BY DEF CleanUp, PendingAfterCleanUp, PreviousAfterReset

LEMMA NothingUnderWay ==
  /\ Nowhere.at = "nowhere" /\ Nowhere.todo = <<>>
  /\ \A c \in Connections : Idle[c].at = "nowhere" /\ Idle[c].todo = <<>>
  /\ NoEntry.phase = "none" /\ NoEntry.applied = {} /\ NoEntry.conn = 0 /\ NoEntry.found = 0
  /\ NoEntry.by = 0
BY DEF Nowhere, NoEntry, Idle

\* What a step of acceptOffer leaves of what is suspended.
LEMMA AcceptingIs ==
  ASSUME Typed, NEW c \in Connections
  PROVE  /\ accepting[c] \in Suspended /\ accepting[c].todo \in Seq(Candidates) /\ pending \in Seq(Candidates)
         /\ AtWorkOn(c) => \A d \in Connections : d # c => accepting'[d] = accepting[d]
         /\ Described(c) => accepting'[c].at = "draining" /\ accepting'[c].todo = pending
         /\ Drain(c) => accepting'[c].at = "draining" /\ accepting'[c].todo = Tail(accepting[c].todo)
         /\ Drained(c) => accepting'[c].at = "answering" /\ accepting'[c].todo = accepting[c].todo
         /\ SendAnswer(c) \/ AcceptFails(c) => accepting'[c] = Nowhere
         /\ TakeOffer(c) => /\ accepting'[c].at = "describing" /\ accepting'[c].todo = <<>>
                            /\ \A d \in Connections : d # c => accepting'[d] = accepting[d]
<1>1. accepting \in [Connections -> Suspended] /\ pending \in Seq(Candidates)
  BY DEF Typed, ManagerTypes, AcceptingTypes, CandidateTypes
<1>2. accepting[c] \in Suspended /\ accepting[c].todo \in Seq(Candidates)
  BY <1>1 DEF Suspended
<1>3. ASSUME NEW x, accepting' = [accepting EXCEPT ![c] = x]
      PROVE  accepting'[c] = x /\ \A d \in Connections : d # c => accepting'[d] = accepting[d]
  BY <1>1, <1>3
<1>4. /\ Described(c) => accepting' = [accepting EXCEPT ![c] = [at |-> "draining", todo |-> pending]]
      /\ Drain(c) => accepting' = [accepting EXCEPT ![c] = [accepting[c] EXCEPT !.todo = Tail(@)]]
      /\ Drained(c) => /\ accepting' = [accepting EXCEPT ![c] = [accepting[c] EXCEPT !.at = "answering"]]
                       /\ accepting[c].at = "draining"
      /\ Drain(c) => accepting[c].at = "draining"
      /\ SendAnswer(c) \/ AcceptFails(c) => accepting' = [accepting EXCEPT ![c] = Nowhere]
      /\ TakeOffer(c) => accepting' = [accepting EXCEPT ![c] = [at |-> "describing", todo |-> <<>>]]
  BY DEF Described, Drain, Drained, SendAnswer, AcceptFails, TakeOffer
<1>5. /\ [accepting[c] EXCEPT !.todo = Tail(@)].at = accepting[c].at
      /\ [accepting[c] EXCEPT !.todo = Tail(@)].todo = Tail(accepting[c].todo)
      /\ [accepting[c] EXCEPT !.at = "answering"].at = "answering"
      /\ [accepting[c] EXCEPT !.at = "answering"].todo = accepting[c].todo
  BY <1>2 DEF Suspended
<1>6. AtWorkOn(c) => \A d \in Connections : d # c => accepting'[d] = accepting[d]
  BY <1>3, <1>4 DEF AtWorkOn
<1>7. /\ Described(c) => accepting'[c].at = "draining" /\ accepting'[c].todo = pending
      /\ SendAnswer(c) \/ AcceptFails(c) => accepting'[c] = Nowhere
      /\ TakeOffer(c) => /\ accepting'[c].at = "describing" /\ accepting'[c].todo = <<>>
                         /\ \A d \in Connections : d # c => accepting'[d] = accepting[d]
  <2>1. /\ Described(c) => accepting'[c] = [at |-> "draining", todo |-> pending]
        /\ SendAnswer(c) \/ AcceptFails(c) => accepting'[c] = Nowhere
        /\ TakeOffer(c) => /\ accepting'[c] = [at |-> "describing", todo |-> <<>>]
                           /\ \A d \in Connections : d # c => accepting'[d] = accepting[d]
    BY <1>3, <1>4, Zenon
  <2> QED
    BY <2>1
<1>8. /\ Drain(c) => accepting'[c].at = "draining" /\ accepting'[c].todo = Tail(accepting[c].todo)
      /\ Drained(c) => accepting'[c].at = "answering" /\ accepting'[c].todo = accepting[c].todo
  BY <1>3, <1>4, <1>5
<1> QED
  BY <1>1, <1>2, <1>6, <1>7, <1>8

LEMMA ManagerStep == ASSUME Typed, PLNext PROVE ManagerInv'
<1>1. /\ ManagerInv /\ conn \in 0 .. MaxConnections
      /\ made \in 0 .. MaxConnections /\ made \in Int /\ conn \in Int
  BY ConnectionsAre DEF Typed, ManagerTypes, NumberTypes
<1>2. \A c \in Connections : accepting[c].at # "nowhere" => conn # 0
  BY SentTypes
<1>3. CASE UNCHANGED <<listening, negotiationVars, path>>
  BY <1>1, <1>3 DEF ManagerInv, negotiationVars
<1>4. CASE Join
  BY <1>1, <1>4, JoinIs DEF ManagerInv, negotiationVars, streamVars
<1>5. ASSUME NEW becomes, CleanUp(becomes) PROVE ManagerInv'
  BY <1>5, CleanUpSettles, NothingUnderWay DEF ManagerInv
<1>6. ASSUME NEW c \in Connections, AtWorkOn(c) PROVE ManagerInv'
  <2>1. conn # 0 /\ UNCHANGED <<listening, conn, made, found, path>> /\ accepting[c].at # "nowhere"
    BY <1>2, <1>6, AcceptStepsLeave
  <2>2. listening /\ conn = made
    BY <1>1, <2>1 DEF ManagerInv
  <2>3. remote' = 0 => applied' = {} /\ remote = 0 /\ ~Described(c)
    <3>1. Described(c) => remote' # 0
      BY ConnectionsAre DEF Described
    <3>2. Drain(c) => remote # 0
      BY <1>1 DEF Drain, ManagerInv
    <3>3. ~Described(c) => remote' = remote
      BY <1>6, AcceptStepsLeave
    <3>4. Drained(c) \/ SendAnswer(c) \/ AcceptFails(c) => applied' = applied
      BY DEF Drained, SendAnswer, AcceptFails
    <3> QED
      BY <1>1, <1>6, <3>1, <3>2, <3>3, <3>4 DEF ManagerInv, AtWorkOn
  <2>4. answered' => remote' # 0
    <3>1. answered' => ~Described(c)
      BY DEF Described
    <3>2. SendAnswer(c) => remote # 0
      BY <1>1 DEF SendAnswer, ManagerInv
    <3>3. Drain(c) \/ Drained(c) \/ AcceptFails(c) => answered' = answered
      BY DEF Drain, Drained, AcceptFails
    <3> QED
      BY <1>1, <1>6, <2>3, <3>1, <3>2, <3>3 DEF ManagerInv, AtWorkOn
  <2>5. ASSUME NEW d \in Connections, accepting'[d].at \in {"draining", "answering"}, remote' = 0 PROVE FALSE
    <3>1. ~Described(c) /\ remote = 0
      BY <2>3, <2>5
    <3>2. d # c => accepting'[d] = accepting[d]
      BY <1>6, AcceptingIs
    <3>3. Drain(c) \/ Drained(c) => accepting[c].at = "draining"
      BY DEF Drain, Drained
    <3>4. SendAnswer(c) \/ AcceptFails(c) => accepting'[c].at = "nowhere"
      BY AcceptingIs, NothingUnderWay
    <3> QED
      BY <1>1, <1>6, <2>5, <3>1, <3>2, <3>3, <3>4 DEF ManagerInv, AtWorkOn
  <2> QED
    BY <2>1, <2>2, <2>3, <2>4, <2>5 DEF ManagerInv
<1>7. ASSUME NEW c \in Connections, TakeOffer(c), listening PROVE ManagerInv'
  <2>1. /\ conn' # 0 /\ conn' = made'
        /\ UNCHANGED <<listening, remote, answered, applied>>
    BY <1>1, <1>7 DEF TakeOffer, ManagerInv
  <2>2. \A d \in Connections : accepting'[d].at \in {"draining", "answering"} => remote # 0
    BY <1>1, <1>7, AcceptingIs DEF ManagerInv
  <2> QED
    BY <1>1, <1>7, <2>1, <2>2 DEF ManagerInv
<1>8. ASSUME NEW c \in Candidates, AddCandidate(c), listening PROVE ManagerInv'
  BY <1>1, <1>8 DEF AddCandidate, MustWait, ManagerInv
<1>9. CASE ViewerFinds
  BY <1>1, <1>9, SentTypes DEF ViewerFinds, ManagerInv, streamVars
<1>10. CASE ViewerHears
  <2>1. Head(toViewer) \in ViewerMail
    BY <1>10, QueueShrinks DEF ViewerHears, Typed, LinkTypes, Mail
  <2>2. ASSUME NEW m \in ViewerMail, m = Head(toViewer) PROVE ManagerInv'
    BY <1>3, <1>5, <1>7, <1>8, <1>10, <2>2, ViewerHearsIs, OfferMail, CandidateMail
  <2> QED
    BY <2>1, <2>2
<1>11. CASE AnyPathChange
  BY <1>1, <1>11, StreamStepsLeave DEF ManagerInv, negotiationVars
<1> QED
  BY <1>3, <1>4, <1>5, <1>6, <1>9, <1>10, <1>11, NextIs, SharersStepsLeave, StreamStepsLeave
     DEF Leave, Accepts

LEMMA EntryStep == ASSUME Typed, PLNext PROVE EntryInv'
<1>1. EntryInv /\ entry \in Entries /\ offers \in 0 .. MaxConnections /\ offers \in Int
  BY ConnectionsAre DEF Typed, SharerTypes
<1>2. CASE UNCHANGED sharerVars
  BY <1>1, <1>2 DEF EntryInv, sharerVars
<1>3. CASE entry' = NoEntry
  BY <1>3, NothingUnderWay DEF EntryInv
<1>4. CASE OfferReady
  <2>1. entry # NoEntry
    BY <1>4, NothingUnderWay DEF OfferReady
  <2>2. /\ entry'.conn = entry.conn /\ entry'.applied = entry.applied /\ entry'.by = entry.by
        /\ entry'.phase = IF entry.by = 0 THEN "offered" ELSE "answered"
        /\ offers' = offers
    BY <1>1, <1>4 DEF OfferReady, Entries
  <2> QED
    BY <1>1, <2>1, <2>2 DEF EntryInv
<1>5. CASE SharerFinds
  <2>1. /\ entry'.conn = entry.conn /\ entry'.phase = entry.phase /\ entry'.applied = entry.applied
        /\ entry'.by = entry.by /\ offers' = offers /\ entry # NoEntry
    BY <1>1, <1>5 DEF SharerFinds, Entries
  <2> QED
    BY <1>1, <2>1 DEF EntryInv
<1>6. ASSUME NEW m \in SharerMail, Begins(m) PROVE EntryInv'
  <2>1. entry'.conn = offers + 1 /\ entry'.phase = "offering" /\ entry'.applied = {} /\ entry'.by = 0
        /\ offers' = offers + 1
    BY <1>6 DEF Begins, NoEntry
  <2> QED
    BY <1>1, <2>1 DEF EntryInv
<1>7. ASSUME NEW m \in SharerMail, Answers(m) PROVE EntryInv'
  <2>1. /\ entry # NoEntry /\ entry'.conn = entry.conn /\ entry'.by # 0 /\ offers' = offers
        /\ entry'.phase \in {"offering", "answered"}
    BY <1>1, <1>7, AnswersMakes DEF Answers
  <2> QED
    BY <1>1, <2>1 DEF EntryInv
<1>8. ASSUME NEW m \in SharerMail, Adds(m) PROVE EntryInv'
  <2>1. /\ entry # NoEntry /\ entry'.conn = entry.conn /\ entry'.by = entry.by /\ entry.by # 0
        /\ entry'.phase = entry.phase /\ offers' = offers
    BY <1>1, <1>8, AddsMakes DEF Adds
  <2> QED
    BY <1>1, <2>1 DEF EntryInv
<1>9. CASE SharerHears
  BY <1>2, <1>3, <1>6, <1>7, <1>8, <1>9, SharerHearsIs DEF sharerVars
<1>10. SharerStops \/ ConnectionFails => entry' = NoEntry
  BY DEF SharerStops, ConnectionFails
<1> QED
  BY <1>2, <1>3, <1>4, <1>5, <1>9, <1>10, NextIs, ViewersStepsLeave, StreamStepsLeave DEF AtTheSharer

LEMMA TypedStep == Typed /\ PLNext => Typed'
BY TypesStep, ManagerStep, EntryStep DEF Typed
-----------------------------------------------------------------------------
(***************************************************************************)
(* What the steps do to the queues.                                        *)
(***************************************************************************)
LEMMA ViewerSendsRanges ==
  ASSUME Typed, NEW m \in SharerMail, ViewerSends(m)
  PROVE  /\ member => Range(toSharer') = Range(toSharer) \union {m} /\ toSharer' = Append(toSharer, m)
                     /\ toViewer' = toViewer
         /\ ~member => Range(toViewer') = Range(toViewer) \union {Plain("error")} /\ toSharer' = toSharer
<1>1. toSharer \in Seq(SharerMail) /\ toViewer \in Seq(ViewerMail) /\ Plain("error") \in ViewerMail
  BY MailIs DEF Typed, LinkTypes, Mail
<1>2. Range(Append(toSharer, m)) = Range(toSharer) \union {m}
  BY <1>1, QueueGrows
<1>3. Range(Append(toViewer, Plain("error"))) = Range(toViewer) \union {Plain("error")}
  BY <1>1, QueueGrows
<1> QED
  BY <1>2, <1>3 DEF ViewerSends

LEMMA SharerSendsRanges ==
  ASSUME Typed, NEW m \in ViewerMail, SharerSends(m)
  PROVE  /\ member => Range(toViewer') = Range(toViewer) \union {m} /\ toViewer' = Append(toViewer, m)
         /\ ~member => toViewer' = toViewer
         /\ toSharer' = toSharer
<1>1. toViewer \in Seq(ViewerMail)
  BY DEF Typed, LinkTypes, Mail
<1> QED
  BY <1>1, QueueGrows DEF SharerSends

\* What the two ends send, and the state they send it in.
LEMMA SendAnswerSends ==
  ASSUME Typed, NEW c \in Connections, SendAnswer(c)
  PROVE  /\ Answer(remote, conn) \in SharerMail
         /\ ViewerSends(Answer(remote, conn)) /\ conn # 0
<1>1. remote # 0
  BY DEF SendAnswer, Typed, ManagerInv
<1> QED
  BY <1>1, SentTypes, MailIs DEF SendAnswer

LEMMA ViewerFindsSends ==
  ASSUME Typed, ViewerFinds
  PROVE  LET c == [from |-> "viewer", of |-> conn, n |-> found + 1] IN
         /\ c \in Candidates /\ Candidate(c) \in SharerMail /\ ViewerSends(Candidate(c))
         /\ conn # 0 /\ found \in Nat
<1>1. conn \in Connections /\ conn # 0
  BY SentTypes, ConnectionsAre DEF ViewerFinds
<1>2. found \in 0 .. MaxCandidates /\ found < MaxCandidates
  BY DEF Typed, ManagerTypes, NumberTypes, ViewerFinds
<1>3. found + 1 \in 1 .. MaxCandidates /\ found \in Nat
  BY <1>2, ConnectionsAre
<1>4. [from |-> "viewer", of |-> conn, n |-> found + 1] \in Candidates
  BY <1>1, <1>3 DEF Candidates
<1> QED
  BY <1>1, <1>3, <1>4, MailIs DEF ViewerFinds

LEMMA SharerFindsSends ==
  ASSUME Typed, SharerFinds
  PROVE  LET c == [from |-> "sharer", of |-> entry.conn, n |-> entry.found + 1] IN
         /\ c \in Candidates /\ Candidate(c) \in ViewerMail /\ SharerSends(Candidate(c))
         /\ entry # NoEntry /\ entry.conn = offers /\ entry.found \in Nat
         /\ entry' = [entry EXCEPT !.found = @ + 1]
<1>1. entry # NoEntry /\ entry.found < MaxCandidates
  BY DEF SharerFinds
<1>2. entry.conn \in Connections /\ entry.found \in 0 .. MaxCandidates /\ entry.conn = offers
  BY <1>1, SentTypes DEF Typed, EntryInv
<1>3. entry.found + 1 \in 1 .. MaxCandidates /\ entry.found \in Nat
  BY <1>1, <1>2, ConnectionsAre
<1>4. [from |-> "sharer", of |-> entry.conn, n |-> entry.found + 1] \in Candidates
  BY <1>2, <1>3 DEF Candidates
<1> QED
  BY <1>1, <1>2, <1>3, <1>4, MailIs DEF SharerFinds

LEMMA OfferReadySends ==
  ASSUME Typed, OfferReady
  PROVE  /\ Offer(entry.conn) \in ViewerMail /\ SharerSends(Offer(entry.conn))
         /\ entry # NoEntry /\ entry.conn = offers
         /\ entry.phase = "offering" /\ entry'.conn = entry.conn /\ entry'.by = entry.by
         /\ entry'.found = entry.found /\ entry'.applied = entry.applied
         /\ entry'.phase = IF entry.by = 0 THEN "offered" ELSE "answered"
         /\ offers' = offers
<1>1. entry.phase = "offering" /\ entry # NoEntry
  BY NothingUnderWay DEF OfferReady
<1>2. entry.conn \in Connections /\ entry.conn = offers
  BY <1>1, SentTypes DEF Typed, EntryInv
<1>3. /\ entry'.conn = entry.conn /\ entry'.by = entry.by
      /\ entry'.found = entry.found /\ entry'.applied = entry.applied
      /\ entry'.phase = IF entry.by = 0 THEN "offered" ELSE "answered"
  BY DEF OfferReady, Typed, SharerTypes, Entries
<1> QED
  BY <1>1, <1>2, <1>3, MailIs DEF OfferReady

\* Where a connection is needed, it is there.
LEMMA AtWork ==
  ASSUME Typed
  PROVE  /\ conn # 0 => listening
         /\ Accepts \/ ViewerFinds => conn # 0
         /\ AnyPathChange \/ Packet => conn # 0
<1>1. conn # 0 => listening
  BY DEF Typed, ManagerInv
<1>2. Accepts => conn # 0
  BY AcceptStepsLeave, SentTypes DEF Accepts
<1>3. ViewerFinds => conn # 0
  BY SentTypes DEF ViewerFinds
<1>4. Packet => path # "new"
  BY DEF Packet
<1> QED
  BY <1>1, <1>2, <1>3, <1>4, StreamStepsLeave DEF Typed, ManagerInv

\* A step of acceptOffer sends an answer or nothing.
LEMMA AcceptsSends ==
  ASSUME Typed, Accepts
  PROVE  /\ conn # 0 /\ UNCHANGED <<listening, conn, made, found, sharerVars, member>>
         /\ \/ UNCHANGED <<toViewer, toSharer>>
            \/ /\ Answer(remote, conn) \in SharerMail /\ ViewerSends(Answer(remote, conn))
               /\ remote' = remote
<1>1. PICK c \in Connections : AtWorkOn(c)
  BY DEF Accepts
<1>2. CASE SendAnswer(c)
  BY <1>1, <1>2, AtWork, ViewersStepsLeave, SendAnswerSends, AcceptStepsLeave DEF Accepts, SendAnswer
<1>3. CASE ~SendAnswer(c)
  BY <1>1, <1>3, AtWork, ViewersStepsLeave, AcceptStepsLeave DEF Accepts, linkVars
<1> QED
  BY <1>2, <1>3
-----------------------------------------------------------------------------
(***************************************************************************)
(* The stay.                                                               *)
(***************************************************************************)
LEMMA UntouchedStays ==
  ASSUME Typed, Untouched, PLNext, ~Join, ~SharerStops, ~SharerHears
  PROVE  Untouched'
<1>1. CASE Leave
  BY <1>1, CleanUpSettles DEF Leave, Untouched, sharerVars
<1>2. CASE ViewerHears
  BY <1>2, ViewerHearsIs DEF Untouched, sharerVars, negotiationVars
<1>3. ~OfferReady /\ ~SharerFinds /\ ~ConnectionFails
  BY NothingUnderWay DEF OfferReady, SharerFinds, ConnectionFails, Untouched
<1>4. CASE OfTheStatistics
  BY <1>4, StreamStepsLeave DEF Untouched, negotiationVars, sharerVars, linkVars
<1> QED
  BY <1>1, <1>2, <1>3, <1>4, NextIs, AtWork, StreamStepsLeave DEF AtTheSharer, Untouched

LEMMA OverStays ==
  ASSUME Typed, listening /\ ~member => Over, PLNext, listening', ~member'
  PROVE  Over'
<1>1. ~Join /\ ~Leave
  BY JoinIs, CleanUpSettles DEF Leave
<1>2. CASE SharerStops
  BY <1>2 DEF SharerStops, Over
<1>3. ASSUME UNCHANGED <<listening, member, toSharer, entry>> PROVE Over'
  BY <1>3 DEF Over
<1>4. ASSUME UNCHANGED <<listening, member>> PROVE ~OfferReady /\ ~SharerFinds /\ ~SharerHears /\ ~ConnectionFails
  BY <1>4, NothingUnderWay DEF OfferReady, SharerFinds, SharerHears, ConnectionFails, Over
<1>5. CASE ViewerHears
  <2>1. UNCHANGED listening
    BY <1>5, ViewerHearsIs, CleanUpSettles DEF TakeOffer, AddCandidate
  <2> QED
    BY <1>3, <1>5, <2>1 DEF ViewerHears, sharerVars
<1>6. CASE Accepts
  <2>1. UNCHANGED <<listening, member, entry>>
    BY <1>6, AcceptsSends DEF sharerVars
  <2> QED
    BY <1>3, <1>6, <2>1, AcceptsSends, ViewerSendsRanges
<1>7. CASE ViewerFinds
  BY <1>3, <1>7, ViewerFindsSends, ViewerSendsRanges DEF ViewerFinds, sharerVars
<1>8. CASE AnyPathChange \/ OfTheStatistics
  BY <1>3, <1>8, StreamStepsLeave DEF sharerVars, linkVars
<1>9. OfferReady \/ SharerFinds \/ SharerHears \/ ConnectionFails => UNCHANGED <<listening, member>>
  BY DEF OfferReady, SharerFinds, SharerHears, ConnectionFails, linkVars
<1> QED
  BY <1>1, <1>2, <1>4, <1>5, <1>6, <1>7, <1>8, <1>9, NextIs DEF AtTheSharer

LEMMA AnnouncedStays ==
  ASSUME Typed, Announced => Foremost /\ Untouched, PLNext, Calm', Announced'
  PROVE  Foremost' /\ Untouched'
<1> DEFINE joined == Plain("viewer-joined")
<1>1. toSharer \in Seq(SharerMail) /\ Plain("viewer-left") \in SharerMail /\ joined \in SharerMail
      /\ joined # Plain("viewer-left") /\ joined.type = "viewer-joined"
  BY MailIs DEF Typed, LinkTypes, Mail, Plain
<1>2. CASE Join
  <2>1. toSharer = <<>> /\ toViewer = <<>> /\ entry = NoEntry /\ ~listening
        /\ toSharer' = <<joined>> /\ UNCHANGED <<toViewer, entry, conn, pending>>
    <3>1. toSharer = <<>> /\ toViewer = <<>> /\ entry = NoEntry /\ ~listening
      BY <1>2, JoinsAfresh, JoinIs DEF Unsettled
    <3>2. toSharer' # toSharer
      BY <3>1, EmptyRange DEF Announced
    <3>3. toSharer' = Append(toSharer, joined) /\ UNCHANGED <<toViewer, entry, conn, pending>>
      BY <1>2, <3>2, JoinIs DEF negotiationVars, sharerVars
    <3>4. Append(<<>>, joined) = <<joined>>
      OBVIOUS
    <3> QED
      BY <3>1, <3>3, <3>4
  <2>2. conn = 0 /\ pending = <<>>
    BY <2>1 DEF Typed, ManagerInv
  <2>3. toSharer'[1] = joined /\ DOMAIN toSharer' = 1 .. 1
    BY <2>1
  <2> QED
    BY <2>1, <2>2, <2>3 DEF Foremost, Untouched
<1>3. ~SharerStops
  BY EmptyRange DEF SharerStops, Announced
<1>4. ~SharerHears
  <2> SUFFICES ASSUME SharerHears PROVE FALSE
    OBVIOUS
  <2>1. toSharer # <<>> /\ toSharer' = Tail(toSharer)
    BY DEF SharerHears
  <2>2. Announced
    BY <1>1, <2>1, QueueShrinks DEF Announced
  <2>3. /\ \A i \in DOMAIN toSharer : i # 1 => toSharer[i] = Plain("viewer-left")
        /\ DOMAIN toSharer = 1 .. Len(toSharer) /\ Len(toSharer) \in Nat
        /\ DOMAIN Tail(toSharer) = 1 .. Len(toSharer) - 1
        /\ \A i \in 1 .. Len(toSharer) - 1 : Tail(toSharer)[i] = toSharer[i + 1]
    BY <1>1, <2>1, <2>2 DEF Foremost
  <2>4. PICK i \in DOMAIN Tail(toSharer) : Tail(toSharer)[i] = joined
    BY <2>1 DEF Announced, Range
  <2>5. i + 1 \in DOMAIN toSharer /\ i + 1 # 1 /\ toSharer[i + 1] = joined
    BY <2>3, <2>4
  <2> QED
    BY <1>1, <2>3, <2>5
<1>5. ASSUME Announced PROVE ~Accepts /\ ~ViewerFinds /\ ~OfferReady /\ ~SharerFinds
  BY <1>5, AtWork, NothingUnderWay DEF Untouched, OfferReady, SharerFinds
<1>6. ASSUME ~Join, ~Leave PROVE Announced /\ Foremost'
  <2>1. CASE UNCHANGED toSharer
    BY <2>1 DEF Announced, Foremost
  <2>2. CASE (Accepts /\ ~UNCHANGED toSharer) \/ ViewerFinds
    <3>1. PICK m \in SharerMail : ViewerSends(m) /\ m # joined
      <4>1. ASSUME NEW c PROVE Answer(remote, conn) # joined /\ Candidate(c) # joined
        BY DEF Answer, Candidate, Plain
      <4> QED
        BY <2>2, <4>1, AcceptsSends, ViewerFindsSends
    <3>2. Announced
      BY <3>1, ViewerSendsRanges DEF Announced
    <3> QED
      BY <1>5, <2>2, <3>2
  <2>3. CASE OfferReady \/ SharerFinds
    BY <2>1, <2>3 DEF OfferReady, SharerFinds, SharerSends
  <2> QED
    <3>1. ConnectionFails \/ ViewerHears \/ AnyPathChange \/ OfTheStatistics => UNCHANGED toSharer
      BY StreamStepsLeave DEF ConnectionFails, ViewerHears, linkVars
    <3> QED
      BY <1>3, <1>4, <1>6, <2>1, <2>2, <2>3, <3>1, NextIs DEF AtTheSharer
<1>7. CASE Leave
  <2>1. toSharer' = toSharer \/ toSharer' = Append(toSharer, Plain("viewer-left"))
    BY <1>7 DEF Leave
  <2>4. ~Join
    BY <1>7, CleanUpSettles, JoinIs DEF Leave
  <2>2. CASE toSharer' = toSharer
    BY <1>3, <1>4, <2>2, <2>4, UntouchedStays DEF Announced, Foremost
  <2>3. CASE toSharer' = Append(toSharer, Plain("viewer-left"))
    <3>1. Announced
      BY <1>1, <2>3, QueueGrows DEF Announced
    <3>2. /\ Len(toSharer) \in Nat /\ DOMAIN toSharer = 1 .. Len(toSharer)
          /\ DOMAIN toSharer' = 1 .. Len(toSharer) + 1
          /\ toSharer'[Len(toSharer) + 1] = Plain("viewer-left")
          /\ \A i \in DOMAIN toSharer : toSharer'[i] = toSharer[i]
      BY <1>1, <2>3, QueueGrowsAt
    <3>3. toSharer # <<>> /\ 1 \in DOMAIN toSharer
      <4>1. toSharer # <<>>
        BY <3>1, EmptyRange DEF Announced
      <4> QED
        BY <1>1, <4>1
    <3>4. Foremost'
      BY <3>1, <3>2, <3>3 DEF Foremost
    <3> QED
      BY <1>3, <1>4, <2>4, <3>1, <3>4, UntouchedStays
  <2> QED
    BY <2>1, <2>2, <2>3
<1> QED
  BY <1>2, <1>3, <1>4, <1>6, <1>7, UntouchedStays

LEMMA StayStep == Typed /\ StayInv /\ PLNext /\ Calm' => StayInv'
BY AnnouncedStays, OverStays DEF StayInv
-----------------------------------------------------------------------------
(***************************************************************************)
(* What comes from the sharer.                                             *)
(***************************************************************************)
Welcomes == SharerHears /\ Head(toSharer).type = "viewer-joined"

LEMMA HeldAre == Typed => /\ Held \subseteq Candidates
                         /\ Range(toViewer) \subseteq ViewerMail /\ Range(toSharer) \subseteq SharerMail
                         /\ entry.applied \subseteq Candidates
<1> SUFFICES ASSUME Typed
             PROVE  /\ Held \subseteq Candidates
                    /\ Range(toViewer) \subseteq ViewerMail /\ Range(toSharer) \subseteq SharerMail
                    /\ entry.applied \subseteq Candidates
  OBVIOUS
<1>1. /\ pending \in Seq(Candidates) /\ applied \subseteq Candidates
      /\ toViewer \in Seq(ViewerMail) /\ toSharer \in Seq(SharerMail)
  BY DEF Typed, ManagerTypes, CandidateTypes, LinkTypes, Mail
<1>2. entry.applied \subseteq Candidates
  BY DEF Typed, SharerTypes, Entries
<1>3. \A c \in Connections : Range(accepting[c].todo) \subseteq Candidates
  BY AcceptingIs, QueueOf
<1> QED
  BY <1>1, <1>2, <1>3, QueueOf DEF Held, ToDo

\* A viewer that is welcomed has nothing of the sharer's.
LEMMA WelcomeFindsNothing ==
  ASSUME Typed, StayInv, Welcomes
  PROVE  /\ Untouched /\ Held = {} /\ remote = 0 /\ accepting = Idle /\ ~answered /\ found = 0
         /\ entry' = [NoEntry EXCEPT !.conn = offers + 1, !.phase = "offering"] /\ offers' = offers + 1
         /\ entry'.phase = "offering" /\ entry'.by = 0 /\ entry'.found = 0 /\ entry'.applied = {}
         /\ UNCHANGED <<listening, negotiationVars, toViewer, member>>
         /\ \A m \in Range(toSharer') : m = Plain("viewer-left")
<1>1. /\ toSharer \in Seq(SharerMail) /\ toSharer # <<>> /\ toSharer' = Tail(toSharer)
      /\ Head(toSharer).type = "viewer-joined"
  BY DEF Typed, LinkTypes, Mail, Welcomes, SharerHears
<1>2. Head(toSharer) \in SharerMail /\ Head(toSharer) \in Range(toSharer)
  BY <1>1, QueueShrinks
<1>3. Announced
  BY <1>1, <1>2, JoinedMail DEF Announced
<1>4. Untouched /\ Foremost
  BY <1>3 DEF StayInv
<1>5. /\ conn = 0 /\ pending = <<>> /\ remote = 0 /\ accepting = Idle /\ ~answered /\ found = 0
      /\ applied = {}
  BY <1>4 DEF Untouched, Typed, ManagerInv
<1>6. Held = {}
  BY <1>5, EmptyRange, NothingUnderWay DEF Held, ToDo
<1>7. ASSUME NEW m \in Range(toSharer') PROVE m = Plain("viewer-left")
  <2>1. /\ DOMAIN toSharer = 1 .. Len(toSharer) /\ Len(toSharer) \in Nat
        /\ DOMAIN Tail(toSharer) = 1 .. Len(toSharer) - 1
        /\ \A i \in 1 .. Len(toSharer) - 1 : Tail(toSharer)[i] = toSharer[i + 1]
    BY <1>1
  <2>2. PICK i \in DOMAIN Tail(toSharer) : Tail(toSharer)[i] = m
    BY <1>1 DEF Range
  <2>3. i + 1 \in DOMAIN toSharer /\ i + 1 # 1 /\ toSharer[i + 1] = m
    BY <2>1, <2>2
  <2> QED
    BY <1>4, <2>3 DEF Foremost
<1>8. entry' = [NoEntry EXCEPT !.conn = offers + 1, !.phase = "offering"] /\ offers' = offers + 1
  BY <1>1, <1>4, SharerHearsIs DEF Welcomes, Untouched, Begins, Answers, Adds
<1>9. UNCHANGED <<listening, negotiationVars, toViewer, member>>
  BY DEF Welcomes, SharerHears
<1>10. entry'.phase = "offering" /\ entry'.by = 0 /\ entry'.found = 0 /\ entry'.applied = {}
  BY <1>8 DEF NoEntry
<1> QED
  BY <1>4, <1>5, <1>6, <1>7, <1>8, <1>9, <1>10

\* Otherwise its entry only goes on, or goes.
LEMMA SharerGoesOn ==
  ASSUME Typed, PLNext, ~Welcomes
  PROVE  /\ offers' = offers
         /\ entry' # NoEntry => /\ entry # NoEntry /\ entry'.conn = entry.conn
                                /\ entry.found \in Int /\ entry'.found \in Int /\ entry.found <= entry'.found
                                /\ ~SharerFinds => entry'.found = entry.found
<1>1. entry \in Entries /\ entry.found \in Int
  BY ConnectionsAre DEF Typed, SharerTypes, Entries
<1>2. CASE UNCHANGED sharerVars
  BY <1>1, <1>2 DEF sharerVars
<1>3. CASE OfferReady
  BY <1>1, <1>3, OfferReadySends
<1>4. CASE SharerFinds
  <2>1. entry'.found = entry.found + 1 /\ entry'.conn = entry.conn /\ entry # NoEntry /\ offers' = offers
    BY <1>1, <1>4, SharerFindsSends DEF SharerFinds, Entries
  <2> QED
    BY <1>1, <1>4, <2>1
<1>5. CASE SharerStops \/ ConnectionFails
  BY <1>5 DEF SharerStops, ConnectionFails
<1>6. CASE SharerHears
  <2>1. PICK m \in SharerMail :
          /\ m = Head(toSharer)
          /\ \/ Answers(m) \/ Adds(m) \/ Begins(m)
             \/ entry' \in {NoEntry, entry} /\ offers' = offers
    BY <1>6, SharerHearsIs
  <2>2. ~Begins(m)
    BY <1>6, <2>1 DEF Begins, Welcomes
  <2>3. Answers(m) \/ Adds(m) => offers' = offers /\ entry # NoEntry /\ entry'.conn = entry.conn
                                 /\ entry'.found = entry.found
    BY <1>1, AnswersMakes, AddsMakes DEF Answers, Adds
  <2>4. Answers(m) \/ Adds(m) \/ (entry' \in {NoEntry, entry} /\ offers' = offers)
    BY <2>1, <2>2
  <2> QED
    BY <1>1, <2>3, <2>4
<1> QED
  BY <1>2, <1>3, <1>4, <1>5, <1>6, NextIs, ViewersStepsLeave, StreamStepsLeave DEF AtTheSharer

LEMMA OfTheSharerStays ==
  ASSUME Typed, PLNext, ~Welcomes, NEW c \in Candidates, OfTheSharer(c)
  PROVE  OfTheSharer(c)'
<1>1. c.n \in Int
  BY ConnectionsAre DEF Candidates
<1> QED
  BY <1>1, SharerGoesOn DEF OfTheSharer

\* What the manager holds came with its mail.
LEMMA HeldComes ==
  ASSUME Typed, PLNext, NEW c \in Held'
  PROVE  c \in Held \/ (listening /\ \E m \in Range(toViewer) : m.type = "ice-candidate" /\ m.candidate = c)
<1>1. pending \in Seq(Candidates)
  BY DEF Typed, ManagerTypes, CandidateTypes
<1>2. CASE UNCHANGED <<pending, accepting, applied>>
  BY <1>2 DEF Held, ToDo
<1>3. ASSUME NEW becomes, CleanUp(becomes) PROVE FALSE
  <2>1. Range(pending') = {} /\ applied' = {} /\ \A d \in Connections : Range(accepting'[d].todo) = {}
    BY <1>3, CleanUpSettles, EmptyRange, NothingUnderWay
  <2> QED
    BY <2>1 DEF Held, ToDo
<1>4. ASSUME NEW d \in Connections, AtWorkOn(d) PROVE c \in Held
  <2>1. ASSUME NEW e \in Connections, NEW x \in Range(accepting'[e].todo) PROVE x \in Held
    <3>1. CASE e # d
      <4>1. accepting'[e] = accepting[e]
        BY <1>4, <3>1, AcceptingIs
      <4> QED
        BY <2>1, <4>1 DEF Held, ToDo
    <3>2. CASE Described(d) /\ e = d
      <4>1. accepting'[e].todo = pending
        BY <3>2, AcceptingIs
      <4> QED
        BY <2>1, <4>1 DEF Held
    <3>3. CASE Drain(d) /\ e = d
      <4>1. accepting'[e].todo = Tail(accepting[e].todo) /\ accepting[e].todo # <<>>
            /\ accepting[e].todo \in Seq(Candidates)
        BY <3>3, AcceptingIs DEF Drain
      <4>2. Range(accepting'[e].todo) \subseteq Range(accepting[e].todo)
        BY <4>1, QueueShrinks
      <4> QED
        BY <2>1, <4>2 DEF Held, ToDo
    <3>4. CASE Drained(d) /\ e = d
      <4>1. accepting'[e].todo = accepting[e].todo
        BY <3>4, AcceptingIs
      <4> QED
        BY <2>1, <4>1 DEF Held, ToDo
    <3>5. CASE (SendAnswer(d) \/ AcceptFails(d)) /\ e = d
      BY <2>1, <3>5, AcceptingIs, EmptyRange, NothingUnderWay
    <3> QED
      BY <1>4, <3>1, <3>2, <3>3, <3>4, <3>5 DEF AtWorkOn
  <2>2. Range(pending') \subseteq Range(pending)
    BY <1>4, EmptyRange DEF AtWorkOn, Described, Drain, Drained, SendAnswer, AcceptFails
  <2>3. ASSUME NEW x \in applied' PROVE x \in Held
    <3>1. CASE Drain(d)
      <4>1. accepting[d].todo # <<>> /\ accepting[d].todo \in Seq(Candidates)
            /\ applied' = applied \union {Head(accepting[d].todo)}
        BY <3>1, AcceptingIs DEF Drain
      <4>2. Head(accepting[d].todo) \in Range(accepting[d].todo)
        BY <4>1, QueueShrinks
      <4> QED
        BY <2>3, <4>1, <4>2 DEF Held, ToDo
    <3>2. CASE ~Drain(d)
      <4>1. applied' = applied
        BY <1>4, <3>2 DEF AtWorkOn, Described, Drained, SendAnswer, AcceptFails
      <4> QED
        BY <2>3, <4>1 DEF Held
    <3> QED
      BY <3>1, <3>2
  <2>4. Range(pending) \subseteq Held
    BY DEF Held
  <2>5. c \in Range(pending') \/ c \in applied' \/ \E e \in Connections : c \in Range(accepting'[e].todo)
    BY DEF Held, ToDo
  <2> QED
    BY <2>1, <2>2, <2>3, <2>4, <2>5
<1>5. CASE ViewerHears
  <2>1. toViewer \in Seq(ViewerMail) /\ toViewer # <<>>
    BY <1>5 DEF ViewerHears, Typed, LinkTypes, Mail
  <2>2. PICK m \in Range(toViewer) : m = Head(toViewer) /\ m \in ViewerMail
    BY <2>1, QueueShrinks
  <2>3. CASE listening /\ m.type = "offer" /\ TakeOffer(m.conn)
    <3>1. m.conn \in Connections
      BY <2>2, <2>3, OfferMail
    <3>2. /\ accepting'[m.conn].todo = <<>>
          /\ \A d \in Connections : d # m.conn => accepting'[d] = accepting[d]
      BY <2>3, <3>1, AcceptingIs
    <3>3. UNCHANGED <<pending, applied>>
      BY <2>3 DEF TakeOffer
    <3>4. \A d \in Connections : Range(accepting'[d].todo) \subseteq Range(accepting[d].todo)
      BY <3>2, EmptyRange
    <3> QED
      BY <3>3, <3>4 DEF Held, ToDo
  <2>4. CASE listening /\ m.type = "ice-candidate" /\ AddCandidate(m.candidate)
    <3>1. m.candidate \in Candidates
      BY <2>2, <2>4, CandidateMail
    <3>2. Range(Append(pending, m.candidate)) = Range(pending) \union {m.candidate}
      BY <1>1, <3>1, QueueGrows
    <3> QED
      BY <2>4, <3>2 DEF AddCandidate, Held, ToDo
  <2> QED
    BY <1>2, <1>3, <1>5, <2>2, <2>3, <2>4, ViewerHearsIs DEF negotiationVars
<1>6. Join => UNCHANGED <<pending, accepting, applied>>
  BY JoinIs DEF negotiationVars
<1> QED
  BY <1>2, <1>3, <1>4, <1>5, <1>6, NextIs, SharersStepsLeave, StreamStepsLeave
     DEF Accepts, negotiationVars, Leave, ViewerFinds

\* What is new in its mail is what the sharer sends, or the end.
LEMMA ViewersMailComes ==
  ASSUME Typed, PLNext, Calm', listening', NEW m \in Range(toViewer')
  PROVE  \/ listening /\ m \in Range(toViewer)
         \/ m.type \in {"room-ended", "error"}
         \/ OfferReady /\ m = Offer(offers)
         \/ SharerFinds /\ m = Candidate([from |-> "sharer", of |-> offers, n |-> entry.found + 1])
<1>1. /\ toViewer \in Seq(ViewerMail) /\ Plain("error").type = "error"
      /\ Plain("room-ended").type = "room-ended"
      /\ Plain("error") \in ViewerMail /\ Plain("room-ended") \in ViewerMail
  BY MailIs DEF Typed, LinkTypes, Mail, Plain
<1>2. CASE UNCHANGED toViewer /\ listening
  BY <1>2
<1>3. CASE Join
  <2>1. toViewer = <<>> /\ (toViewer' = toViewer \/ toViewer' = Append(toViewer, Plain("error")))
    BY <1>3, JoinIs, JoinsAfresh DEF Unsettled
  <2>2. Range(Append(toViewer, Plain("error"))) = Range(toViewer) \union {Plain("error")}
    BY <1>1, QueueGrows
  <2> QED
    BY <1>1, <2>1, <2>2, EmptyRange
<1>4. ~Leave
  BY CleanUpSettles DEF Leave
<1>5. CASE SharerStops
  BY <1>1, <1>5, QueueGrows, SharersStepsLeave DEF SharerStops, AtTheSharer
<1>6. CASE (Accepts /\ ~UNCHANGED toViewer) \/ ViewerFinds
  <2>1. PICK x \in SharerMail : ViewerSends(x)
    BY <1>6, AcceptsSends, ViewerFindsSends
  <2>2. member => toViewer' = toViewer
    BY <2>1 DEF ViewerSends
  <2>3. ~member => Range(toViewer') = Range(toViewer) \union {Plain("error")}
    BY <2>1, ViewerSendsRanges
  <2>4. listening' = listening
    BY <1>6, AcceptsSends DEF ViewerFinds
  <2> QED
    BY <1>1, <2>2, <2>3, <2>4
<1>7. CASE ViewerHears
  <2>1. listening
    BY <1>7, ViewerHearsIs
  <2> QED
    BY <1>1, <1>7, <2>1, QueueShrinks DEF ViewerHears
<1>8. CASE OfferReady
  BY <1>8, OfferReadySends, SharerSendsRanges, SharersStepsLeave DEF AtTheSharer
<1>9. CASE SharerFinds
  BY <1>9, SharerFindsSends, SharerSendsRanges, SharersStepsLeave DEF AtTheSharer
<1>10. SharerHears \/ ConnectionFails => UNCHANGED <<toViewer, listening>>
  BY DEF SharerHears, ConnectionFails, linkVars
<1>11. CASE Accepts /\ UNCHANGED toViewer
  BY <1>11, AcceptsSends
<1> QED
  BY <1>2, <1>3, <1>4, <1>5, <1>6, <1>7, <1>8, <1>9, <1>10, <1>11, NextIs, StreamStepsLeave
     DEF AtTheSharer, linkVars

LEMMA SharersMailStep ==
  ASSUME Typed, StayInv, FromTheSharer, PLNext, Calm'
  PROVE  listening' => \A m \in Range(toViewer') : SharersMessage(m)'
<1> SUFFICES ASSUME listening', NEW m \in Range(toViewer') PROVE SharersMessage(m)'
  OBVIOUS
<1>1. CASE Welcomes
  <2>1. toViewer' = toViewer /\ listening' = listening /\ Untouched
    BY <1>1, WelcomeFindsNothing
  <2> QED
    BY <2>1, EmptyRange DEF Untouched
<1>2. CASE ~Welcomes /\ listening /\ m \in Range(toViewer)
  <2>1. SharersMessage(m) /\ m \in ViewerMail /\ offers' = offers
    BY <1>2, HeldAre, SharerGoesOn DEF FromTheSharer
  <2>2. CASE m.type = "ice-candidate"
    BY <1>2, <2>1, <2>2, CandidateMail, OfTheSharerStays DEF SharersMessage
  <2>3. CASE m.type # "ice-candidate"
    BY <2>1, <2>3 DEF SharersMessage
  <2> QED
    BY <2>2, <2>3
<1>3. CASE m.type \in {"room-ended", "error"}
  BY <1>3 DEF SharersMessage
<1>4. CASE OfferReady /\ m = Offer(offers)
  BY <1>4 DEF OfferReady, Offer, SharersMessage
<1>5. CASE SharerFinds /\ m = Candidate([from |-> "sharer", of |-> offers, n |-> entry.found + 1])
  <2>1. entry'.found = entry.found + 1 /\ offers' = offers /\ entry.found \in Nat
    BY <1>5, SharerFindsSends DEF SharerFinds, Typed, SharerTypes, Entries
  <2>2. m.type = "ice-candidate" /\ m.candidate.from = "sharer" /\ m.candidate.of = offers
        /\ m.candidate.n = entry.found + 1
    BY <1>5 DEF Candidate
  <2> QED
    BY <2>1, <2>2 DEF SharersMessage, OfTheSharer
<1> QED
  BY <1>1, <1>2, <1>3, <1>4, <1>5, ViewersMailComes

LEMMA FromTheSharerStep ==
  ASSUME Typed, StayInv, OfferInv, FromTheSharer, PLNext, Calm'
  PROVE  FromTheSharer'
<1>1. ASSUME NEW c \in Held' PROVE OfTheSharer(c)'
  <2>1. CASE Welcomes
    <3>1. UNCHANGED <<pending, accepting, applied>>
      BY <2>1, WelcomeFindsNothing DEF negotiationVars
    <3> QED
      BY <2>1, <3>1, WelcomeFindsNothing DEF Held, ToDo
  <2>2. CASE ~Welcomes /\ c \in Held
    BY <2>2, HeldAre, OfTheSharerStays DEF FromTheSharer
  <2>3. ASSUME ~Welcomes, listening,
               NEW m \in Range(toViewer), m.type = "ice-candidate", m.candidate = c
        PROVE  OfTheSharer(c)'
    BY <2>3, HeldAre, CandidateMail, OfTheSharerStays DEF FromTheSharer, SharersMessage
  <2> QED
    BY <2>1, <2>2, <2>3, HeldComes
<1>2. (remote \in {0, offers})'
  <2>1. CASE Welcomes
    BY <2>1, WelcomeFindsNothing DEF negotiationVars
  <2>2. CASE ~Welcomes
    <3>1. offers' = offers
      BY <2>2, SharerGoesOn
    <3>2. CASE UNCHANGED remote
      BY <3>1, <3>2 DEF FromTheSharer
    <3>3. ASSUME NEW c \in Connections, Described(c) PROVE (remote \in {0, offers})'
      <4>1. c = offers /\ remote' = c
        BY <3>3, NothingUnderWay DEF Described, OfferInv
      <4> QED
        BY <3>1, <4>1
    <3>4. ASSUME NEW becomes, CleanUp(becomes) PROVE (remote \in {0, offers})'
      BY <3>4, CleanUpSettles
    <3>5. Accepts => UNCHANGED remote \/ \E c \in Connections : Described(c)
      BY AcceptStepsLeave DEF Accepts
    <3>6. ViewerHears => UNCHANGED remote \/ CleanUp("disconnected") \/ CleanUp("error")
      BY ViewerHearsIs DEF TakeOffer, AddCandidate, negotiationVars
    <3>7. Join \/ ViewerFinds => UNCHANGED remote
      BY JoinIs DEF ViewerFinds, negotiationVars
    <3> QED
      BY <3>2, <3>3, <3>4, <3>5, <3>6, <3>7, NextIs, SharersStepsLeave, StreamStepsLeave
         DEF negotiationVars, Leave
  <2> QED
    BY <2>1, <2>2
<1> QED
  BY <1>1, <1>2, SharersMailStep DEF FromTheSharer
-----------------------------------------------------------------------------
(***************************************************************************)
(* What comes from the viewer.                                             *)
(***************************************************************************)
Takes == ViewerHears /\ listening /\ Head(toViewer).type = "offer"

LEMMA TakesIs ==
  ASSUME Typed, OfferInv, Takes
  PROVE  /\ conn = 0 /\ listening /\ made' = made + 1 /\ conn' = made + 1 /\ conn' # 0 /\ made \in Nat
         /\ remote = 0 /\ ~answered /\ found = 0
         /\ UNCHANGED <<listening, remote, answered, found, pending, applied, shown, traffic, path>>
         /\ UNCHANGED <<sharerVars, member, toSharer, happened>>
         /\ previous' = NoPrevious
         /\ \E m \in ViewerMail : /\ m = Head(toViewer) /\ m \in Range(toViewer) /\ m.type = "offer"
                                  /\ m.conn \in Connections /\ TakeOffer(m.conn)
<1>1. /\ toViewer \in Seq(ViewerMail) /\ toViewer # <<>>
      /\ listening /\ UNCHANGED <<sharerVars, member, toSharer, happened>>
  BY DEF Takes, ViewerHears, Typed, LinkTypes, Mail
<1>2. PICK m \in ViewerMail : m = Head(toViewer) /\ m \in Range(toViewer)
  BY <1>1, QueueShrinks
<1>3. m.type = "offer" /\ TakeOffer(m.conn) /\ UNCHANGED traffic
  BY <1>2 DEF Takes, ViewerHears
<1>4. made \in Nat
  BY ConnectionsAre DEF Typed, ManagerTypes, NumberTypes
<1>5. conn = 0
  BY <1>2, <1>3 DEF OfferInv, NoOffers
<1>6. remote = 0 /\ ~answered /\ found = 0
  BY <1>5 DEF Typed, ManagerInv
<1>7. conn' = made + 1 /\ made' = made + 1 /\ previous' = NoPrevious
      /\ UNCHANGED <<listening, remote, answered, found, pending, applied, shown, path>>
  BY <1>3, <1>5 DEF TakeOffer, PreviousAfterReset
<1> QED
  BY <1>1, <1>2, <1>3, <1>4, <1>5, <1>6, <1>7, OfferMail

\* Otherwise its connection only goes on, or goes.
LEMMA ViewerGoesOn ==
  ASSUME Typed, PLNext, ~Takes
  PROVE  /\ made' = made
         /\ conn' # 0 => /\ conn' = conn /\ found \in Int /\ found' \in Int /\ found <= found'
                         /\ ~ViewerFinds => found' = found
         /\ listening' /\ conn' = 0 => Join \/ (listening /\ conn = 0)
<1>1. found \in Int
  BY ConnectionsAre DEF Typed, ManagerTypes, NumberTypes
<1>2. CASE UNCHANGED <<made, conn, found, listening>>
  BY <1>1, <1>2
<1>3. CASE Join
  BY <1>1, <1>3, JoinIs DEF negotiationVars
<1>4. ASSUME NEW becomes, CleanUp(becomes) PROVE made' = made /\ conn' = 0 /\ ~listening'
  BY <1>4, CleanUpSettles
<1>5. CASE ViewerFinds
  <2>1. found' = found + 1 /\ UNCHANGED <<made, conn, listening>>
    BY <1>5 DEF ViewerFinds
  <2> QED
    BY <1>1, <1>5, <2>1
<1>6. CASE ViewerHears
  <2>1. \/ UNCHANGED <<made, conn, found, listening>>
        \/ CleanUp("disconnected") \/ CleanUp("error")
    BY <1>6, ViewerHearsIs DEF Takes, negotiationVars, AddCandidate
  <2> QED
    BY <1>2, <1>4, <2>1
<1> QED
  BY <1>2, <1>3, <1>4, <1>5, <1>6, NextIs, ViewersStepsLeave, SharersStepsLeave, StreamStepsLeave
     DEF Leave, negotiationVars

LEMMA OfTheViewerStays ==
  ASSUME Typed, PLNext, ~Takes, NEW c \in Candidates, OfTheViewer(c)
  PROVE  OfTheViewer(c)'
<1>1. c.n \in Int
  BY ConnectionsAre DEF Candidates
<1> QED
  BY <1>1, ViewerGoesOn DEF OfTheViewer

LEMMA SharersMailComes ==
  ASSUME Typed, PLNext, NEW m \in Range(toSharer')
  PROVE  \/ m \in Range(toSharer)
         \/ m.type \in {"viewer-joined", "viewer-left"}
         \/ Accepts /\ m = Answer(remote, conn)
         \/ ViewerFinds /\ m = Candidate([from |-> "viewer", of |-> conn, n |-> found + 1])
<1>1. /\ toSharer \in Seq(SharerMail) /\ Plain("viewer-joined").type = "viewer-joined"
      /\ Plain("viewer-left").type = "viewer-left"
      /\ Plain("viewer-joined") \in SharerMail /\ Plain("viewer-left") \in SharerMail
  BY MailIs DEF Typed, LinkTypes, Mail, Plain
<1>2. CASE UNCHANGED toSharer
  BY <1>2
<1>3. CASE Join \/ Leave
  <2>1. PICK x \in {Plain("viewer-joined"), Plain("viewer-left")} :
          toSharer' = toSharer \/ toSharer' = Append(toSharer, x)
    BY <1>3, JoinIs DEF Leave
  <2>2. x \in SharerMail /\ x.type \in {"viewer-joined", "viewer-left"}
    BY <1>1
  <2>3. Range(Append(toSharer, x)) = Range(toSharer) \union {x}
    BY <1>1, <2>2, QueueGrows
  <2> QED
    BY <2>1, <2>2, <2>3
<1>4. CASE SharerStops
  BY <1>4, EmptyRange DEF SharerStops
<1>5. CASE Accepts
  BY <1>5, AcceptsSends, ViewerSendsRanges
<1>6. CASE ViewerFinds
  BY <1>6, ViewerFindsSends, ViewerSendsRanges
<1>7. CASE SharerHears
  BY <1>1, <1>7, QueueShrinks DEF SharerHears
<1>8. OfferReady \/ SharerFinds \/ ViewerHears \/ ConnectionFails => UNCHANGED toSharer
  BY DEF OfferReady, SharerFinds, SharerSends, ViewerHears, ConnectionFails, linkVars
<1> QED
  BY <1>2, <1>3, <1>4, <1>5, <1>6, <1>7, <1>8, NextIs, StreamStepsLeave DEF AtTheSharer, linkVars

\* What the sharer's entry is given came with its mail.
LEMMA EntryComes ==
  ASSUME Typed, PLNext
  PROVE  /\ entry'.by # 0 =>
              entry'.by = entry.by \/ \E m \in Range(toSharer) : m.type = "answer" /\ entry'.by = m.by
         /\ \A c \in entry'.applied :
              c \in entry.applied \/ \E m \in Range(toSharer) : m.type = "ice-candidate" /\ m.candidate = c
         /\ entry'.phase = "offering" => Welcomes \/ entry.phase = "offering"
<1>1. entry \in Entries
  BY DEF Typed, SharerTypes
<1>2. CASE UNCHANGED sharerVars
  BY <1>2 DEF sharerVars
<1>3. CASE OfferReady
  BY <1>1, <1>3, OfferReadySends
<1>4. CASE SharerFinds
  <2>1. entry'.by = entry.by /\ entry'.applied = entry.applied /\ entry'.phase = entry.phase
    BY <1>1, <1>4, SharerFindsSends DEF Entries
  <2> QED
    BY <2>1
<1>5. CASE entry' = NoEntry
  BY <1>5, NothingUnderWay
<1>6. CASE SharerHears
  <2>1. PICK m \in SharerMail :
          /\ m = Head(toSharer) /\ m \in Range(toSharer)
          /\ Answers(m) \/ Adds(m) \/ Begins(m) \/ entry' \in {NoEntry, entry}
    BY <1>6, SharerHearsIs
  <2>2. CASE Begins(m)
    <3>1. entry'.by = 0 /\ entry'.applied = {} /\ Welcomes
      BY <1>6, <2>1, <2>2 DEF Begins, Welcomes, NoEntry
    <3> QED
      BY <3>1
  <2>3. CASE Answers(m)
    <3>1. /\ m.type = "answer" /\ entry'.by = m.by /\ entry'.applied = entry.applied
          /\ entry'.phase = "offering" => entry.phase = "offering"
      BY <1>1, <2>3, AnswersMakes DEF Answers
    <3> QED
      BY <2>1, <3>1
  <2>4. CASE Adds(m)
    <3>1. /\ m.type = "ice-candidate" /\ entry'.by = entry.by /\ entry'.phase = entry.phase
          /\ entry'.applied = entry.applied \union {m.candidate}
      BY <1>1, <2>4, AddsMakes DEF Adds
    <3> QED
      BY <2>1, <3>1
  <2> QED
    BY <1>5, <2>1, <2>2, <2>3, <2>4
<1>7. SharerStops \/ ConnectionFails => entry' = NoEntry
  BY DEF SharerStops, ConnectionFails
<1> QED
  BY <1>2, <1>3, <1>4, <1>5, <1>6, <1>7, NextIs, ViewersStepsLeave, StreamStepsLeave DEF AtTheSharer

LEMMA FromTheViewerStep ==
  ASSUME Typed, OfferInv, FromTheViewer, PLNext, Calm'
  PROVE  FromTheViewer'
<1>1. CASE Takes
  <2>1. /\ conn' # 0 /\ toSharer' = toSharer /\ entry' = entry /\ conn = 0 /\ listening
    BY <1>1, TakesIs DEF sharerVars
  <2>2. entry.by = 0 /\ entry.applied = {} /\ Unanswered(toSharer)
    BY <2>1 DEF FromTheViewer, Typed, EntryInv
  <2> QED
    BY <2>1, <2>2 DEF FromTheViewer, ViewersMessage, Unanswered
<1>2. CASE ~Takes
  <2>1. made' = made
    BY <1>2, ViewerGoesOn
  <2>2. ASSUME NEW m \in Range(toSharer') PROVE ViewersMessage(m)'
    <3>1. CASE m \in Range(toSharer)
      <4>1. ViewersMessage(m) /\ (m.type = "ice-candidate" => m.candidate \in Candidates)
        BY <3>1, HeldAre, CandidateMail DEF FromTheViewer
      <4> QED
        BY <1>2, <2>1, <4>1, OfTheViewerStays DEF ViewersMessage
    <3>2. CASE m.type \in {"viewer-joined", "viewer-left"}
      BY <3>2 DEF ViewersMessage
    <3>3. CASE Accepts /\ m = Answer(remote, conn)
      <4>1. conn = made /\ m.type = "answer" /\ m.by = conn
        BY <3>3, AtWork DEF Answer, Typed, ManagerInv
      <4> QED
        BY <2>1, <4>1 DEF ViewersMessage
    <3>4. CASE ViewerFinds /\ m = Candidate([from |-> "viewer", of |-> conn, n |-> found + 1])
      <4>1. conn = made /\ found' = found + 1 /\ found \in Nat
        BY <3>4, ViewerFindsSends DEF ViewerFinds, Typed, ManagerInv
      <4>2. m.type = "ice-candidate" /\ m.candidate.from = "viewer" /\ m.candidate.of = conn
            /\ m.candidate.n = found + 1
        BY <3>4 DEF Candidate
      <4> QED
        BY <2>1, <4>1, <4>2 DEF ViewersMessage, OfTheViewer
    <3> QED
      BY <3>1, <3>2, <3>3, <3>4, SharersMailComes
  <2>3. entry'.by # 0 => entry'.by = made
    BY EntryComes DEF FromTheViewer, ViewersMessage
  <2>4. ASSUME NEW c \in entry'.applied PROVE OfTheViewer(c)'
    <3>1. CASE c \in entry.applied
      BY <1>2, <3>1, HeldAre, OfTheViewerStays DEF FromTheViewer
    <3>2. ASSUME NEW m \in Range(toSharer), m.type = "ice-candidate", m.candidate = c PROVE OfTheViewer(c)'
      BY <1>2, <3>2, HeldAre, CandidateMail, OfTheViewerStays DEF FromTheViewer, ViewersMessage
    <3> QED
      BY <3>1, <3>2, EntryComes
  <2>5. ASSUME listening', conn' = 0 PROVE entry'.by = 0 /\ Unanswered(toSharer')
    <3>1. conn = 0 /\ entry.by = 0 /\ Unanswered(toSharer)
      <4>1. CASE Join
        <5>1. entry = NoEntry /\ toSharer = <<>> /\ ~listening
          BY <4>1, JoinsAfresh, JoinIs DEF Unsettled
        <5> QED
          BY <5>1, EmptyRange, NothingUnderWay DEF Unanswered, Typed, ManagerInv
      <4> QED
        BY <1>2, <2>5, <4>1, ViewerGoesOn DEF FromTheViewer
    <3>2. ~Accepts /\ ~ViewerFinds
      BY <3>1, AtWork
    <3> QED
      BY <3>1, <3>2, SharersMailComes, EntryComes DEF Unanswered
  <2> QED
    BY <2>1, <2>2, <2>3, <2>4, <2>5 DEF FromTheViewer
<1> QED
  BY <1>1, <1>2
-----------------------------------------------------------------------------
(***************************************************************************)
(* One offer for a stay.                                                   *)
(***************************************************************************)
LEMMA OneOfferGrows ==
  ASSUME NEW q \in Seq(ViewerMail), NEW x \in ViewerMail, OneOffer(q), x.type = "offer" => NoOffers(q)
  PROVE  OneOffer(Append(q, x))
<1> DEFINE r == Append(q, x)
<1>1. /\ Len(q) \in Nat /\ DOMAIN q = 1 .. Len(q) /\ DOMAIN r = 1 .. Len(q) + 1
      /\ r[Len(q) + 1] = x /\ \A k \in DOMAIN q : r[k] = q[k]
  BY QueueGrowsAt
<1> HIDE DEF r
<1>2. ASSUME NEW i \in DOMAIN r, NEW j \in DOMAIN r, r[i].type = "offer", r[j].type = "offer"
      PROVE  i = j
  <2>1. \A k \in DOMAIN r : k \in DOMAIN q \/ k = Len(q) + 1
    BY <1>1
  <2>2. CASE x.type = "offer"
    <3>1. \A k \in DOMAIN q : r[k].type # "offer"
      BY <1>1, <2>2 DEF NoOffers, Range
    <3> QED
      BY <1>2, <2>1, <3>1
  <2>3. CASE x.type # "offer"
    BY <1>1, <1>2, <2>1, <2>3 DEF OneOffer
  <2> QED
    BY <2>2, <2>3
<1> QED
  BY <1>2 DEF OneOffer, r

LEMMA OneOfferShrinks ==
  ASSUME NEW q \in Seq(ViewerMail), q # <<>>, OneOffer(q)
  PROVE  OneOffer(Tail(q)) /\ (Head(q).type = "offer" => NoOffers(Tail(q)))
<1> DEFINE r == Tail(q)
<1>1. /\ Len(q) \in Nat /\ DOMAIN q = 1 .. Len(q) /\ DOMAIN r = 1 .. Len(q) - 1
      /\ \A k \in DOMAIN r : k + 1 \in DOMAIN q /\ r[k] = q[k + 1] /\ k + 1 # 1 /\ k \in Int
      /\ Head(q) = q[1] /\ 1 \in DOMAIN q
  OBVIOUS
<1> HIDE DEF r
<1>2. ASSUME NEW i \in DOMAIN r, NEW j \in DOMAIN r, r[i].type = "offer", r[j].type = "offer"
      PROVE  i = j
  <2>1. i + 1 = j + 1
    BY <1>1, <1>2 DEF OneOffer
  <2> QED
    BY <1>1, <2>1
<1>3. ASSUME Head(q).type = "offer", NEW m \in Range(r), m.type = "offer" PROVE FALSE
  <2>1. PICK k \in DOMAIN r : r[k] = m
    BY <1>3 DEF Range
  <2> QED
    BY <1>1, <1>3, <2>1 DEF OneOffer
<1> QED
  BY <1>2, <1>3 DEF OneOffer, NoOffers, r

\* The viewer's queue is taken from or appended to.
LEMMA ViewersQueueIs ==
  ASSUME Typed, PLNext
  PROVE  \/ toViewer' = toViewer
         \/ toViewer # <<>> /\ toViewer' = Tail(toViewer)
         \/ \E x \in ViewerMail : toViewer' = Append(toViewer, x) /\ (x.type = "offer" => OfferReady)
<1>1. /\ Plain("error").type = "error" /\ Plain("room-ended").type = "room-ended"
      /\ Plain("error") \in ViewerMail /\ Plain("room-ended") \in ViewerMail
      /\ \A c : Candidate(c).type = "ice-candidate"
  BY MailIs DEF Plain, Candidate
<1>2. CASE Join \/ SharerStops \/ Leave
  BY <1>1, <1>2, JoinIs DEF SharerStops, Leave
<1>3. CASE Accepts \/ ViewerFinds
  <2>1. UNCHANGED toViewer \/ \E x \in SharerMail : ViewerSends(x)
    BY <1>3, AcceptsSends, ViewerFindsSends
  <2> QED
    BY <1>1, <2>1 DEF ViewerSends
<1>4. CASE ViewerHears
  BY <1>4, ViewerHearsIs
<1>5. CASE OfferReady
  BY <1>5, OfferReadySends DEF SharerSends
<1>6. CASE SharerFinds
  BY <1>1, <1>6, SharerFindsSends DEF SharerSends
<1>7. SharerHears \/ ConnectionFails \/ AnyPathChange \/ OfTheStatistics => UNCHANGED toViewer
  BY StreamStepsLeave DEF SharerHears, ConnectionFails, linkVars
<1> QED
  BY <1>2, <1>3, <1>4, <1>5, <1>6, <1>7, NextIs DEF AtTheSharer

LEMMA OneOfferStep ==
  ASSUME Typed, OfferInv, PLNext, Calm', listening'
  PROVE  OneOffer(toViewer')
<1>1. toViewer \in Seq(ViewerMail)
  BY DEF Typed, LinkTypes, Mail
<1>2. listening \/ (toViewer = <<>> /\ ~OfferReady)
  <2>1. CASE Join
    <3>1. toViewer = <<>> /\ entry = NoEntry
      BY <2>1, JoinsAfresh DEF Unsettled
    <3> QED
      BY <3>1, NothingUnderWay DEF OfferReady
  <2>2. CASE ~Join /\ conn' = 0
    <3>1. Takes => listening
      BY DEF Takes
    <3> QED
      BY <2>2, <3>1, ViewerGoesOn
  <2>3. CASE conn' # 0
    <3>1. Takes => listening
      BY DEF Takes
    <3>2. ~Takes => conn # 0
      BY <2>3, ViewerGoesOn
    <3> QED
      BY <3>1, <3>2, AtWork
  <2> QED
    BY <2>1, <2>2, <2>3
<1>3. OneOffer(toViewer)
  <2>1. toViewer = <<>> => OneOffer(toViewer)
    BY DEF OneOffer
  <2> QED
    BY <1>2, <2>1 DEF OfferInv
<1>4. ASSUME NEW x \in ViewerMail, toViewer' = Append(toViewer, x), x.type = "offer" => OfferReady
      PROVE  OneOffer(toViewer')
  <2>1. OfferReady => NoOffers(toViewer)
    BY <1>2 DEF OfferReady, OfferInv
  <2> QED
    BY <1>1, <1>3, <1>4, <2>1, OneOfferGrows
<1> QED
  BY <1>1, <1>3, <1>4, ViewersQueueIs, OneOfferShrinks

LEMMA OfferInvStep ==
  ASSUME Typed, StayInv, OfferInv, FromTheSharer, PLNext, Calm'
  PROVE  OfferInv'
<1>0. /\ Typed' /\ (conn' # 0 => listening')
      /\ \A c : Candidate(c).type = "ice-candidate"
  BY TypedStep DEF Typed, ManagerInv, Candidate
<1>1. listening' => OneOffer(toViewer')
  BY OneOfferStep
<1>2. ASSUME conn' # 0 PROVE NoOffers(toViewer')
  <2>1. CASE Takes
    <3>1. toViewer \in Seq(ViewerMail) /\ toViewer # <<>> /\ toViewer' = Tail(toViewer)
          /\ OneOffer(toViewer) /\ Head(toViewer).type = "offer"
      BY <2>1, ViewerHearsIs DEF Takes, Typed, LinkTypes, Mail, OfferInv
    <3> QED
      BY <3>1, OneOfferShrinks
  <2>2. CASE ~Takes
    <3>1. conn # 0 /\ NoOffers(toViewer)
      BY <1>2, <2>2, ViewerGoesOn DEF OfferInv
    <3>2. ~OfferReady
      BY <3>1 DEF OfferReady, OfferInv
    <3> QED
      BY <1>0, <1>2, <3>1, <3>2, ViewersMailComes DEF NoOffers
  <2> QED
    BY <2>1, <2>2
<1>3. ASSUME entry'.phase = "offering"
      PROVE  /\ entry'.by = 0 /\ conn' = 0 /\ Unanswered(toSharer')
             /\ listening' => NoOffers(toViewer')
  <2>1. CASE Welcomes
    <3>1. /\ entry'.by = 0 /\ conn' = conn /\ Untouched /\ toViewer' = toViewer /\ listening' = listening
          /\ \A m \in Range(toSharer') : m.type = "viewer-left"
      BY <2>1, WelcomeFindsNothing DEF negotiationVars, Plain
    <3>2. listening' => toViewer' = <<>>
      BY <3>1 DEF Untouched
    <3> QED
      BY <3>1, <3>2, EmptyRange DEF Untouched, Unanswered, NoOffers
  <2>2. CASE ~Welcomes
    <3>1. /\ entry.phase = "offering" /\ entry.by = 0 /\ conn = 0 /\ Unanswered(toSharer)
          /\ listening => NoOffers(toViewer)
      BY <1>3, <2>2, EntryComes DEF OfferInv
    <3>2. entry'.by = 0
      BY <3>1, EntryComes DEF Unanswered
    <3>3. ~Takes
      <4>1. Takes => listening /\ \E m \in Range(toViewer) : m.type = "offer"
        BY TakesIs
      <4> QED
        BY <3>1, <4>1 DEF NoOffers
    <3>4. conn' = 0
      BY <3>1, <3>3, ViewerGoesOn
    <3>5. Unanswered(toSharer')
      <4>1. ~Accepts /\ ~ViewerFinds
        BY <3>1, AtWork
      <4> QED
        BY <3>1, <4>1, SharersMailComes DEF Unanswered
    <3>6. ~OfferReady
      BY <1>3, <3>1, OfferReadySends
    <3>7. listening' => NoOffers(toViewer')
      BY <1>0, <3>1, <3>6, ViewersMailComes DEF NoOffers
    <3> QED
      BY <3>2, <3>4, <3>5, <3>7
  <2> QED
    BY <2>1, <2>2
<1>4. ASSUME NEW c \in Connections, accepting'[c].at # "nowhere" PROVE c = offers' /\ ~answered'
  <2>1. CASE Welcomes
    <3>1. accepting' = Idle
      BY <2>1, WelcomeFindsNothing DEF negotiationVars
    <3> QED
      BY <1>4, <3>1, NothingUnderWay
  <2>2. CASE ~Welcomes
    <3>1. offers' = offers
      BY <2>2, SharerGoesOn
    <3>2. CASE UNCHANGED <<accepting, answered>>
      BY <1>4, <3>1, <3>2 DEF OfferInv
    <3>3. ASSUME NEW d \in Connections, AtWorkOn(d) PROVE c = offers' /\ ~answered'
      <4>1. d = offers /\ ~answered
        BY <3>3, AcceptStepsLeave DEF OfferInv
      <4>2. c = d
        BY <1>4, <3>3, <4>1, AcceptingIs DEF OfferInv
      <4>3. ~SendAnswer(d)
        BY <1>4, <4>2, AcceptingIs, NothingUnderWay
      <4>4. ~answered'
        BY <3>3, <4>1, <4>3 DEF AtWorkOn, Described, Drain, Drained, AcceptFails
      <4> QED
        BY <3>1, <4>1, <4>2, <4>4
    <3>4. ASSUME NEW becomes, CleanUp(becomes) PROVE FALSE
      BY <1>4, <3>4, CleanUpSettles, NothingUnderWay
    <3>5. CASE Takes
      <4>1. PICK m \in Range(toViewer) : m.type = "offer" /\ m.conn \in Connections /\ TakeOffer(m.conn)
        BY <3>5, TakesIs
      <4>2. m.conn = offers
        BY <3>5, <4>1, TakesIs DEF FromTheSharer, SharersMessage
      <4>3. accepting[c].at = "nowhere"
        BY <3>5, TakesIs, NothingUnderWay DEF Typed, ManagerInv
      <4>4. c = m.conn
        BY <1>4, <4>1, <4>3, AcceptingIs
      <4>5. ~answered'
        BY <3>5, TakesIs
      <4> QED
        BY <3>1, <4>2, <4>4, <4>5
    <3>6. ViewerHears /\ ~Takes => \/ UNCHANGED <<accepting, answered>>
                                   \/ CleanUp("disconnected") \/ CleanUp("error")
      BY ViewerHearsIs DEF Takes, AddCandidate, negotiationVars
    <3>7. Join \/ ViewerFinds => UNCHANGED <<accepting, answered>>
      BY JoinIs DEF ViewerFinds, negotiationVars
    <3> QED
      BY <3>2, <3>3, <3>4, <3>5, <3>6, <3>7, NextIs, SharersStepsLeave, StreamStepsLeave
         DEF Accepts, Leave, negotiationVars
  <2> QED
    BY <2>1, <2>2
<1> QED
  BY <1>1, <1>2, <1>3, <1>4 DEF OfferInv
-----------------------------------------------------------------------------
(***************************************************************************)
(* No candidate of the sharer's is lost.                                   *)
(***************************************************************************)
LEMMA WaitsOrDrainsStep ==
  ASSUME Typed, OfferInv, WaitsOrDrains, PLNext
  PROVE  WaitsOrDrains'
<1>1. /\ pending \in Seq(Candidates) /\ ManagerInv
      /\ \A c, d \in Connections :
           accepting[c].at # "nowhere" /\ accepting[d].at # "nowhere" => c = d
  BY DEF Typed, ManagerTypes, CandidateTypes, OfferInv
<1>2. CASE UNCHANGED <<pending, accepting, applied, remote>>
  BY <1>2 DEF WaitsOrDrains
<1>3. ASSUME NEW c \in Connections, AtWorkOn(c) PROVE WaitsOrDrains'
  <2>1. /\ accepting[c].at # "nowhere" /\ accepting[c].todo \in Seq(Candidates)
        /\ \A d \in Connections : d # c => accepting'[d] = accepting[d]
        /\ \A d \in Connections : d # c => accepting[d].at = "nowhere"
    BY <1>1, <1>3, AcceptStepsLeave, AcceptingIs
  <2>2. CASE Described(c)
    <3>1. accepting'[c].at = "draining" /\ accepting'[c].todo = pending /\ pending' = pending
      BY <2>2, AcceptingIs DEF Described
    <3> QED
      BY <2>1, <3>1 DEF WaitsOrDrains
  <2>3. CASE Drain(c)
    <3>1. /\ accepting'[c].at = "draining" /\ accepting'[c].todo = Tail(accepting[c].todo)
          /\ pending' = pending /\ applied' = applied \union {Head(accepting[c].todo)}
          /\ accepting[c].at = "draining" /\ accepting[c].todo # <<>>
      BY <2>3, AcceptingIs DEF Drain
    <3>2. Range(accepting[c].todo) = Range(Tail(accepting[c].todo)) \union {Head(accepting[c].todo)}
      BY <2>1, <3>1, QueueShrinks
    <3> QED
      BY <2>1, <3>1, <3>2 DEF WaitsOrDrains
  <2>4. CASE Drained(c)
    <3>1. pending' = <<>> /\ Range(pending') = {}
      BY <2>4, EmptyRange DEF Drained
    <3> QED
      BY <3>1 DEF WaitsOrDrains
  <2>5. CASE SendAnswer(c) \/ AcceptFails(c)
    <3>1. accepting'[c].at = "nowhere" /\ accepting[c].at # "draining"
      BY <2>5, AcceptingIs, NothingUnderWay DEF SendAnswer, AcceptFails
    <3>2. UNCHANGED <<pending, applied, remote>>
      BY <2>5 DEF SendAnswer, AcceptFails
    <3> QED
      BY <2>1, <3>1, <3>2 DEF WaitsOrDrains
  <2> QED
    BY <1>3, <2>2, <2>3, <2>4, <2>5 DEF AtWorkOn
<1>4. ASSUME NEW becomes, CleanUp(becomes) PROVE WaitsOrDrains'
  BY <1>4, CleanUpSettles, NothingUnderWay, EmptyRange DEF WaitsOrDrains
<1>5. CASE Takes
  <2>1. remote' = 0 /\ accepting = Idle /\ UNCHANGED <<pending, applied>>
    BY <1>1, <1>5, TakesIs DEF ManagerInv
  <2>2. PICK m \in ViewerMail : m.conn \in Connections /\ TakeOffer(m.conn)
    BY <1>5, TakesIs
  <2>3. accepting' = [accepting EXCEPT ![m.conn] = [at |-> "describing", todo |-> <<>>]]
    BY <2>2 DEF TakeOffer
  <2>4. \A d \in Connections : accepting'[d].at # "draining"
    BY <2>1, <2>3 DEF Idle, Nowhere
  <2> QED
    BY <2>1, <2>4 DEF WaitsOrDrains
<1>6. ASSUME NEW x \in Candidates, AddCandidate(x) PROVE WaitsOrDrains'
  <2>1. CASE MustWait
    <3>1. remote' = 0 /\ \A d \in Connections : accepting'[d].at # "draining"
      BY <1>1, <1>6, <2>1 DEF AddCandidate, MustWait, ManagerInv
    <3> QED
      BY <3>1 DEF WaitsOrDrains
  <2>2. CASE ~MustWait
    BY <1>6, <2>2 DEF AddCandidate, WaitsOrDrains
  <2> QED
    BY <2>1, <2>2
<1>7. CASE ViewerHears
  <2>1. PICK m \in Range(toViewer) : m = Head(toViewer) /\ m \in ViewerMail
    BY <1>7, QueueShrinks DEF ViewerHears, Typed, LinkTypes, Mail
  <2>2. m.type = "ice-candidate" => m.candidate \in Candidates
    BY <2>1, CandidateMail
  <2> QED
    BY <1>2, <1>4, <1>5, <1>6, <1>7, <2>1, <2>2, ViewerHearsIs DEF Takes, negotiationVars
<1>8. Join \/ ViewerFinds => UNCHANGED <<pending, accepting, applied, remote>>
  BY JoinIs DEF ViewerFinds, negotiationVars
<1> QED
  BY <1>2, <1>3, <1>4, <1>7, <1>8, NextIs, SharersStepsLeave, StreamStepsLeave
     DEF Accepts, Leave, negotiationVars

LEMMA ReachesTheViewerStays ==
  ASSUME Typed, OfferInv, WaitsOrDrains, PLNext, listening, listening', NEW c \in Candidates,
         ReachesTheViewer(c)
  PROVE  ReachesTheViewer(c)'
<1>1. /\ pending \in Seq(Candidates)
      /\ toViewer \in Seq(ViewerMail) /\ Candidate(c).type = "ice-candidate" /\ Candidate(c).candidate = c
  BY DEF Typed, ManagerTypes, CandidateTypes, LinkTypes, Mail, Candidate
<1>2. ASSUME applied \union Range(pending) \subseteq applied' \union Range(pending'),
             Range(toViewer) \subseteq Range(toViewer')
      PROVE  ReachesTheViewer(c)'
  BY <1>2 DEF ReachesTheViewer
<1>3. CASE UNCHANGED <<pending, applied, toViewer>>
  BY <1>2, <1>3
<1>4. ASSUME NEW d \in Connections, AtWorkOn(d) PROVE ReachesTheViewer(c)'
  <2>1. CASE Described(d) \/ AcceptFails(d)
    BY <1>3, <2>1 DEF Described, AcceptFails, linkVars
  <2>2. CASE Drain(d)
    BY <1>2, <2>2 DEF Drain, linkVars
  <2>3. CASE Drained(d)
    <3>1. Range(pending) \subseteq applied
      BY <2>3, EmptyRange DEF Drained, WaitsOrDrains
    <3> QED
      BY <1>2, <2>3, <3>1 DEF Drained, linkVars
  <2>4. CASE SendAnswer(d)
    <3>1. PICK x \in SharerMail : ViewerSends(x)
      BY <2>4, SendAnswerSends
    <3>2. member => toViewer' = toViewer
      BY <3>1 DEF ViewerSends
    <3>3. Range(toViewer) \subseteq Range(toViewer')
      BY <3>1, <3>2, ViewerSendsRanges
    <3> QED
      BY <1>2, <2>4, <3>3 DEF SendAnswer
  <2> QED
    BY <1>4, <2>1, <2>2, <2>3, <2>4 DEF AtWorkOn
<1>5. CASE ViewerFinds
  <2>1. PICK x \in SharerMail : ViewerSends(x)
    BY <1>5, ViewerFindsSends
  <2>2. member => toViewer' = toViewer
    BY <2>1 DEF ViewerSends
  <2>3. Range(toViewer) \subseteq Range(toViewer')
    BY <2>1, <2>2, ViewerSendsRanges
  <2> QED
    BY <1>2, <1>5, <2>3 DEF ViewerFinds
<1>6. CASE OfferReady \/ SharerFinds
  <2>1. PICK x \in ViewerMail : SharerSends(x)
    BY <1>6, OfferReadySends, SharerFindsSends
  <2>2. Range(toViewer) \subseteq Range(toViewer')
    BY <2>1, SharerSendsRanges
  <2> QED
    BY <1>2, <1>6, <2>2 DEF OfferReady, SharerFinds, negotiationVars
<1>7. CASE SharerStops
  <2>1. Range(toViewer) \subseteq Range(toViewer')
    BY <1>1, <1>7, MailIs, QueueGrows DEF SharerStops
  <2> QED
    BY <1>2, <1>7, <2>1 DEF SharerStops, negotiationVars
<1>8. CASE ViewerHears
  <2>1. toViewer # <<>> /\ toViewer' = Tail(toViewer)
    BY <1>8 DEF ViewerHears
  <2>2. PICK m \in ViewerMail : m = Head(toViewer) /\ Range(toViewer) = Range(toViewer') \union {m}
    BY <1>1, <2>1, QueueShrinks
  <2>3. CASE m.type = "offer" /\ TakeOffer(m.conn)
    BY <1>1, <2>2, <2>3 DEF TakeOffer, ReachesTheViewer
  <2>4. CASE m.type = "ice-candidate" /\ AddCandidate(m.candidate)
    <3>1. m.candidate \in Candidates
      BY <2>2, <2>4, CandidateMail
    <3>2. Range(Append(pending, m.candidate)) = Range(pending) \union {m.candidate}
      BY <1>1, <3>1, QueueGrows
    <3>3. applied' \union Range(pending') = applied \union Range(pending) \union {m.candidate}
      BY <2>4, <3>2 DEF AddCandidate
    <3> QED
      BY <1>1, <2>2, <3>3 DEF ReachesTheViewer
  <2> QED
    BY <1>8, <2>2, <2>3, <2>4, ViewerHearsIs, CleanUpSettles
<1>9. SharerHears \/ ConnectionFails => UNCHANGED <<pending, applied, toViewer>>
  BY DEF SharerHears, ConnectionFails, linkVars, negotiationVars
<1>10. ~Join /\ ~Leave
  BY JoinIs, CleanUpSettles DEF Leave
<1> QED
  BY <1>3, <1>4, <1>5, <1>6, <1>7, <1>8, <1>9, <1>10, NextIs, StreamStepsLeave
     DEF Accepts, AtTheSharer, linkVars, negotiationVars

LEMMA SharersAccountedStep ==
  ASSUME Typed, StayInv, OfferInv, SharersAccounted, PLNext, Calm'
  PROVE  SharersAccounted'
<1>1. WaitsOrDrains'
  BY WaitsOrDrainsStep DEF SharersAccounted
<1>2. ASSUME listening', entry' # NoEntry, NEW n \in 1 .. entry'.found
      PROVE  ReachesTheViewer(SharersCandidate(n))'
  <2>1. ~Welcomes
    <3>1. Welcomes => entry'.found = 0
      BY WelcomeFindsNothing
    <3> QED
      BY <1>2, <3>1
  <2>2. offers' = offers /\ entry # NoEntry /\ entry.found \in Int
    BY <1>2, <2>1, SharerGoesOn
  <2>3. listening
    <3>1. ~Join
      BY <1>2, JoinsAfresh, JoinIs DEF Unsettled, sharerVars
    <3>2. ViewerHears \/ ViewerFinds \/ Leave => listening' = listening \/ ~listening'
      BY ViewerHearsIs, CleanUpSettles DEF Leave, ViewerFinds, TakeOffer, AddCandidate
    <3> QED
      BY <1>2, <3>1, <3>2, NextIs, SharersStepsLeave, StreamStepsLeave, ViewersStepsLeave
  <2>4. CASE n \in 1 .. entry.found
    <3>1. SharersCandidate(n) \in Candidates
      BY <2>2, <2>4, SentTypes, ConnectionsAre DEF SharersCandidate, Candidates, Typed, EntryInv
    <3>2. ReachesTheViewer(SharersCandidate(n))
      BY <2>2, <2>3, <2>4 DEF SharersAccounted
    <3>3. ASSUME NEW c, c = SharersCandidate(n) PROVE c = SharersCandidate(n)'
      BY <2>2, <3>3 DEF SharersCandidate
    <3> QED
      BY <1>2, <2>3, <3>1, <3>2, <3>3, ReachesTheViewerStays DEF SharersAccounted
  <2>5. CASE n \notin 1 .. entry.found
    <3>1. SharerFinds
      BY <1>2, <2>1, <2>5, SharerGoesOn
    <3>2. n = entry.found + 1
      <4>1. entry'.found = entry.found + 1 /\ entry.found \in Nat
        BY <3>1, SharerFindsSends DEF Typed, SharerTypes, Entries
      <4> QED
        BY <1>2, <2>5, <4>1
    <3>3. member
      BY <2>2, <2>3 DEF StayInv, Over
    <3>4. Candidate(SharersCandidate(n)) \in Range(toViewer')
      BY <3>1, <3>2, <3>3, SharerFindsSends, SharerSendsRanges DEF SharersCandidate
    <3> QED
      BY <2>2, <3>4 DEF ReachesTheViewer, SharersCandidate
  <2> QED
    BY <2>4, <2>5
<1> QED
  BY <1>1, <1>2 DEF SharersAccounted
-----------------------------------------------------------------------------
(***************************************************************************)
(* Nor one of the viewer's.                                                *)
(***************************************************************************)
LEMMA MishapsStay == PLNext => happened \subseteq happened'
<1>1. Accepts => happened \subseteq happened'
  BY DEF Accepts, AtWorkOn, Described, Drain, Drained, SendAnswer, AcceptFails, Befalls
<1>2. Join \/ Leave \/ ViewerHears \/ ViewerFinds => happened \subseteq happened'
  BY JoinIs DEF Leave, ViewerHears, ViewerFinds
<1>3. AtTheSharer => happened \subseteq happened'
  BY DEF AtTheSharer, SharerStops, OfferReady, SharerFinds, SharerHears, ConnectionFails, Befalls
<1>4. OfTheStatistics \/ AnyPathChange => happened \subseteq happened'
  BY DEF OfTheStatistics, AnyPathChange, PathChanges, Packet, PollStarts, PollReturns, PollFails, Befalls
<1> QED
  BY <1>1, <1>2, <1>3, <1>4, NextIs

LEMMA SparedBefore == PLNext => (Calm' => Calm) /\ (PollsAreOfNow' => PollsAreOfNow)
BY MishapsStay, Zenon DEF Spared, Calm, PollsAreOfNow

\* A sharer that hears has less mail than before.
LEMMA HearingShrinks ==
  ASSUME Typed, SharerHears
  PROVE  toSharer' # toSharer /\ \A x \in SharerMail : toSharer' # Append(toSharer, x)
<1>1. toSharer \in Seq(SharerMail) /\ toSharer # <<>> /\ toSharer' = Tail(toSharer)
  BY DEF SharerHears, Typed, LinkTypes, Mail
<1>2. Len(toSharer) \in Nat /\ Len(Tail(toSharer)) = Len(toSharer) - 1
  BY <1>1
<1>3. \A x \in SharerMail : Len(Append(toSharer, x)) = Len(toSharer) + 1
  BY <1>1
<1>4. Len(toSharer') < Len(toSharer)
  BY <1>1, <1>2
<1>5. \A x \in SharerMail : Len(Append(toSharer, x)) > Len(toSharer')
  BY <1>2, <1>3, <1>4
<1> QED
  BY <1>2, <1>4, <1>5

\* The sharer's mail stays until it is heard.
LEMMA SharersMailStays ==
  ASSUME Typed, PLNext, ~SharerStops, NEW m \in Range(toSharer)
  PROVE  m \in Range(toSharer') \/ (SharerHears /\ m = Head(toSharer))
<1>1. /\ toSharer \in Seq(SharerMail)
      /\ Plain("viewer-joined") \in SharerMail /\ Plain("viewer-left") \in SharerMail
  BY MailIs DEF Typed, LinkTypes, Mail
<1>2. CASE UNCHANGED toSharer
  BY <1>2
<1>3. ASSUME NEW x \in SharerMail, toSharer' = Append(toSharer, x) PROVE m \in Range(toSharer')
  BY <1>1, <1>3, QueueGrows
<1>4. CASE Join \/ Leave
  <2>1. PICK x \in {Plain("viewer-joined"), Plain("viewer-left")} :
          toSharer' = toSharer \/ toSharer' = Append(toSharer, x)
    BY <1>4, JoinIs DEF Leave
  <2> QED
    BY <1>1, <1>2, <1>3, <2>1
<1>5. CASE Accepts \/ ViewerFinds
  <2>1. UNCHANGED toSharer \/ \E x \in SharerMail : ViewerSends(x)
    BY <1>5, AcceptsSends, ViewerFindsSends
  <2> QED
    BY <1>2, <1>3, <2>1 DEF ViewerSends
<1>6. CASE SharerHears
  BY <1>1, <1>6, QueueShrinks DEF SharerHears
<1>7. OfferReady \/ SharerFinds \/ ViewerHears \/ ConnectionFails => UNCHANGED toSharer
  BY DEF OfferReady, SharerFinds, SharerSends, ViewerHears, ConnectionFails, linkVars
<1> QED
  BY <1>2, <1>4, <1>5, <1>6, <1>7, NextIs, StreamStepsLeave DEF AtTheSharer, linkVars

\* An entry that waits for its answer waited before, and has heard nothing but
\* candidates since.
Waiting == entry.phase \in {"offering", "offered"}
LEMMA WaitedBefore ==
  ASSUME Typed, OfferInv, PLNext, ~Welcomes, Waiting'
  PROVE  Waiting /\ (SharerHears => Head(toSharer).type = "ice-candidate") /\ ~SharerStops
<1>1. entry \in Entries /\ entry' # NoEntry
  BY NothingUnderWay DEF Typed, SharerTypes, Waiting
<1>2. CASE SharerHears
  <2>1. PICK m \in SharerMail :
          /\ m = Head(toSharer) /\ m \in Range(toSharer)
          /\ \/ Answers(m) \/ Adds(m) \/ Begins(m)
             \/ m.type \in {"answer", "viewer-left"} /\ entry' = NoEntry
             \/ m.type = "ice-candidate" /\ UNCHANGED <<entry, offers>>
             \/ m.type = "viewer-joined"
    BY <1>2, SharerHearsIs
  <2>2. m.type # "viewer-joined"
    BY <1>2, <2>1 DEF Welcomes
  <2>3. ~Answers(m)
    <3>1. entry.phase = "offering" => m.type # "answer"
      BY <2>1 DEF OfferInv, Unanswered
    <3>2. entry.phase = "offered" => ~Answers(m)
      BY <1>1, AnswersMakes DEF Waiting
    <3> QED
      BY <3>1, <3>2 DEF Answers
  <2>4. entry'.phase = entry.phase /\ m.type = "ice-candidate"
    <3>1. Adds(m) => entry'.phase = entry.phase /\ m.type = "ice-candidate"
      BY <1>1, AddsMakes DEF Adds
    <3> QED
      BY <1>1, <2>1, <2>2, <2>3, <3>1 DEF Begins
  <2>5. toSharer' # <<>> \/ ~SharerStops
    BY <1>1 DEF SharerStops
  <2> QED
    BY <1>1, <2>1, <2>4 DEF Waiting, SharerStops
<1>3. CASE ~SharerHears
  <2>1. ~SharerStops /\ ~ConnectionFails
    BY <1>1 DEF SharerStops, ConnectionFails
  <2>2. OfferReady => Waiting
    BY OfferReadySends DEF Waiting
  <2>3. SharerFinds => Waiting
    BY <1>1, SharerFindsSends DEF Waiting, Entries
  <2>4. UNCHANGED sharerVars => Waiting
    BY DEF Waiting, sharerVars
  <2> QED
    BY <1>3, <2>1, <2>2, <2>3, <2>4, NextIs, ViewersStepsLeave, StreamStepsLeave DEF AtTheSharer
<1> QED
  BY <1>2, <1>3

\* What the viewer sends while it has a stay gets on its way.
LEMMA ViewersStay ==
  ASSUME Typed, StayInv, PLNext, conn # 0, entry # NoEntry
  PROVE  member
BY AtWork DEF StayInv, Over

LEMMA AnswerIsOutStep ==
  ASSUME Typed, StayInv, OfferInv, AnswerIsOut, PLNext
  PROVE  AnswerIsOut'
<1> SUFFICES ASSUME answered', Waiting' PROVE \E m \in Range(toSharer') : m.type = "answer"
  BY DEF AnswerIsOut, Waiting
<1>1. ~Welcomes
  BY WelcomeFindsNothing DEF negotiationVars
<1>2. Waiting /\ entry # NoEntry
  BY <1>1, WaitedBefore, NothingUnderWay DEF Waiting
<1>3. ASSUME NEW c \in Connections, SendAnswer(c) PROVE \E m \in Range(toSharer') : m.type = "answer"
  <2>1. conn # 0 /\ member
    BY <1>2, <1>3, SendAnswerSends, ViewersStay
  <2>2. Answer(remote, conn) \in Range(toSharer')
    BY <1>3, <2>1, SendAnswerSends, ViewerSendsRanges
  <2> QED
    BY <2>2 DEF Answer
<1>4. CASE \A c \in Connections : ~SendAnswer(c)
  <2>1. answered
    <3>1. Takes => answered' = answered
      BY TakesIs
    <3>2. ViewerHears /\ ~Takes => answered' = answered \/ ~answered'
      BY ViewerHearsIs, CleanUpSettles DEF Takes, AddCandidate, negotiationVars
    <3>3. Join \/ Leave \/ ViewerFinds => answered' = answered \/ ~answered'
      BY JoinIs, CleanUpSettles DEF Leave, ViewerFinds, negotiationVars
    <3>4. Accepts => answered' = answered \/ ~answered'
      BY <1>4 DEF Accepts, AtWorkOn, Described, Drain, Drained, AcceptFails
    <3> QED
      BY <3>1, <3>2, <3>3, <3>4, NextIs, SharersStepsLeave, StreamStepsLeave DEF negotiationVars
  <2>2. PICK m \in Range(toSharer) : m.type = "answer"
    BY <1>2, <2>1 DEF AnswerIsOut, Waiting
  <2> QED
    BY <1>1, <2>2, WaitedBefore, SharersMailStays
<1> QED
  BY <1>3, <1>4

LEMMA BehindGrows ==
  ASSUME NEW q \in Seq(SharerMail), NEW x \in SharerMail, Behind(q),
         x.type = "ice-candidate" => \E m \in Range(q) : m.type = "answer"
  PROVE  Behind(Append(q, x))
<1> DEFINE r == Append(q, x)
<1>1. /\ Len(q) \in Nat /\ DOMAIN q = 1 .. Len(q) /\ DOMAIN r = 1 .. Len(q) + 1
      /\ r[Len(q) + 1] = x
      /\ \A k \in DOMAIN q : r[k] = q[k]
  BY QueueGrowsAt
<1> HIDE DEF r
<1>2. ASSUME NEW i \in DOMAIN r, r[i].type = "ice-candidate"
      PROVE  \E j \in DOMAIN r : j < i /\ r[j].type = "answer"
  <2>1. CASE i \in DOMAIN q
    <3>1. PICK j \in DOMAIN q : j < i /\ q[j].type = "answer"
      BY <1>1, <1>2, <2>1 DEF Behind
    <3> QED
      BY <1>1, <3>1
  <2>2. CASE i \notin DOMAIN q
    <3>1. i = Len(q) + 1
      BY <1>1, <2>2
    <3>2. PICK j \in DOMAIN q : q[j].type = "answer"
      BY <1>1, <1>2, <3>1 DEF Range
    <3> QED
      BY <1>1, <3>1, <3>2
  <2> QED
    BY <2>1, <2>2
<1> QED
  BY <1>2 DEF Behind, r

LEMMA BehindHead ==
  ASSUME NEW q \in Seq(SharerMail), q # <<>>, Behind(q)
  PROVE  Head(q).type # "ice-candidate"
<1>1. Head(q) = q[1] /\ 1 \in DOMAIN q /\ DOMAIN q = 1 .. Len(q) /\ Len(q) \in Nat
  OBVIOUS
<1>2. ~\E j \in DOMAIN q : j < 1
  BY <1>1
<1> QED
  BY <1>1, <1>2 DEF Behind

LEMMA BehindNone ==
  ASSUME NEW q, \A m \in Range(q) : m.type # "ice-candidate"
  PROVE  Behind(q)
BY DEF Behind, Range

LEMMA BehindAnswerStep ==
  ASSUME Typed, StayInv, OfferInv, AnswerIsOut, BehindAnswer, PLNext
  PROVE  BehindAnswer'
<1> SUFFICES ASSUME entry'.phase \notin {"answered", "none"} PROVE Behind(toSharer')
  BY DEF BehindAnswer
<1>1. toSharer \in Seq(SharerMail)
  BY DEF Typed, LinkTypes, Mail
<1>2. CASE Welcomes
  <2>1. Plain("viewer-left").type # "ice-candidate"
    BY DEF Plain
  <2> QED
    BY <1>2, <2>1, WelcomeFindsNothing, BehindNone
<1>3. Waiting'
  <2>1. entry' \in Entries
    BY TypesStep DEF SharerTypes
  <2> QED
    BY <2>1 DEF Waiting, Entries
<1>4. ASSUME ~Welcomes
      PROVE  /\ Waiting /\ (SharerHears => Head(toSharer).type = "ice-candidate") /\ ~SharerStops
             /\ Behind(toSharer)
  <2>1. Waiting /\ (SharerHears => Head(toSharer).type = "ice-candidate") /\ ~SharerStops
    BY <1>3, <1>4, WaitedBefore
  <2> QED
    BY <2>1 DEF BehindAnswer, Waiting
<1>5. ASSUME ~Welcomes PROVE ~SharerHears
  <2>1. SharerHears => toSharer # <<>>
    BY DEF SharerHears
  <2> QED
    BY <1>1, <1>4, <1>5, <2>1, BehindHead
<1>6. CASE UNCHANGED toSharer /\ ~Welcomes
  BY <1>4, <1>6
<1>7. ASSUME ~Welcomes, NEW x \in SharerMail, toSharer' = Append(toSharer, x),
             x.type = "ice-candidate" => \E m \in Range(toSharer) : m.type = "answer"
      PROVE  Behind(toSharer')
  BY <1>1, <1>4, <1>7, BehindGrows
<1>8. ASSUME NEW x \in SharerMail, toSharer' = toSharer \/ toSharer' = Append(toSharer, x) PROVE ~Welcomes
  BY <1>8, HearingShrinks DEF Welcomes
<1>9. CASE Join \/ Leave
  <2>1. PICK x \in {Plain("viewer-joined"), Plain("viewer-left")} :
          toSharer' = toSharer \/ toSharer' = Append(toSharer, x)
    BY <1>9, JoinIs DEF Leave
  <2>2. x \in SharerMail /\ x.type # "ice-candidate"
    <3>1. Plain("viewer-left").type = "viewer-left" /\ Plain("viewer-joined").type = "viewer-joined"
      BY DEF Plain
    <3> QED
      BY <2>1, <3>1, MailIs
  <2> QED
    BY <1>6, <1>7, <1>8, <1>9, <2>1, <2>2
<1>10. CASE Accepts
  <2>1. \/ UNCHANGED toSharer
        \/ \E x \in SharerMail : ViewerSends(x) /\ x.type # "ice-candidate"
    <3>1. Answer(remote, conn).type # "ice-candidate"
      BY DEF Answer
    <3> QED
      BY <1>10, <3>1, AcceptsSends
  <2>2. \E x \in SharerMail : /\ toSharer' = toSharer \/ toSharer' = Append(toSharer, x)
                              /\ x.type # "ice-candidate"
    <3>1. Plain("viewer-left").type # "ice-candidate"
      BY DEF Plain
    <3> QED
      BY <2>1, <3>1, MailIs DEF ViewerSends
  <2> QED
    BY <1>6, <1>7, <1>8, <2>2
<1>11. CASE ViewerFinds
  <2>1. PICK x \in SharerMail : ViewerSends(x)
    BY <1>11, ViewerFindsSends
  <2>2. answered
    BY <1>11 DEF ViewerFinds
  <2>3. \E m \in Range(toSharer) : m.type = "answer"
    BY <1>4, <1>8, <2>1, <2>2 DEF AnswerIsOut, Waiting, ViewerSends
  <2> QED
    BY <1>6, <1>7, <1>8, <1>11, <2>1, <2>3 DEF ViewerSends
<1>12. OfferReady \/ SharerFinds \/ ViewerHears \/ ConnectionFails => UNCHANGED toSharer
  BY DEF OfferReady, SharerFinds, SharerSends, ViewerHears, ConnectionFails, linkVars
<1> QED
  BY <1>2, <1>4, <1>5, <1>6, <1>9, <1>10, <1>11, <1>12, NextIs, StreamStepsLeave DEF AtTheSharer, linkVars

LEMMA ReachesTheSharerStays ==
  ASSUME Typed, BehindAnswer, PLNext, ~Welcomes, entry' # NoEntry,
         NEW c \in Candidates, ReachesTheSharer(c)
  PROVE  ReachesTheSharer(c)'
<1>1. entry \in Entries /\ entry # NoEntry
  BY SharerGoesOn DEF Typed, SharerTypes
<1>2. ~SharerStops /\ ~ConnectionFails
  BY DEF SharerStops, ConnectionFails
<1>3. CASE c \in entry.applied
  <2>1. CASE UNCHANGED sharerVars
    BY <1>3, <2>1 DEF sharerVars, ReachesTheSharer
  <2>2. CASE OfferReady
    BY <1>3, <2>2, OfferReadySends DEF ReachesTheSharer
  <2>3. CASE SharerFinds
    BY <1>1, <1>3, <2>3, SharerFindsSends DEF Entries, ReachesTheSharer
  <2>4. CASE SharerHears
    <3>1. PICK m \in SharerMail : m = Head(toSharer) /\ (Answers(m) \/ Adds(m) \/ Begins(m) \/ entry' = entry)
      BY <2>4, SharerHearsIs
    <3>2. ~Begins(m)
      BY <1>1 DEF Begins
    <3> QED
      BY <1>1, <1>3, <3>1, <3>2, AnswersMakes, AddsMakes DEF ReachesTheSharer
  <2> QED
    BY <1>2, <2>1, <2>2, <2>3, <2>4, NextIs, ViewersStepsLeave, StreamStepsLeave DEF AtTheSharer
<1>4. CASE Candidate(c) \in Range(toSharer) /\ SharerHears /\ Candidate(c) = Head(toSharer)
  <2>1. Head(toSharer).type = "ice-candidate" /\ Head(toSharer).candidate = c
    BY <1>4 DEF Candidate
  <2>2. toSharer \in Seq(SharerMail) /\ toSharer # <<>>
    BY <1>4 DEF SharerHears, Typed, LinkTypes, Mail
  <2>3. entry.phase = "answered"
    <3>1. entry.phase # "none"
      BY <1>1 DEF Typed, EntryInv
    <3> QED
      BY <2>1, <2>2, <3>1, BehindHead DEF BehindAnswer
  <2>4. entry.by # 0
    BY <2>3 DEF Typed, EntryInv
  <2>5. entry' = [entry EXCEPT !.applied = @ \union {c}]
    BY <1>4, <2>1, <2>4 DEF SharerHears
  <2> QED
    BY <1>1, <2>5 DEF Entries, ReachesTheSharer
<1> QED
  BY <1>2, <1>3, <1>4, SharersMailStays DEF ReachesTheSharer

LEMMA FoundIsAnswered ==
  ASSUME Typed, OfferInv, PLNext, AnsweredFirst
  PROVE  AnsweredFirst'
<1>1. found \in Nat
  BY ConnectionsAre DEF Typed, ManagerTypes, NumberTypes
<1>2. CASE UNCHANGED <<found, answered>>
  BY <1>2 DEF AnsweredFirst
<1>3. ASSUME NEW c \in Connections, AtWorkOn(c) PROVE AnsweredFirst'
  <2>1. found' = found /\ ~answered
    BY <1>3, AcceptStepsLeave DEF OfferInv
  <2> QED
    BY <2>1 DEF AnsweredFirst
<1>4. ASSUME NEW becomes, CleanUp(becomes) PROVE AnsweredFirst'
  BY <1>4, CleanUpSettles DEF AnsweredFirst
<1>5. CASE ViewerFinds
  BY <1>5 DEF ViewerFinds, AnsweredFirst
<1>6. CASE ViewerHears
  BY <1>2, <1>4, <1>6, ViewerHearsIs DEF TakeOffer, AddCandidate, negotiationVars
<1>7. CASE Leave
  BY <1>4, <1>7 DEF Leave
<1> QED
  BY <1>2, <1>3, <1>5, <1>6, <1>7, NextIs, JoinIs, SharersStepsLeave, StreamStepsLeave
     DEF Accepts, negotiationVars

LEMMA ViewersAccountedStep ==
  ASSUME Typed, StayInv, OfferInv, AnswerIsOut, ViewersAccounted, PLNext
  PROVE  ViewersAccounted'
<1>1. /\ AnsweredFirst
      /\ BehindAnswer
      /\ conn # 0 /\ entry # NoEntry =>
           \A n \in 1 .. found : ReachesTheSharer(ViewersCandidate(n))
  BY DEF ViewersAccounted
<1>2. AnsweredFirst'
  BY <1>1, FoundIsAnswered
<1>3. BehindAnswer'
  BY <1>1, BehindAnswerStep
<1>4. ASSUME conn' # 0, entry' # NoEntry, NEW n \in Nat \ {0}, n <= found'
      PROVE  ReachesTheSharer(ViewersCandidate(n))'
  <2>1. ~Welcomes
    <3>1. ASSUME Welcomes PROVE FALSE
      BY <1>4, <3>1, WelcomeFindsNothing DEF Untouched, negotiationVars
    <3> QED
      BY <3>1
  <2>2. ~Takes
    <3>1. Takes => found' = 0
      BY TakesIs
    <3> QED
      BY <1>4, <3>1
  <2>3. /\ made' = made /\ conn' = conn /\ conn # 0 /\ entry # NoEntry /\ conn = made /\ member
        /\ found \in Int
    <3>1. made' = made /\ conn' = conn /\ conn # 0 /\ found \in Int
      BY <1>4, <2>2, ViewerGoesOn
    <3>2. entry # NoEntry
      BY <1>4, <2>1, SharerGoesOn
    <3> QED
      BY <3>1, <3>2, ViewersStay DEF Typed, ManagerInv
  <2>4. CASE n <= found
    <3>1. ReachesTheSharer(ViewersCandidate(n))
      BY <1>1, <1>4, <2>3, <2>4
    <3>2. ViewersCandidate(n) \in Candidates
      <4>1. made \in Connections /\ found \in 0 .. MaxCandidates
        BY <2>3, SentTypes DEF Typed, ManagerTypes, NumberTypes
      <4>2. n \in 1 .. MaxCandidates
        BY <2>4, <4>1, ConnectionsAre
      <4> QED
        BY <4>1, <4>2 DEF ViewersCandidate, Candidates
    <3>3. ASSUME NEW c, c = ViewersCandidate(n) PROVE c = ViewersCandidate(n)'
      BY <2>3, <3>3 DEF ViewersCandidate
    <3> QED
      BY <1>1, <1>4, <2>1, <3>1, <3>2, <3>3, ReachesTheSharerStays
  <2>5. CASE n > found
    <3>1. ViewerFinds
      BY <1>4, <2>2, <2>3, <2>5, ViewerGoesOn
    <3>2. n = found + 1
      <4>1. found' = found + 1
        BY <3>1 DEF ViewerFinds
      <4> QED
        BY <1>4, <2>3, <2>5, <4>1
    <3>3. Candidate(ViewersCandidate(n)) \in Range(toSharer')
      BY <2>3, <3>1, <3>2, ViewerFindsSends, ViewerSendsRanges DEF ViewersCandidate
    <3> QED
      BY <2>3, <3>3 DEF ReachesTheSharer, ViewersCandidate
  <2> QED
    BY <1>4, <2>3, <2>4, <2>5
<1>5. found' \in Int
  BY TypesStep, ConnectionsAre DEF ManagerTypes, NumberTypes
<1>6. \A n \in 1 .. found' : n \in Nat \ {0} /\ n <= found'
  BY <1>5
<1> QED
  BY <1>2, <1>3, <1>4, <1>6 DEF ViewersAccounted
-----------------------------------------------------------------------------
(***************************************************************************)
(* What is shown.                                                          *)
(***************************************************************************)
LEMMA PoorIsShown ==
  ASSUME NEW loss \in Losses, loss # Unmeasured, NEW latency, NEW frames, NEW at
  PROVE  /\ 100 * loss.lost >= loss.total => Classify(latency, loss, frames, at) # "excellent"
         /\ 100 * loss.lost >= 3 * loss.total =>
              Classify(latency, loss, frames, at) \in {"poor", "reconnecting"}
<1>1. loss.lost \in Nat /\ loss.total \in Nat
  BY DEF Losses
<1>2. /\ 100 * loss.lost >= loss.total => LossRating(loss) \in {"good", "poor"}
      /\ 100 * loss.lost >= 3 * loss.total => LossRating(loss) = "poor"
  BY <1>1 DEF LossRating
<1>3. "poor" # Unmeasured /\ "good" # Unmeasured
  BY UnmeasuredAssumption DEF Ratings
<1> QED
  BY <1>2, <1>3 DEF Classify, WorstOf

LEMMA PollReturnsIs ==
  ASSUME Typed, PollReturns
  PROVE  /\ poll \in Connections /\ previous' = traffic[poll] /\ UNCHANGED <<traffic, conn>>
         /\ shown'.stats = TRUE /\ shown'.loss = LossOverInterval(previous, traffic[poll])
         /\ \E latency, frames, at : shown'.quality = Classify(latency, shown'.loss, frames, at)
         /\ PollsAreOfNow' => poll = conn
<1>1. poll \in Connections
  BY ConnectionsAre DEF PollReturns, Typed, StreamTypes
<1>2. PICK latency, frames \in OtherRatings :
        shown' = [quality |-> Classify(latency, LossOverInterval(previous, traffic[poll]), frames,
                                       IF poll = conn THEN path ELSE "closed"),
                  stats |-> TRUE, loss |-> LossOverInterval(previous, traffic[poll])]
  BY DEF PollReturns
<1>3. previous' = traffic[poll] /\ UNCHANGED <<traffic, conn>>
  BY DEF PollReturns, negotiationVars
<1>4. PollsAreOfNow' => poll = conn
  BY Zenon DEF PollReturns, Befalls, OnlyIf, Spared, PollsAreOfNow
<1>5. shown'.stats = TRUE /\ shown'.loss = LossOverInterval(previous, traffic[poll])
      /\ shown'.quality = Classify(latency, shown'.loss, frames, IF poll = conn THEN path ELSE "closed")
  BY <1>2
<1> QED
  BY <1>1, <1>3, <1>4, <1>5

LEMMA NothingIsShown ==
  NothingShown.loss = Unmeasured /\ NothingShown.stats = FALSE
BY DEF NothingShown

\* Only a poll that returns shows anything.
LEMMA ShownComes ==
  ASSUME PLNext
  PROVE  shown' = shown \/ shown' = NothingShown \/ PollReturns
<1>1. Leave \/ ViewerHears => shown' = shown \/ shown' = NothingShown
  BY ViewerHearsIs, CleanUpSettles DEF Leave, TakeOffer, AddCandidate
<1>2. Join \/ Accepts \/ ViewerFinds => UNCHANGED shown
  BY JoinIs DEF Accepts, AtWorkOn, Described, Drain, Drained, SendAnswer, AcceptFails, ViewerFinds, streamVars
<1>3. AtTheSharer => UNCHANGED shown
  BY DEF AtTheSharer, SharerStops, OfferReady, SharerFinds, SharerHears, ConnectionFails, streamVars
<1>4. AnyPathChange \/ Packet \/ PollStarts \/ PollFails => shown' = shown \/ shown' = NothingShown
  BY DEF AnyPathChange, PathChanges, Packet, PollStarts, PollFails
<1> QED
  BY <1>1, <1>2, <1>3, <1>4, NextIs DEF OfTheStatistics

\* An offer is taken with the connection there is or with a new one.
LEMMA TakesLeaves ==
  ASSUME Typed, Takes
  PROVE  /\ UNCHANGED <<shown, traffic>>
         /\ \/ UNCHANGED <<conn, previous>>
            \/ conn = 0 /\ conn' # 0 /\ previous' = NoPrevious
<1>1. TakeOffer(Head(toViewer).conn) /\ UNCHANGED traffic
  BY ViewerHearsIs DEF Takes, ViewerHears
<1>2. made + 1 # 0
  BY ConnectionsAre DEF Typed, ManagerTypes, NumberTypes
<1> QED
  BY <1>1, <1>2 DEF TakeOffer, PreviousAfterReset

LEMMA ShownStep == ASSUME Typed, ShownInv, PLNext PROVE ShownInv'
<1>1. CASE shown' = shown
  BY <1>1 DEF ShownInv, WordFitsTheNumbers
<1>2. CASE shown' = NothingShown
  BY <1>2, NothingIsShown DEF ShownInv, WordFitsTheNumbers
<1>3. CASE PollReturns
  <2>1. shown'.loss \in Losses \union {Unmeasured}
    BY <1>3, PollReturnsIs, LossIs DEF Typed
  <2>2. ASSUME shown'.loss # Unmeasured
        PROVE  /\ 100 * shown'.loss.lost >= shown'.loss.total => shown'.quality # "excellent"
               /\ 100 * shown'.loss.lost >= 3 * shown'.loss.total => shown'.quality \in {"poor", "reconnecting"}
    BY <1>3, <2>1, <2>2, PollReturnsIs, PoorIsShown
  <2> QED
    BY <2>1, <2>2 DEF ShownInv, WordFitsTheNumbers
<1> QED
  BY <1>1, <1>2, <1>3, ShownComes

LEMMA SampleStep == ASSUME Typed, ShownInv, SampleInv, PLNext PROVE SampleInv'
<1> SUFFICES ASSUME PollsAreOfNow'
             PROVE  /\ previous' # NoPrevious => conn' # 0 /\ previous'.delivered <= traffic'[conn'].delivered
                    /\ shown'.stats => conn' # 0
                    /\ shown'.stats /\ shown'.loss # Unmeasured =>
                         shown'.loss.lost <= shown'.loss.total
                         /\ shown'.loss.total <= traffic'[conn'].delivered + traffic'[conn'].lost
  BY DEF SampleInv
<1>1. /\ previous # NoPrevious => conn # 0 /\ previous.delivered <= traffic[conn].delivered
      /\ shown.stats => conn # 0
      /\ shown.stats /\ shown.loss # Unmeasured =>
           shown.loss.lost <= shown.loss.total
           /\ shown.loss.total <= traffic[conn].delivered + traffic[conn].lost
  BY SparedBefore DEF SampleInv
<1>2. CASE UNCHANGED <<previous, shown, traffic, conn>>
  BY <1>1, <1>2
<1>3. ASSUME NEW becomes, CleanUp(becomes)
      PROVE  previous' = NoPrevious /\ ~shown'.stats
  BY <1>3, CleanUpSettles, NothingIsShown
<1>4. CASE Takes
  BY <1>1, <1>4, TakesLeaves
<1>5. CASE ViewerHears /\ ~Takes
  <2>1. \/ UNCHANGED <<previous, shown, traffic, conn>>
        \/ previous' = NoPrevious /\ ~shown'.stats
    BY <1>3, <1>5, ViewerHearsIs DEF Takes, AddCandidate, negotiationVars
  <2> QED
    BY <1>2, <2>1
<1>6. CASE Packet
  <2>1. conn \in Connections
    BY <1>6, AtWork, ConnectionsAre DEF Typed, ManagerTypes, NumberTypes
  <2>2. traffic[conn] \in Counters(MaxPackets) /\ MaxPackets \in Nat
    BY <2>1, ConnectionsAre DEF Typed, StreamTypes
  <2>3. traffic[conn].delivered \in Nat /\ traffic[conn].lost \in Nat
    BY <2>2 DEF Counters
  <2>4. PICK n \in Arrivals, missing \in 0 .. MaxLost :
          /\ traffic[conn].lost <= n + missing
          /\ traffic' = [traffic EXCEPT ![conn] =
                          [delivered |-> traffic[conn].delivered + n, lost |-> missing]]
    BY <1>6 DEF Packet
  <2> DEFINE next == [delivered |-> traffic[conn].delivered + n, lost |-> missing]
  <2>5. traffic'[conn] = next
    BY <2>1, <2>4 DEF Typed, StreamTypes
  <2>6. /\ next.delivered \in Int /\ next.lost \in Int /\ next.delivered >= traffic[conn].delivered
        /\ next.delivered + next.lost >= traffic[conn].delivered + traffic[conn].lost
    <3>1. n \in Nat /\ missing \in Nat
      BY ConnectionsAre
    <3> QED
      BY <2>3, <2>4, <3>1
  <2>7. UNCHANGED <<previous, shown, conn>>
    BY <1>6 DEF Packet, negotiationVars
  <2> HIDE DEF next
  <2>8. previous.delivered \in Int
    BY ConnectionsAre, CountersAre DEF Typed, StreamTypes
  <2>9. shown.loss # Unmeasured => shown.loss.total \in Nat
    BY DEF ShownInv, Losses
  <2> QED
    BY <1>1, <2>3, <2>5, <2>6, <2>7, <2>8, <2>9
<1>7. CASE PollReturns
  <2>1. /\ poll = conn /\ conn \in Connections /\ conn # 0 /\ previous' = traffic[conn]
        /\ UNCHANGED <<traffic, conn>> /\ shown'.loss = LossOverInterval(previous, traffic[conn])
    BY <1>7, PollReturnsIs, ConnectionsAre
  <2>2. traffic[conn].delivered \in Int
    BY <2>1, ConnectionsAre DEF Typed, StreamTypes, Counters
  <2>3. shown'.loss # Unmeasured => /\ previous # NoPrevious
                                    /\ shown'.loss.total <= traffic[conn].delivered + traffic[conn].lost
                                    /\ (previous.delivered <= traffic[conn].delivered
                                          => shown'.loss.lost <= shown'.loss.total)
    BY <2>1, LossIs DEF Typed
  <2> QED
    BY <1>1, <2>1, <2>2, <2>3
<1>8. CASE PollFails
  BY <1>1, <1>8, NothingIsShown DEF PollFails, negotiationVars
<1>9. CASE Leave
  BY <1>3, <1>9 DEF Leave
<1>10. CASE AnyPathChange \/ PollStarts
  BY <1>2, <1>10 DEF AnyPathChange, PathChanges, PollStarts, negotiationVars
<1>11. Join \/ Accepts \/ ViewerFinds => UNCHANGED <<previous, shown, traffic, conn>>
  BY JoinIs DEF Accepts, AtWorkOn, Described, Drain, Drained, SendAnswer, AcceptFails, ViewerFinds, streamVars,
                negotiationVars
<1>12. AtTheSharer => UNCHANGED <<previous, shown, traffic, conn>>
  BY DEF AtTheSharer, SharerStops, OfferReady, SharerFinds, SharerHears, ConnectionFails, streamVars,
         negotiationVars
<1> QED
  BY <1>2, <1>4, <1>5, <1>6, <1>7, <1>8, <1>9, <1>10, <1>11, <1>12, NextIs DEF OfTheStatistics, Takes
-----------------------------------------------------------------------------
(***************************************************************************)
(* The invariant, and what follows from it.                                *)
(***************************************************************************)
PeerLinkInv == Typed /\ (Calm => LinkInv) /\ ShownInv /\ SampleInv

LEMMA PeerLinkInit == PLInit => PeerLinkInv
<1> SUFFICES ASSUME PLInit PROVE PeerLinkInv
  OBVIOUS
<1>1. /\ Range(toViewer) = {} /\ Range(toSharer) = {} /\ Held = {}
      /\ entry = NoEntry /\ accepting = Idle
  BY EmptyRange, NothingUnderWay DEF PLInit, Held, ToDo
<1>2. ManagerTypes
  <2>1. Idle \in [Connections -> Suspended] /\ <<>> \in Seq(Candidates)
    BY DEF Idle, Nowhere, Suspended
  <2>2. StateTypes /\ AcceptingTypes
    BY <2>1 DEF PLInit, StateTypes, AcceptingTypes
  <2>3. NumberTypes
    BY ConnectionsAre DEF PLInit, NumberTypes
  <2>4. CandidateTypes
    BY <2>1 DEF PLInit, CandidateTypes
  <2> QED
    BY <2>2, <2>3, <2>4 DEF ManagerTypes
<1>3. SharerTypes
  BY ConnectionsAre DEF PLInit, SharerTypes, NoEntry, Entries
<1>4. StreamTypes
  <2>1. [delivered |-> 0, lost |-> 0] \in Counters(MaxPackets)
    BY ConnectionsAre DEF Counters
  <2> QED
    BY <2>1, ConnectionsAre DEF PLInit, StreamTypes, PathStates, NothingShown, Qualities
<1>5. LinkTypes /\ happened \subseteq MishapKinds
  <2>1. <<>> \in Seq(ViewerMail) /\ <<>> \in Seq(SharerMail)
    OBVIOUS
  <2> QED
    BY <2>1 DEF PLInit, LinkTypes, Mail
<1>6. ManagerInv /\ EntryInv
  BY NothingUnderWay DEF PLInit, ManagerInv, EntryInv
<1>7. StayInv /\ OfferInv
  BY <1>1, NothingUnderWay DEF PLInit, StayInv, Announced, Over, OfferInv
<1>8. FromTheSharer /\ FromTheViewer
  BY <1>1, NothingUnderWay DEF PLInit, FromTheSharer, FromTheViewer
<1>9. SharersAccounted /\ AnswerIsOut
  BY <1>1, NothingUnderWay DEF PLInit, SharersAccounted, WaitsOrDrains, AnswerIsOut
<1>10. ViewersAccounted
  BY <1>1, NothingUnderWay DEF PLInit, ViewersAccounted, AnsweredFirst, BehindAnswer
<1>11. ShownInv /\ SampleInv
  BY NothingIsShown DEF PLInit, ShownInv, WordFitsTheNumbers, SampleInv
<1> QED
  BY <1>2, <1>3, <1>4, <1>5, <1>6, <1>7, <1>8, <1>9, <1>10, <1>11 DEF PeerLinkInv, Typed, LinkInv

LEMMA LinkStep ==
  ASSUME Typed, LinkInv, PLNext, Calm'
  PROVE  LinkInv'
<1>1. StayInv' /\ OfferInv' /\ FromTheSharer' /\ FromTheViewer'
  BY StayStep, OfferInvStep, FromTheSharerStep, FromTheViewerStep DEF LinkInv
<1>2. SharersAccounted' /\ AnswerIsOut' /\ ViewersAccounted'
  BY SharersAccountedStep, AnswerIsOutStep, ViewersAccountedStep DEF LinkInv
<1> QED
  BY <1>1, <1>2 DEF LinkInv

LEMMA LinkStutter ==
  ASSUME LinkInv, UNCHANGED peerVars
  PROVE  LinkInv'
<1>1. UNCHANGED <<listening, conn, made, remote, answered, found, accepting, pending, applied, member,
                  toViewer, toSharer, entry, offers>>
  BY DEF peerVars, negotiationVars, sharerVars, linkVars
<1>2. StayInv' /\ OfferInv'
  BY <1>1 DEF LinkInv, StayInv, Announced, Foremost, Untouched, Over, OfferInv, OneOffer, NoOffers, Unanswered
<1>3. FromTheSharer' /\ FromTheViewer'
  BY <1>1 DEF LinkInv, FromTheSharer, SharersMessage, OfTheSharer, Held, ToDo,
              FromTheViewer, ViewersMessage, OfTheViewer, Unanswered
<1>4. SharersAccounted'
  BY <1>1 DEF LinkInv, SharersAccounted, WaitsOrDrains, ReachesTheViewer, SharersCandidate
<1>5. AnswerIsOut' /\ ViewersAccounted'
  BY <1>1 DEF LinkInv, AnswerIsOut, ViewersAccounted, AnsweredFirst, BehindAnswer, Behind, ReachesTheSharer,
              ViewersCandidate
<1> QED
  BY <1>2, <1>3, <1>4, <1>5 DEF LinkInv

LEMMA PeerLinkStep == PeerLinkInv /\ [PLNext]_peerVars => PeerLinkInv'
<1>1. ASSUME PeerLinkInv, PLNext PROVE PeerLinkInv'
  <2>1. Calm' => LinkInv'
    BY <1>1, SparedBefore, LinkStep DEF PeerLinkInv
  <2> QED
    BY <1>1, <2>1, TypedStep, ShownStep, SampleStep DEF PeerLinkInv
<1>2. ASSUME PeerLinkInv, UNCHANGED peerVars PROVE PeerLinkInv'
  <2>1. Typed'
    BY <1>2, ManagerTypesKept, SharerTypesKept, StreamTypesKept, LinkTypesKept
       DEF PeerLinkInv, Typed, peerVars, managerVars, negotiationVars, sharerVars, linkVars, streamVars,
           ManagerInv, EntryInv
  <2>2. Calm' => LinkInv'
    <3>1. Calm' => Calm
      BY <1>2 DEF peerVars, Calm, Spared
    <3> QED
      BY <1>2, <3>1, LinkStutter DEF PeerLinkInv
  <2>3. ShownInv' /\ SampleInv'
    BY <1>2 DEF PeerLinkInv, peerVars, negotiationVars, streamVars, ShownInv, WordFitsTheNumbers, SampleInv,
                PollsAreOfNow, Spared
  <2> QED
    BY <2>1, <2>2, <2>3 DEF PeerLinkInv
<1> QED
  BY <1>1, <1>2

LEMMA PeerLinkInvHolds == PLSpec => []PeerLinkInv
BY PeerLinkInit, PeerLinkStep, PTL DEF PLSpec

(***************************************************************************)
(* Every variable keeps its type (the manager, the entry, the queues and   *)
(* the tracker of one viewer's connection).                                *)
(***************************************************************************)
THEOREM PLTypeCorrect == PLSpec => []PLTypeOK
<1>1. PeerLinkInv => PLTypeOK
  BY TypesByPart DEF PeerLinkInv, Typed, LinkTypes
<1> QED
  BY <1>1, PeerLinkInvHolds, PTL

(***************************************************************************)
(* No connection is given a candidate of another, or one before its        *)
(* description, whatever is lost, refused or overtaken, as long as no      *)
(* viewer was back before its departure was dealt with (#addCandidate,     *)
(* #acceptOffer, #cleanup).                                                *)
(***************************************************************************)
THEOREM NoCandidateStrays == PLSpec => []NoStrayCandidate
<1>1. ASSUME PeerLinkInv, Calm PROVE /\ \A c \in applied : c.of = remote
                                     /\ \A c \in entry.applied : c.of = entry.by
  <2>1. ASSUME NEW c \in applied PROVE c.of = remote
    <3>1. remote = offers
      BY <1>1 DEF PeerLinkInv, LinkInv, FromTheSharer, Typed, ManagerInv
    <3>2. c.of = offers
      BY <1>1 DEF PeerLinkInv, LinkInv, FromTheSharer, Held, OfTheSharer
    <3> QED
      BY <3>1, <3>2
  <2>2. ASSUME NEW c \in entry.applied PROVE c.of = entry.by
    <3>1. entry.by # 0
      BY <1>1 DEF PeerLinkInv, Typed, EntryInv
    <3> QED
      BY <1>1, <3>1 DEF PeerLinkInv, LinkInv, FromTheViewer, OfTheViewer
  <2> QED
    BY <2>1, <2>2
<1>2. PeerLinkInv => NoStrayCandidate
  BY <1>1, Zenon DEF NoStrayCandidate, Calm
<1> QED
  BY <1>2, PeerLinkInvHolds, PTL

\* What can be numbered from 1 to n without a gap or a repetition are n.
LEMMA AsManyAs ==
  ASSUME NEW n \in Nat, NEW S, NEW f \in [1 .. n -> S],
         \A i, j \in 1 .. n : f[i] = f[j] => i = j,
         \A x \in S : \E i \in 1 .. n : f[i] = x
  PROVE  Cardinality(S) = n
<1>1. f \in Bijection(1 .. n, S)
  BY DEF Bijection, Injection, Surjection, IsInjective
<1>2. IsFiniteSet(1 .. n) /\ Cardinality(1 .. n) = n
  BY FS_Interval
<1>3. ExistsBijection(1 .. n, S)
  BY <1>1 DEF ExistsBijection
<1>4. Cardinality(S) = Cardinality(1 .. n)
  BY <1>2, <1>3, FS_Bijection
<1> QED
  BY <1>2, <1>4

(***************************************************************************)
(* No candidate is lost: when nothing is under way, both ends of a         *)
(* connection have all that the other end found, as long as no viewer was  *)
(* back before its departure was dealt with (#acceptOffer, #addCandidate,  *)
(* handleIceCandidate).                                                    *)
(***************************************************************************)
THEOREM NoCandidateIsLost == PLSpec => []CandidatesArrive
<1>1. ASSUME PeerLinkInv, Calm, Matched, toViewer = <<>>, toSharer = <<>>, accepting = Idle
      PROVE  Cardinality(applied) = entry.found /\ Cardinality(entry.applied) = found
  <2>1. /\ Typed /\ remote # 0 /\ answered /\ entry.phase = "answered" /\ entry # NoEntry
        /\ conn # 0 /\ listening
    BY <1>1, SentTypes, AtWork, NothingUnderWay DEF PeerLinkInv, Matched
  <2>2. /\ Range(toViewer) = {} /\ Range(toSharer) = {} /\ entry.found \in Nat /\ found \in Nat
        /\ entry.applied \subseteq Candidates /\ applied \subseteq Candidates
    <3>1. Range(toViewer) = {} /\ Range(toSharer) = {}
      BY <1>1, EmptyRange
    <3>2. entry.found \in Nat /\ entry.applied \subseteq Candidates
      BY <2>1, ConnectionsAre DEF Typed, SharerTypes, Entries
    <3>3. found \in Nat /\ applied \subseteq Candidates
      BY <2>1, ConnectionsAre DEF Typed, ManagerTypes, NumberTypes, CandidateTypes
    <3> QED
      BY <3>1, <3>2, <3>3
  <2>3. Cardinality(applied) = entry.found
    <3> DEFINE f == [n \in 1 .. entry.found |-> SharersCandidate(n)]
    <3>1. Range(pending) = {}
      BY <1>1, <2>1, EmptyRange, NothingUnderWay DEF PeerLinkInv, LinkInv, SharersAccounted, WaitsOrDrains
    <3>2. \A n \in 1 .. entry.found : SharersCandidate(n) \in applied
      BY <1>1, <2>1, <2>2, <3>1 DEF PeerLinkInv, LinkInv, SharersAccounted, ReachesTheViewer
    <3>3. f \in [1 .. entry.found -> applied]
      BY <3>2
    <3>4. \A i, j \in 1 .. entry.found : f[i] = f[j] => i = j
      BY DEF SharersCandidate
    <3>5. ASSUME NEW c \in applied PROVE \E i \in 1 .. entry.found : f[i] = c
      <4>1. OfTheSharer(c) /\ c \in Candidates
        BY <1>1, <2>2 DEF PeerLinkInv, LinkInv, FromTheSharer, Held
      <4>2. c.n \in 1 .. entry.found
        BY <2>1, <2>2, <4>1, ConnectionsAre DEF OfTheSharer, Candidates
      <4>3. c = SharersCandidate(c.n)
        BY <4>1 DEF OfTheSharer, Candidates, SharersCandidate
      <4> QED
        BY <4>2, <4>3
    <3> HIDE DEF f
    <3> QED
      BY <2>2, <3>3, <3>4, <3>5, AsManyAs
  <2>4. Cardinality(entry.applied) = found
    <3> DEFINE f == [n \in 1 .. found |-> ViewersCandidate(n)]
    <3>1. \A n \in 1 .. found : ViewersCandidate(n) \in entry.applied
      BY <1>1, <2>1, <2>2 DEF PeerLinkInv, LinkInv, ViewersAccounted, ReachesTheSharer
    <3>2. f \in [1 .. found -> entry.applied]
      BY <3>1
    <3>3. \A i, j \in 1 .. found : f[i] = f[j] => i = j
      BY DEF ViewersCandidate
    <3>4. ASSUME NEW c \in entry.applied PROVE \E i \in 1 .. found : f[i] = c
      <4>1. OfTheViewer(c) /\ c \in Candidates
        BY <1>1, <2>2 DEF PeerLinkInv, LinkInv, FromTheViewer
      <4>2. c.n \in 1 .. found
        BY <2>1, <2>2, <4>1, ConnectionsAre DEF OfTheViewer, Candidates
      <4>3. c = ViewersCandidate(c.n)
        BY <4>1 DEF OfTheViewer, Candidates, ViewersCandidate
      <4> QED
        BY <4>2, <4>3
    <3> HIDE DEF f
    <3> QED
      BY <2>2, <3>2, <3>3, <3>4, AsManyAs
  <2> QED
    BY <2>3, <2>4
<1>2. PeerLinkInv => CandidatesArrive
  BY <1>1, Zenon DEF CandidatesArrive, Calm
<1> QED
  BY <1>2, PeerLinkInvHolds, PTL

(***************************************************************************)
(* The loss that is shown is a share of the packets of the connection      *)
(* there is (StatsTracker, its reset and pollQuality).                     *)
(***************************************************************************)
THEOREM LossIsOfNow == PLSpec => []LossIsOfThisConnection
<1>1. PeerLinkInv => LossIsOfThisConnection
  BY DEF PeerLinkInv, SampleInv, PollsAreOfNow, LossIsOfThisConnection
<1> QED
  BY <1>1, PeerLinkInvHolds, PTL

(***************************************************************************)
(* The word that is shown is no better than the loss beside it, at the     *)
(* first and at the second of its thresholds (classifyQuality).            *)
(***************************************************************************)
THEOREM WordFits == PLSpec => []WordFitsTheNumbers
<1>1. PeerLinkInv => WordFitsTheNumbers
  BY DEF PeerLinkInv, ShownInv
<1> QED
  BY <1>1, PeerLinkInvHolds, PTL
=============================================================================
