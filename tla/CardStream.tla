------------------------------ MODULE CardStream ------------------------------
(***************************************************************************)
(* CardProjection (src/src/card_projection.rs) at the end of a stream of    *)
(* card frames that may lose any of them: pending frames are dropped at     *)
(* overflow, card frames first.                                             *)
(*                                                                         *)
(* The daemon is external.  It creates cards, changes fields of them, and   *)
(* replays all it has between two markers, in one go and in order.  A value *)
(* of a field is a number that only grows.                                  *)
(***************************************************************************)
EXTENDS Subsequences, SequencesExt

CONSTANTS
  Ids,        \* ids of cards
  Fields,     \* fields of a card, next to its id and type
  NoId,       \* no id: a frame without, or with an empty one
  MaxValue,   \* bound on the values of a field
  MaxWire     \* bound on the frames under way

VARIABLES
  daemon,     \* the daemon's cards, oldest first
  wire,       \* frames under way
  cards,      \* cards of the projection, by id
  order,      \* ids in order of insertion
  replaying,
  lost,       \* a frame was lost since the last replay began
  beginLost   \* the begin of a replay was lost, since one arrived

projection == <<cards, order, replaying>>
cardVars == <<daemon, wire, projection, lost, beginLost>>

Values == [Fields -> 0..MaxValue]
Cards == [id : Ids, fields : Values]

(* A patch gives values to some fields.                                     *)
Patches == UNION {[F -> 0..MaxValue] : F \in SUBSET Fields}

Frame(type, id, patch) == [type |-> type, id |-> id, patch |-> patch]

TypeOK ==
  /\ daemon \in Seq(Cards)
  /\ \A i \in DOMAIN wire :
       /\ wire[i].type \in {"begin", "created", "updated", "end"}
       /\ wire[i].id \in Ids \cup {NoId}
       /\ wire[i].patch \in Patches
  /\ \A id \in DOMAIN cards : id \in Ids /\ cards[id] \in Values
  /\ order \in Seq(Ids)
  /\ DOMAIN cards = ToSet(order)
  /\ replaying \in BOOLEAN
  /\ lost \in BOOLEAN
  /\ beginLost \in BOOLEAN

NoCards == [id \in {} |-> <<>>]

Init ==
  /\ daemon = <<>>
  /\ wire = <<>>
  /\ cards = NoCards
  /\ order = <<>>
  /\ replaying = FALSE
  /\ lost = FALSE
  /\ beginLost = FALSE

-----------------------------------------------------------------------------
(* The projection, as a record, and what a frame does to it.                *)

With(f, id, value) == [x \in DOMAIN f \cup {id} |-> IF x = id THEN value ELSE f[x]]

ReplayBegin(p) == [cards |-> NoCards, order |-> <<>>, replaying |-> TRUE]

ReplayEnd(p) == [p EXCEPT !.replaying = FALSE]

Created(p, f) ==
  IF f.id = NoId THEN p
  ELSE [p EXCEPT !.cards = With(@, f.id, f.patch),
                 !.order = IF f.id \in DOMAIN p.cards THEN @
                           ELSE Append(@, f.id)]

(* Mutants of Updated: a patch replaces the fields; it creates the card.    *)
UpdatedWhole(p, f) ==
  IF f.id \notin DOMAIN p.cards THEN p
  ELSE [p EXCEPT !.cards = With(@, f.id, [k \in Fields |->
          IF k \in DOMAIN f.patch THEN f.patch[k] ELSE 0])]

UpdatedOrCreated(p, f) ==
  IF f.id = NoId THEN p
  ELSE IF f.id \in DOMAIN p.cards
    THEN [p EXCEPT !.cards = With(@, f.id, [k \in Fields |->
            IF k \in DOMAIN f.patch THEN f.patch[k] ELSE p.cards[f.id][k]])]
    ELSE Created(p, [f EXCEPT !.patch = [k \in Fields |->
            IF k \in DOMAIN f.patch THEN f.patch[k] ELSE 0]])

(* updated and finalized: a card that is not there is not created.          *)
Updated(p, f) ==
  IF f.id \notin DOMAIN p.cards THEN p
  ELSE [p EXCEPT !.cards = With(@, f.id, [k \in Fields |->
          IF k \in DOMAIN f.patch THEN f.patch[k] ELSE p.cards[f.id][k]])]

Apply(p, f) ==
  CASE f.type = "begin" -> ReplayBegin(p)
    [] f.type = "end" -> ReplayEnd(p)
    [] f.type = "created" -> Created(p, f)
    [] OTHER -> Updated(p, f)

Projection == [cards |-> cards, order |-> order, replaying |-> replaying]

(* The cards that are there, in the order of their ids.                     *)
snapshot(p) ==
  LET shown == Kept(p.order, {i \in DOMAIN p.order : p.order[i] \in DOMAIN p.cards})
  IN [i \in DOMAIN shown |-> [id |-> shown[i], fields |-> p.cards[shown[i]]]]

-----------------------------------------------------------------------------
(* The daemon.                                                              *)

Send(frames) ==
  /\ Len(wire) + Len(frames) <= MaxWire
  /\ wire' = wire \o frames
  /\ UNCHANGED <<projection, lost, beginLost>>

Create(id) ==
  /\ \A i \in DOMAIN daemon : daemon[i].id # id
  /\ LET fields == [k \in Fields |-> 0] IN
     /\ daemon' = Append(daemon, [id |-> id, fields |-> fields])
     /\ Send(<<Frame("created", id, fields)>>)

(* One frame per change; a frame without id changes no card.                *)
Change(i, k) ==
  /\ daemon[i].fields[k] < MaxValue
  /\ LET value == daemon[i].fields[k] + 1 IN
     /\ daemon' = [daemon EXCEPT ![i].fields[k] = value]
     /\ Send(<<Frame("updated", daemon[i].id, [x \in {k} |-> value])>>)

SendAnonymous(type) ==
  /\ Send(<<Frame(type, NoId, [k \in Fields |-> 0])>>)
  /\ UNCHANGED daemon

Replay ==
  /\ Send(<<Frame("begin", NoId, <<>>)>>
            \o [i \in DOMAIN daemon |->
                  Frame("created", daemon[i].id, daemon[i].fields)]
            \o <<Frame("end", NoId, <<>>)>>)
  /\ UNCHANGED daemon

(* The stream loses its oldest frame.                                       *)
Lose ==
  /\ wire # <<>>
  /\ wire' = Tail(wire)
  /\ lost' = TRUE
  /\ beginLost' = (beginLost \/ Head(wire).type = "begin")
  /\ UNCHANGED <<daemon, projection>>

apply ==
  /\ wire # <<>>
  /\ wire' = Tail(wire)
  /\ LET p == Apply(Projection, Head(wire)) IN
     /\ cards' = p.cards
     /\ order' = p.order
     /\ replaying' = p.replaying
  /\ lost' = (lost /\ Head(wire).type # "begin")
  /\ beginLost' = (beginLost /\ Head(wire).type # "begin")
  /\ UNCHANGED daemon

Next ==
  \/ \E id \in Ids : Create(id)
  \/ \E i \in DOMAIN daemon, k \in Fields : Change(i, k)
  \/ \E type \in {"created", "updated"} : SendAnonymous(type)
  \/ Replay
  \/ Lose
  \/ apply

Spec == Init /\ [][Next]_cardVars

-----------------------------------------------------------------------------
(* Properties.                                                              *)

(* A replay heals: if nothing was lost since the last replay began, the     *)
(* projection shows the daemon's cards, values and order included, once it  *)
(* has applied what is under way, whatever it lost or showed before.        *)
ReplayHeals ==
  ~lost =>
    LET p == FoldLeft(Apply, Projection, wire) IN
    snapshot(p) = daemon /\ ~p.replaying

(* Losses do not disorder: as long as no begin of a replay was lost, the    *)
(* cards shown are in the order of the daemon, each once.                   *)
Position(id) == CHOOSE i \in DOMAIN daemon : daemon[i].id = id

OrderKept ==
  ~beginLost =>
    \A i, j \in DOMAIN order :
      i < j => Position(order[i]) < Position(order[j])

=============================================================================
