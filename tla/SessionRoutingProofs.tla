------------------------ MODULE SessionRoutingProofs ------------------------
(***************************************************************************)
(* Proofs that the gateway keeps reports private, in order, once each and  *)
(* off unbound connections, whatever the capacities and the clients do,    *)
(* and that, when clients do not reuse order ids, the reports about an     *)
(* order reach the session that sent it.                                   *)
(*                                                                         *)
(* Invariants, each resting on the ones before it:                         *)
(*   Typed     the form of every variable;                                 *)
(*   Bound     a session is listed under its account, and an owner, a      *)
(*             claim, a connection to unbind and the session chosen for a  *)
(*             report agree with the accounts;                             *)
(*   Numbered  reports carry the number of an event already emitted, and   *)
(*             those not yet routed are filed nowhere;                     *)
(*   Filed     each client's reports are its account's, in order, and no   *)
(*             report is filed twice;                                      *)
(*   Homed     the owner of a live order is the connection it came from.   *)
(***************************************************************************)
EXTENDS SessionRouting, WellFoundedInduction, TLAPS

\* The form of an event not yet routed.
IsEvent(e) ==
  /\ e.keys \in Seq(OrderKeys)
  /\ \/ /\ e.type \in {"rejected", "accepted", "cancelled"}
        /\ Len(e.keys) = 1
     \/ /\ e.type = "replaced"
        /\ Len(e.keys) = 1
        /\ e.new_key \in OrderKeys
        /\ AccountOf(e.new_key) = AccountOf(e.keys[1])
     \/ /\ e.type = "trade"
        /\ Len(e.keys) = 2
        /\ e.keys[1] # e.keys[2]

IsIo(x) ==
  \/ x = Idle
  \/ x \in [step : {"claim", "submit"}, conn : Connections, cmd : Requests]
  \/ x \in [step : {"unbind"}, conn : Connections]

Waiter == [cmd : Requests, from : Connections]

ConnectionsTyped ==
  /\ account \in [Connections -> Accounts \cup {Nobody}]
  /\ closed \in [Connections -> BOOLEAN]
  /\ backlog \in [Connections -> Seq(ReportType)]
  /\ replies \in [Connections -> Seq(ReportType)]
  /\ outbound \in [Connections -> Seq(ReportType)]
  /\ received \in [Connections -> Seq(ReportType)]
  /\ pending \in [Accounts -> Seq(ReportType)]
  /\ \A c \in Connections : Len(outbound[c]) <= OutboundCapacity
  /\ \A a \in Accounts : Len(pending[a]) <= PendingCapacity

TablesTyped ==
  /\ sessions \in [Accounts -> Seq(Connections)]
  /\ DOMAIN owner \subseteq OrderKeys
  /\ owner \in [DOMAIN owner -> Connections]
  /\ IsIo(io)

ExchangeTyped ==
  /\ queue \in Seq(Waiter)
  /\ Len(queue) <= QueueCapacity
  /\ holds \subseteq OrderKeys
  /\ active \in {<< >>} \cup {<<k>> : k \in OrderKeys}
  /\ event = << >> \/ (event = <<event[1]>> /\ IsEvent(event[1]))
  /\ emitted \in Nat

\* route_event is at one of the event's reports, or past the last.
TurnTyped ==
  /\ target = << >> \/ (target = <<target[1]>> /\ target[1] \in Connections \cup {Nobody})
  /\ turn \in Nat \ {0}
  /\ event = << >> => MutexFree
  /\ event # << >> => turn <= Len(event[1].keys) + 1
  /\ target # << >> => Routing

Typed == ConnectionsTyped /\ TablesTyped /\ ExchangeTyped /\ TurnTyped

Listed(c) == c \in Range(sessions[account[c]])

SessionsBound ==
  \A a \in Accounts : \A j \in DOMAIN sessions[a] : account[sessions[a][j]] = a

OwnersBound == \A k \in DOMAIN owner : account[owner[k]] = AccountOf(k)

OpenListed == \A c \in Connections : account[c] # Nobody /\ ~closed[c] => Listed(c)

IoBound ==
  /\ io.step \in {"claim", "submit"} => account[io.conn] = AccountOf(io.cmd.key)
  /\ io.step = "unbind" => /\ account[io.conn] # Nobody /\ Listed(io.conn)
                            /\ closed[io.conn]

\* The session chosen for a report is of its account; if it has closed since,
\* its unbinding is waiting for sessions_mutex_.
TargetBound ==
  target # << >> /\ target[1] # Nobody =>
    /\ account[target[1]] = AccountOf(event[1].keys[turn])
    /\ closed[target[1]] => io.step = "unbind" /\ io.conn = target[1]

\* Sessions, owners and both threads agree with the accounts.
Bound == SessionsBound /\ OwnersBound /\ OpenListed /\ IoBound /\ TargetBound

\* Nothing is on its way to a connection that is not bound.
Unbound ==
  \A c \in Connections : account[c] = Nobody =>
    /\ received[c] = << >> /\ backlog[c] = << >>
    /\ replies[c] = << >> /\ outbound[c] = << >>

\* The gateway's own answers have no event number.
AnswersUnnumbered ==
  \A c \in Connections : \A i \in DOMAIN replies[c] : replies[c][i].n = 0

Places == Connections \cup Accounts

\* The reports filed under each place when the routing tables are to: on
\* their way to a connection, or retained for an account.
Files(to) ==
  [x \in Places |-> IF x \in Connections
                    THEN received[x] \o backlog[x] \o to.outbound[x]
                    ELSE to.pending[x]]

Holder == [x \in Places |-> IF x \in Connections THEN account[x] ELSE x]

IsPrivate(s, a) == \A i \in DOMAIN s : s[i].n > 0 => AccountOf(s[i].key) = a

InOrder(s) == \A i, j \in DOMAIN s : i < j /\ s[j].n > 0 => s[i].n <= s[j].n

NoRepeat(s) == \A i, j \in DOMAIN s : s[i].n > 0 /\ s[i] = s[j] => i = j

Apart(s, t) == \A i \in DOMAIN s, j \in DOMAIN t : s[i].n > 0 => s[i] # t[j]

UpTo(s, m) == \A i \in DOMAIN s : s[i].n <= m

Absent(r, s) == \A i \in DOMAIN s : s[i] # r

\* Each place holds its holder's reports, in order, and none is filed twice.
Filed(F, H) ==
  /\ \A x \in Places : IsPrivate(F[x], H[x]) /\ InOrder(F[x]) /\ NoRepeat(F[x])
  /\ \A x, y \in Places : x # y => Apart(F[x], F[y])

AllUpTo(F, m) == \A x \in Places : UpTo(F[x], m)

Nowhere(r, F) == \A x \in Places : Absent(r, F[x])

Here == [outbound |-> outbound, pending |-> pending]

\* The reports of the event that are still to be routed.
Unrouted ==
  IF event = << >> THEN {} ELSE {Report(event[1], j) : j \in turn .. Len(event[1].keys)}

\* No report is newer than the last event, and none is about to be routed.
Numbered ==
  /\ AllUpTo(Files(Here), emitted)
  /\ \A r \in Unrouted : Nowhere(r, Files(Here))
  /\ Unrouted # {} => emitted > 0

FilingInv == Unbound /\ AnswersUnnumbered /\ Filed(Files(Here), Holder) /\ Numbered

RoutingInv == Typed /\ Bound /\ FilingInv
-----------------------------------------------------------------------------
Asking == io.step \in {"claim", "submit"}

Named(cmd) == {cmd.key} \cup Introduces(cmd)

EventKeys ==
  IF event = << >> THEN {}
  ELSE Range(event[1].keys)
       \cup (IF event[1].type = "replaced" THEN {event[1].new_key} ELSE {})

Matched == holds \cup Range(active)

Live == Matched \cup EventKeys

\* What a waiting request introduces is known to nobody.
FreshAmong(cmd, asked, live) ==
  /\ Named(cmd) \subseteq asked
  /\ Introduces(cmd) \cap live = {}
  /\ cmd.type = "replace" => NewKey(cmd) # cmd.key

Fresh(cmd) == FreshAmong(cmd, used, Live)

\* An earlier request does not speak of what a later one introduces.
Before(cmd, later) == Introduces(later) \cap Named(cmd) = {}

FreshInv ==
  /\ Live \subseteq used /\ DOMAIN owner \subseteq used
  /\ \A i \in DOMAIN queue : Fresh(queue[i].cmd)
  /\ \A i, j \in DOMAIN queue : i < j => Before(queue[i].cmd, queue[j].cmd)
  /\ Asking => /\ Fresh(io.cmd)
               /\ \A i \in DOMAIN queue : Before(queue[i].cmd, io.cmd)

OwnedBy(k, c) == closed[c] \/ (k \in DOMAIN owner /\ owner[k] = c)

Homed(k) == k \in DOMAIN origin /\ origin[k] \in Connections /\ OwnedBy(k, origin[k])

\* A request for a new order is its sender's, from the claim on.
ClaimsInv ==
  /\ \A i \in DOMAIN queue :
       queue[i].cmd.type = "new" => OwnedBy(queue[i].cmd.key, queue[i].from)
  /\ io.step = "submit" /\ io.cmd.type = "new" => OwnedBy(io.cmd.key, io.conn)
  /\ io.step = "claim" /\ io.cmd.type = "new" => io.cmd.key \notin DOMAIN owner

\* What update_order_ownership is about to forget is not matched any more.
Forgettable(e) ==
  /\ e.type \in {"rejected", "cancelled"} => active = << >>
  /\ e.type \in {"cancelled", "replaced"} => e.keys[1] \notin Matched
  /\ e.type = "trade" => e.filled \cap Matched = {} /\ e.filled \subseteq Range(e.keys)

ForgetInv == event # << >> => Forgettable(event[1])

Renamed == IF event # << >> /\ event[1].type = "replaced" THEN {event[1].new_key} ELSE {}

\* An order is its sender's; one whose replacement has not been routed will be.
HomeInv ==
  /\ \A k \in Matched \ Renamed : Homed(k)
  /\ \A k \in Renamed : k \in DOMAIN origin /\ origin[k] = origin[event[1].keys[1]]
  /\ event # << >> /\ event[1].type # "rejected" =>
       \A k \in Range(event[1].keys) : Homed(k)

OwnershipInv == FreshInv /\ ClaimsInv /\ ForgetInv /\ HomeInv
-----------------------------------------------------------------------------
(***************************************************************************)
(* Keys, requests and the least element of a set of numbers.               *)
(***************************************************************************)
\* A key names an account.
LEMMA KeyAccount ==
  ASSUME NEW k \in OrderKeys
  PROVE  AccountOf(k) \in Accounts /\ AccountOf(k) # Nobody
  BY NobodyAssumption DEF OrderKeys, AccountOf

\* A request names a key, and a replacement stays within the account.
LEMMA RequestForm ==
  ASSUME NEW cmd \in Requests
  PROVE  /\ cmd.type \in {"new", "cancel", "replace"}
         /\ cmd.key \in OrderKeys
         /\ cmd.type = "replace" => /\ NewKey(cmd) \in OrderKeys
                                    /\ AccountOf(NewKey(cmd)) = AccountOf(cmd.key)
         /\ cmd.type = "new" => Introduces(cmd) = {cmd.key}
         /\ cmd.type = "cancel" => Introduces(cmd) = {}
         /\ cmd.type = "replace" => Introduces(cmd) = {NewKey(cmd)}
<1>1. cmd.type \in {"new", "cancel", "replace"} /\ cmd.key \in OrderKeys
  BY DEF Requests
<1>2. ASSUME cmd.type = "replace"
      PROVE  NewKey(cmd) \in OrderKeys /\ AccountOf(NewKey(cmd)) = AccountOf(cmd.key)
  <2>1. cmd.new_id \in ClientIds
    BY <1>2 DEF Requests
  <2> QED
    BY <1>1, <2>1, KeyAccount DEF NewKey, AccountOf, OrderKeys
<1> QED
  BY <1>1, <1>2 DEF Introduces

\* A set of numbers that is not empty has a least element.
LEMMA LeastElement ==
  ASSUME NEW S, S \subseteq Nat, S # {}
  PROVE  Min(S) \in S
<1>1. PICK x \in S : \A y \in S : ~(<<y, x>> \in OpToRel(<, Nat))
  BY NatLessThanWellFounded, WFMin
<1>2. \A y \in S : x <= y
  <2> TAKE y \in S
  <2>1. ~(y < x)
    BY <1>1 DEF OpToRel
  <2> QED
    BY <2>1
<1> QED
  BY <1>2 DEF Min

\* std::remove on the session list: the rest stays.
LEMMA RemovedFrom ==
  ASSUME NEW S, NEW s \in Seq(S), NEW p \in 1 .. Len(s)
  PROVE  /\ RemoveAt(s, p) \in Seq(S)
         /\ \A j \in DOMAIN RemoveAt(s, p) : RemoveAt(s, p)[j] \in Range(s)
         /\ \A x \in Range(s) : x # s[p] => x \in Range(RemoveAt(s, p))
<1> DEFINE before == SubSeq(s, 1, p - 1)
           after == SubSeq(s, p + 1, Len(s))
<1>1. /\ before \in Seq(S) /\ Len(before) = p - 1
      /\ \A j \in 1 .. p - 1 : before[j] = s[j]
  OBVIOUS
<1>2. /\ after \in Seq(S) /\ Len(after) = Len(s) - p
      /\ \A j \in 1 .. Len(s) - p : after[j] = s[p + j]
  OBVIOUS
<1>3. PICK r : r = RemoveAt(s, p)
  OBVIOUS
<1>4. r = before \o after
  BY <1>3 DEF RemoveAt
<1> HIDE DEF before, after
<1>5. r \in Seq(S) /\ Len(r) = Len(s) - 1
  BY <1>1, <1>2, <1>4
<1>6. \A j \in 1 .. Len(r) : r[j] = IF j < p THEN s[j] ELSE s[j + 1]
  <2> TAKE j \in 1 .. Len(r)
  <2>1. CASE j < p
    BY <1>1, <1>2, <1>4, <1>5, <2>1
  <2>2. CASE ~(j < p)
    <3>1. r[j] = after[j - (p - 1)] /\ j - (p - 1) \in 1 .. Len(s) - p
      BY <1>1, <1>2, <1>4, <1>5, <2>2
    <3> QED
      BY <1>2, <2>2, <3>1
  <2> QED
    BY <2>1, <2>2
<1>7. \A j \in DOMAIN r : r[j] \in Range(s)
  <2> TAKE j \in DOMAIN r
  <2>1. j \in 1 .. Len(r) /\ j \in 1 .. Len(s) /\ j + 1 \in 1 .. Len(s)
    BY <1>5
  <2>2. r[j] = s[j] \/ r[j] = s[j + 1]
    BY <1>6, <2>1
  <2> QED
    BY <2>1, <2>2 DEF Range
<1>8. ASSUME NEW x \in Range(s), x # s[p]
      PROVE  x \in Range(r)
  <2>1. PICK i \in 1 .. Len(s) : s[i] = x
    BY DEF Range
  <2>2. PICK j \in 1 .. Len(r) : r[j] = x
    <3>1. CASE i < p
      BY <1>5, <1>6, <1>8, <2>1, <3>1
    <3>2. CASE i > p
      <4>1. i - 1 \in 1 .. Len(r) /\ ~(i - 1 < p)
        BY <1>5, <3>2
      <4>2. r[i - 1] = s[i - 1 + 1] /\ i - 1 + 1 = i
        BY <1>6, <4>1
      <4> QED
        BY <2>1, <4>1, <4>2
    <3> QED
      BY <1>8, <2>1, <3>1, <3>2
  <2> QED
    BY <1>5, <2>2 DEF Range
<1> QED
  BY <1>3, <1>5, <1>7, <1>8
-----------------------------------------------------------------------------
(***************************************************************************)
(* Routing one report.                                                     *)
(***************************************************************************)
\* A report has a target only among the open sessions of its account.
LEMMA TargetFits ==
  ASSUME Typed, Bound, NEW k \in OrderKeys, Target(k) # Nobody
  PROVE  /\ Target(k) \in Connections
         /\ closed[Target(k)] = FALSE
         /\ account[Target(k)] = AccountOf(k)
<1> USE DEF Typed, TablesTyped, ConnectionsTyped
<1>1. CASE HasOpenOwner(k)
  <2>1. Target(k) = owner[k]
    BY <1>1 DEF Target
  <2> QED
    BY <1>1, <2>1 DEF HasOpenOwner, Bound, OwnersBound
<1>2. CASE ~HasOpenOwner(k)
  <2> DEFINE a == AccountOf(k)
             j == Min(OpenAt(a))
  <2>1. a \in Accounts
    BY KeyAccount
  <2>2. OpenAt(a) # {} /\ Target(k) = FirstOpen(a)
    BY <1>2 DEF Target
  <2>3. sessions[a] \in Seq(Connections)
    BY <2>1
  <2>4. OpenAt(a) \subseteq Nat
    BY SMTT(40), <2>3 DEF OpenAt
  <2>5. j \in OpenAt(a)
    BY <2>2, <2>4, LeastElement
  <2>6. j \in DOMAIN sessions[a] /\ ~closed[sessions[a][j]] /\ Target(k) = sessions[a][j]
    BY <2>2, <2>5 DEF OpenAt, FirstOpen
  <2>7. account[sessions[a][j]] = a
    BY <2>1, <2>6 DEF Bound, SessionsBound
  <2> HIDE DEF j
  <2>8. sessions[a][j] \in Connections
    BY <2>3, <2>6
  <2> QED
    BY <2>6, <2>7, <2>8
<1> QED
  BY <1>1, <1>2

\* An owner that is connected is the target.
LEMMA OwnerIsTarget ==
  ASSUME NEW k, k \in DOMAIN owner, ~closed[owner[k]]
  PROVE  Target(k) = owner[k]
  BY DEF Target, HasOpenOwner

\* The two tables a report may go to.
Tables == [outbound : [Connections -> Seq(ReportType)], pending : [Accounts -> Seq(ReportType)]]

WithinCapacity(to) ==
  /\ \A c \in Connections : Len(to.outbound[c]) <= OutboundCapacity
  /\ \A a \in Accounts : Len(to.pending[a]) <= PendingCapacity

\* What happens to a report: it joins the queue of its target or is dropped
\* there, or it is retained, perhaps at the expense of the oldest.
Delivered(to, new, r) ==
  LET c == target[1] IN
  /\ c \in Connections /\ account[c] = AccountOf(r.key)
  /\ new.pending = to.pending
  /\ new.outbound = [to.outbound EXCEPT ![c] = Append(@, r)]

Kept(to, new, r) ==
  LET a == AccountOf(r.key) IN
  /\ new.outbound = to.outbound
  /\ \/ new.pending = [to.pending EXCEPT ![a] = Append(@, r)]
     \/ /\ to.pending[a] # << >>
        /\ new.pending = [to.pending EXCEPT ![a] = Append(Tail(@), r)]

RoutedTo(to, new, r) == new = to \/ Delivered(to, new, r) \/ Kept(to, new, r)

\* route_event stands where it stood.
LEMMA TurnKept ==
  ASSUME TurnTyped, UNCHANGED <<event, turn, target>>
  PROVE  TurnTyped'
  BY DEF TurnTyped, MutexFree, Routing

\* It starts with the first report of an event.
LEMMA TurnStarts ==
  ASSUME TurnTyped, event = << >>, UNCHANGED <<turn, target>>,
         event' # << >> => IsEvent(event'[1])
  PROVE  TurnTyped'
<1>1. MutexFree /\ turn' = 1 /\ target' = << >>
  BY DEF TurnTyped, MutexFree
<1>2. event' # << >> => Len(event'[1].keys) \in Nat
  BY DEF IsEvent
<1> QED
  BY <1>1, <1>2 DEF TurnTyped, MutexFree

\* The chosen session is as good as it was.
LEMMA TargetKept ==
  ASSUME TargetBound, UNCHANGED <<account, event, turn, target>>,
         target # << >> /\ target[1] # Nobody /\ closed'[target[1]]
           => io'.step = "unbind" /\ io'.conn = target[1]
  PROVE  TargetBound'
  BY DEF TargetBound

\* An I/O thread that is not unbinding has closed no chosen session.
LEMMA TargetOpen ==
  ASSUME TargetBound, io.step # "unbind", closed' = closed,
         UNCHANGED <<account, event, turn, target>>
  PROVE  TargetBound'
  BY DEF TargetBound
-----------------------------------------------------------------------------
(***************************************************************************)
(* Typed: the form of every variable.                                      *)
(***************************************************************************)
\* Nothing is bound, queued or retained at first.
LEMMA InitTyped == RoutingInit => Typed
<1> SUFFICES ASSUME RoutingInit PROVE Typed
  OBVIOUS
<1> USE DEF RoutingInit
<1>1. ConnectionsTyped
  BY CapacityAssumption DEF ConnectionsTyped
<1>2. TablesTyped
  BY DEF TablesTyped, NoMap, IsIo
<1>3. ExchangeTyped
  BY CapacityAssumption DEF ExchangeTyped
<1>4. TurnTyped
  BY DEF TurnTyped, MutexFree
<1> QED
  BY <1>1, <1>2, <1>3, <1>4 DEF Typed

\* The reading of a request.
LEMMA ReadTyped ==
  ASSUME Typed, NEW c \in Connections, NEW cmd \in Requests,
         BindSession(c, cmd) \/ ReadBound(c, cmd) \/ RejectAccountMismatch(c, cmd)
  PROVE  Typed'
<1> USE DEF Typed, Read
<1>0. cmd.key \in OrderKeys /\ AccountOf(cmd.key) \in Accounts
  BY RequestForm, KeyAccount
<1>00. TurnTyped'
  <2>1. UNCHANGED <<event, turn, target>>
    BY DEF BindSession, ReadBound, RejectAccountMismatch, exchange, routing
  <2> QED
    BY <2>1, TurnKept
<1>1. CASE BindSession(c, cmd)
  <2> USE <1>1 DEF BindSession
  <2>1. ConnectionsTyped'
    BY <1>0, CapacityAssumption DEF ConnectionsTyped
  <2>2. TablesTyped'
    BY <1>0 DEF TablesTyped, IsIo
  <2>3. ExchangeTyped'
    BY DEF ExchangeTyped, exchange
  <2> QED
    BY <1>00, <2>1, <2>2, <2>3
<1>2. CASE ReadBound(c, cmd)
  <2> USE <1>2 DEF ReadBound
  <2>1. ConnectionsTyped'
    BY DEF ConnectionsTyped, connVars, tables
  <2>2. TablesTyped'
    BY DEF TablesTyped, IsIo, tables
  <2>3. ExchangeTyped'
    BY DEF ExchangeTyped, exchange
  <2> QED
    BY <1>00, <2>1, <2>2, <2>3
<1>3. CASE RejectAccountMismatch(c, cmd)
  <2> USE <1>3 DEF RejectAccountMismatch
  <2>1. [key |-> cmd.key, n |-> 0] \in ReportType
    BY <1>0 DEF ReportType
  <2>2. ConnectionsTyped'
    BY <2>1 DEF ConnectionsTyped, tables
  <2>3. TablesTyped'
    BY DEF TablesTyped, tables
  <2>4. ExchangeTyped'
    BY DEF ExchangeTyped, exchange
  <2> QED
    BY <1>00, <2>2, <2>3, <2>4
<1> QED
  BY <1>1, <1>2, <1>3

\* The tables after a request was claimed, submitted or a session unbound.
LEMMA IoTyped ==
  ASSUME Typed, Bound, ClaimOwnership \/ SubmitCommand \/ UnbindSession
  PROVE  Typed'
<1> USE DEF Typed
<1>0. TurnTyped'
  <2>1. UNCHANGED <<event, turn, target>>
    BY DEF ClaimOwnership, SubmitCommand, UnbindSession, exchange, routing
  <2> QED
    BY <2>1, TurnKept
<1>1. CASE ClaimOwnership
  <2> USE <1>1 DEF ClaimOwnership
  <2>1. /\ io \in [step : {"claim", "submit"}, conn : Connections, cmd : Requests]
        /\ io' = [io EXCEPT !.step = "submit"]
    BY DEF TablesTyped, IsIo, Idle
  <2>2. io.cmd.key \in OrderKeys /\ io.conn \in Connections
    BY <2>1, RequestForm
  <2>3. IsIo(io')
    BY <2>1 DEF IsIo
  <2>4. DOMAIN owner' \subseteq OrderKeys /\ owner' \in [DOMAIN owner' -> Connections]
    BY <2>2 DEF TablesTyped, TryEmplace, InsertOrAssign
  <2>5. TablesTyped'
    BY <2>3, <2>4 DEF TablesTyped
  <2>6. ConnectionsTyped' /\ ExchangeTyped'
    BY DEF ConnectionsTyped, ExchangeTyped, connVars, exchange
  <2> QED
    BY <1>0, <2>5, <2>6
<1>2. CASE SubmitCommand
  <2> USE <1>2 DEF SubmitCommand
  <2>1. io \in [step : {"claim", "submit"}, conn : Connections, cmd : Requests]
    BY DEF TablesTyped, IsIo, Idle
  <2>2. [cmd |-> io.cmd, from |-> io.conn] \in Waiter
    BY <2>1 DEF Waiter
  <2>3. ExchangeTyped'
    BY <2>2, CapacityAssumption DEF ExchangeTyped
  <2>4. ConnectionsTyped' /\ TablesTyped'
    BY DEF ConnectionsTyped, TablesTyped, IsIo, connVars, tables
  <2> QED
    BY <1>0, <2>3, <2>4
<1>3. CASE UnbindSession
  <2> USE <1>3 DEF UnbindSession
  <2> DEFINE a == account[io.conn]
             p == PositionOf(io.conn, sessions[a])
  <2>1. io \in [step : {"unbind"}, conn : Connections]
    BY DEF TablesTyped, IsIo, Idle
  <2>2. a \in Accounts /\ io.conn \in Range(sessions[a])
    BY <2>1 DEF Bound, IoBound, Listed, ConnectionsTyped
  <2>3. sessions[a] \in Seq(Connections)
    BY <2>2 DEF TablesTyped
  <2>4. p \in 1 .. Len(sessions[a])
    BY <2>2, <2>3 DEF PositionOf, Range
  <2>5. sessions' = [sessions EXCEPT ![a] = RemoveAt(sessions[a], p)]
    OBVIOUS
  <2> HIDE DEF a, p
  <2>6. RemoveAt(sessions[a], p) \in Seq(Connections)
    BY <2>3, <2>4, RemovedFrom
  <2>7. sessions' \in [Accounts -> Seq(Connections)]
    BY <2>2, <2>5, <2>6 DEF TablesTyped
  <2>8. DOMAIN owner' \subseteq OrderKeys /\ owner' \in [DOMAIN owner' -> Connections]
    BY DEF TablesTyped, Restrict, OwnedByOthers
  <2>9. TablesTyped'
    BY <2>7, <2>8 DEF TablesTyped, IsIo
  <2>10. ConnectionsTyped' /\ ExchangeTyped'
    BY DEF ConnectionsTyped, ExchangeTyped, connVars, exchange
  <2> QED
    BY <1>0, <2>9, <2>10
<1> QED
  BY <1>1, <1>2, <1>3

\* Where handle_write takes its next message from.
PopsFrom(q, c) ==
  /\ q[c] # << >>
  /\ received' = [received EXCEPT ![c] = Append(@, Head(q[c]))]

PopsBacklog(c) ==
  /\ PopsFrom(backlog, c)
  /\ backlog' = [backlog EXCEPT ![c] = Tail(@)] /\ UNCHANGED <<replies, outbound>>

PopsReply(c) ==
  /\ PopsFrom(replies, c) /\ backlog[c] = << >>
  /\ replies' = [replies EXCEPT ![c] = Tail(@)] /\ UNCHANGED <<backlog, outbound>>

PopsLive(c) ==
  /\ PopsFrom(outbound, c) /\ backlog[c] = << >>
  /\ outbound' = [outbound EXCEPT ![c] = Tail(@)] /\ UNCHANGED <<backlog, replies>>

\* Retained reports come first and live ones last.
LEMMA PopCases ==
  ASSUME NEW c \in Connections, PopOutbound(c)
  PROVE  PopsBacklog(c) \/ PopsReply(c) \/ PopsLive(c)
<1>1. CASE backlog[c] # << >>
  <2>1. NextOutbound(c) = "backlog"
    BY <1>1 DEF NextOutbound
  <2> QED
    BY <2>1 DEF PopOutbound, Popped, PopsBacklog, PopsFrom
<1>2. CASE backlog[c] = << >> /\ replies[c] # << >>
  <2>1. NextOutbound(c) = "replies"
    BY <1>2 DEF NextOutbound
  <2> QED
    BY <1>2, <2>1 DEF PopOutbound, Popped, PopsReply, PopsFrom
<1>3. CASE backlog[c] = << >> /\ replies[c] = << >>
  <2>1. NextOutbound(c) = "outbound"
    BY <1>3 DEF NextOutbound
  <2> QED
    BY <1>3, <2>1 DEF PopOutbound, Popped, PopsLive, PopsFrom
<1> QED
  BY <1>1, <1>2, <1>3

\* Writing and closing.
LEMMA WriteTyped ==
  ASSUME Typed, NEW c \in Connections, PopOutbound(c) \/ CloseConnection(c)
  PROVE  Typed'
<1> USE DEF Typed
<1>0. TurnTyped'
  <2>1. UNCHANGED <<event, turn, target>>
    BY DEF PopOutbound, CloseConnection, exchange, routing
  <2> QED
    BY <2>1, TurnKept
<1>1. CASE PopOutbound(c)
  <2>0. UNCHANGED <<account, closed, pending, sessions, owner, io, exchange>>
    BY <1>1 DEF PopOutbound, tables
  <2>1. ConnectionsTyped'
    <3>1. CASE PopsBacklog(c)
      BY <2>0, <3>1 DEF ConnectionsTyped, PopsBacklog, PopsFrom
    <3>2. CASE PopsReply(c)
      BY <2>0, <3>2 DEF ConnectionsTyped, PopsReply, PopsFrom
    <3>3. CASE PopsLive(c)
      <4> DEFINE q == outbound[c]
      <4>1. q \in Seq(ReportType) /\ q # << >> /\ Len(q) <= OutboundCapacity
        BY <3>3 DEF ConnectionsTyped, PopsLive, PopsFrom
      <4>2. /\ Head(q) \in ReportType /\ Tail(q) \in Seq(ReportType)
            /\ Len(Tail(q)) <= OutboundCapacity
        BY <4>1, CapacityAssumption
      <4>3. /\ received' = [received EXCEPT ![c] = Append(received[c], Head(q))]
            /\ outbound' = [outbound EXCEPT ![c] = Tail(q)]
            /\ UNCHANGED <<backlog, replies>>
        BY <3>3 DEF PopsLive, PopsFrom
      <4> HIDE DEF q
      <4> QED
        BY <2>0, <4>2, <4>3 DEF ConnectionsTyped
    <3> QED
      BY <1>1, <3>1, <3>2, <3>3, PopCases
  <2>2. TablesTyped' /\ ExchangeTyped'
    BY <2>0 DEF TablesTyped, ExchangeTyped, exchange
  <2> QED
    BY <1>0, <2>1, <2>2
<1>2. CASE CloseConnection(c)
  <2> USE <1>2 DEF CloseConnection
  <2>1. ConnectionsTyped'
    BY DEF ConnectionsTyped, tables
  <2>2. TablesTyped'
    BY DEF TablesTyped, tables, IsIo
  <2>3. ExchangeTyped'
    BY DEF ExchangeTyped, exchange
  <2> QED
    BY <1>0, <2>1, <2>2, <2>3
<1> QED
  BY <1>1, <1>2

\* The request at the head of the queue.
LEMMA HeadForm ==
  ASSUME Typed, queue # << >>
  PROVE  /\ Command \in Requests /\ Submitter \in Connections
         /\ Command.key \in OrderKeys
         /\ Tail(queue) \in Seq(Waiter) /\ Len(Tail(queue)) <= QueueCapacity
<1>1. Head(queue) \in Waiter /\ Tail(queue) \in Seq(Waiter) /\ Len(Tail(queue)) <= Len(queue)
  BY DEF Typed, ExchangeTyped
<1>2. Command \in Requests /\ Submitter \in Connections
  BY <1>1 DEF Waiter, Command, Submitter
<1> QED
  BY <1>1, <1>2, RequestForm, CapacityAssumption DEF Typed, ExchangeTyped
-----------------------------------------------------------------------------
\* An event that was just emitted has the form of one.
LEMMA EmittedForm ==
  ASSUME NEW e, IsEvent(e), Emit(e), emitted \in Nat
  PROVE  /\ event' # << >> /\ event' = <<event'[1]>> /\ IsEvent(event'[1])
         /\ event'[1] = e /\ emitted' \in Nat /\ emitted' = emitted + 1
<1>1. event' = <<e>>
  BY DEF Emit
<1>2. event'[1] = e /\ event' # << >>
  BY <1>1
<1> QED
  BY <1>1, <1>2 DEF Emit

\* The matching thread, before it routes anything.
LEMMA MatchTyped ==
  ASSUME Typed,
         \/ Reject \/ AcceptNew \/ AcceptCancel \/ AcceptReplace
         \/ \E k \in holds : \E filled \in SUBSET (holds \cup Range(active)) : Trade(k, filled)
         \/ FinishMatching
  PROVE  Typed'
<1> USE DEF Typed
<1>0. emitted \in Nat /\ holds \subseteq OrderKeys
  BY DEF ExchangeTyped
<1>00. event = << >> /\ UNCHANGED <<turn, target>>
  BY DEF Reject, AcceptNew, AcceptCancel, AcceptReplace, Take, Trade, FinishMatching, routing
<1> DEFINE k == Command.key
<1>1. CASE Reject
  <2>1. queue # << >> /\ queue' = Tail(queue)
    BY <1>1 DEF Reject, Take
  <2>2. k \in OrderKeys
    BY <2>1, HeadForm
  <2> DEFINE e == [type |-> "rejected", keys |-> <<k>>, from |-> Submitter]
  <2>3. IsEvent(e)
    BY <2>2 DEF IsEvent
  <2>4. Emit(e)
    BY <1>1 DEF Reject
  <2> HIDE DEF e
  <2>5. /\ event' = <<event'[1]>> /\ IsEvent(event'[1]) /\ emitted' \in Nat
    BY <1>0, <2>3, <2>4, EmittedForm
  <2>6. ExchangeTyped'
    BY <1>1, <2>1, <2>5, HeadForm DEF ExchangeTyped, Reject
  <2>7. ConnectionsTyped' /\ TablesTyped'
    BY <1>1 DEF Reject, Take, ConnectionsTyped, TablesTyped, connVars, tables
  <2>20. TurnTyped'
    BY <1>00, <2>5, TurnStarts
  <2> QED
    BY <2>20, <2>6, <2>7
<1>2. CASE AcceptNew
  <2>1. queue # << >> /\ queue' = Tail(queue)
    BY <1>2 DEF AcceptNew, Take
  <2>2. k \in OrderKeys
    BY <2>1, HeadForm
  <2> DEFINE e == [type |-> "accepted", keys |-> <<k>>, from |-> Submitter]
  <2>3. IsEvent(e)
    BY <2>2 DEF IsEvent
  <2>4. Emit(e)
    BY <1>2 DEF AcceptNew
  <2> HIDE DEF e
  <2>5. /\ event' = <<event'[1]>> /\ IsEvent(event'[1]) /\ emitted' \in Nat
    BY <1>0, <2>3, <2>4, EmittedForm
  <2>6. holds' \subseteq OrderKeys /\ active' \in {<<x>> : x \in OrderKeys}
    BY <1>0, <1>2, <2>2 DEF AcceptNew
  <2>7. ExchangeTyped'
    BY <1>2, <2>1, <2>5, <2>6, HeadForm DEF ExchangeTyped
  <2>8. ConnectionsTyped' /\ TablesTyped'
    BY <1>2 DEF AcceptNew, Take, ConnectionsTyped, TablesTyped, connVars, tables
  <2>20. TurnTyped'
    BY <1>00, <2>5, TurnStarts
  <2> QED
    BY <2>20, <2>7, <2>8
<1>3. CASE AcceptCancel
  <2>1. queue # << >> /\ queue' = Tail(queue)
    BY <1>3 DEF AcceptCancel, Take
  <2>2. k \in OrderKeys
    BY <2>1, HeadForm
  <2> DEFINE e == [type |-> "cancelled", keys |-> <<k>>, from |-> Submitter]
  <2>3. IsEvent(e)
    BY <2>2 DEF IsEvent
  <2>4. Emit(e)
    BY <1>3 DEF AcceptCancel
  <2> HIDE DEF e
  <2>5. /\ event' = <<event'[1]>> /\ IsEvent(event'[1]) /\ emitted' \in Nat
    BY <1>0, <2>3, <2>4, EmittedForm
  <2>6. holds' \subseteq OrderKeys
    BY <1>0, <1>3 DEF AcceptCancel
  <2>7. ExchangeTyped'
    BY <1>3, <2>1, <2>5, <2>6, HeadForm DEF ExchangeTyped, AcceptCancel
  <2>8. ConnectionsTyped' /\ TablesTyped'
    BY <1>3 DEF AcceptCancel, Take, ConnectionsTyped, TablesTyped, connVars, tables
  <2>20. TurnTyped'
    BY <1>00, <2>5, TurnStarts
  <2> QED
    BY <2>20, <2>7, <2>8
<1>4. CASE AcceptReplace
  <2>1. queue # << >> /\ queue' = Tail(queue)
    BY <1>4 DEF AcceptReplace, Take
  <2> DEFINE new == NewKey(Command)
  <2>2. k \in OrderKeys /\ new \in OrderKeys /\ AccountOf(new) = AccountOf(k)
    BY <1>4, <2>1, HeadForm, RequestForm DEF AcceptReplace
  <2> DEFINE e == [type |-> "replaced", keys |-> <<k>>, from |-> Submitter,
                   new_key |-> new]
  <2>3. Emit(e)
    BY <1>4 DEF AcceptReplace
  <2>4. holds' = (holds \ {k}) \cup {new} /\ active' \in {<< >>, <<new>>}
    BY <1>4 DEF AcceptReplace
  <2> HIDE DEF k, new
  <2>5. IsEvent(e)
    BY <2>2 DEF IsEvent
  <2> HIDE DEF e
  <2>6. /\ event' = <<event'[1]>> /\ IsEvent(event'[1]) /\ emitted' \in Nat
    BY <1>0, <2>3, <2>5, EmittedForm
  <2>7. holds' \subseteq OrderKeys /\ active' \in {<< >>} \cup {<<x>> : x \in OrderKeys}
    BY <1>0, <2>2, <2>4
  <2>8. ExchangeTyped'
    BY <2>1, <2>6, <2>7, HeadForm DEF ExchangeTyped
  <2>9. ConnectionsTyped' /\ TablesTyped'
    BY <1>4 DEF AcceptReplace, Take, ConnectionsTyped, TablesTyped, connVars, tables
  <2>20. TurnTyped'
    BY <1>00, <2>6, TurnStarts
  <2> QED
    BY <2>20, <2>8, <2>9
<1>5. ASSUME NEW resting \in holds, NEW filled, Trade(resting, filled)
      PROVE  Typed'
  <2> DEFINE taker == active[1]
  <2>1. taker \in OrderKeys /\ resting \in OrderKeys /\ resting # taker
    BY <1>0, <1>5 DEF Trade, ExchangeTyped
  <2>2. PICK keys \in {<<taker, resting>>, <<resting, taker>>} :
          Emit([type |-> "trade", keys |-> keys, filled |-> filled])
    BY <1>5 DEF Trade
  <2>3. IsEvent([type |-> "trade", keys |-> keys, filled |-> filled])
    <3> HIDE DEF taker
    <3>1. keys \in Seq(OrderKeys) /\ Len(keys) = 2 /\ keys[1] # keys[2]
      <4>1. CASE keys = <<taker, resting>>
        BY <2>1, <4>1
      <4>2. CASE keys = <<resting, taker>>
        BY <2>1, <4>2
      <4> QED
        BY <2>2, <4>1, <4>2
    <3> QED
      BY <3>1 DEF IsEvent
  <2>4. /\ event' = <<event'[1]>> /\ IsEvent(event'[1]) /\ emitted' \in Nat
    BY <1>0, <2>2, <2>3, EmittedForm
  <2>5. /\ holds' \subseteq OrderKeys /\ active' \in {<< >>, active} /\ queue' = queue
    BY <1>0, <1>5 DEF Trade
  <2>6. ExchangeTyped'
    BY <2>4, <2>5 DEF ExchangeTyped
  <2>7. ConnectionsTyped' /\ TablesTyped'
    BY <1>5 DEF Trade, ConnectionsTyped, TablesTyped, connVars, tables
  <2>20. TurnTyped'
    BY <1>00, <2>4, TurnStarts
  <2> QED
    BY <2>20, <2>6, <2>7
<1>6. CASE FinishMatching
  <2>1. ExchangeTyped'
    BY <1>6 DEF FinishMatching, ExchangeTyped
  <2>2. ConnectionsTyped' /\ TablesTyped'
    BY <1>6 DEF FinishMatching, ConnectionsTyped, TablesTyped, connVars, tables
  <2>20. TurnTyped'
    BY <1>00, <1>6, TurnKept DEF FinishMatching
  <2> QED
    BY <2>20, <2>1, <2>2
<1> QED
  BY <1>1, <1>2, <1>3, <1>4, <1>5, <1>6

\* The event that is about to be routed, and its reports.
LEMMA ReportForm ==
  ASSUME Typed, event # << >>, NEW i \in 1 .. Len(event[1].keys)
  PROVE  /\ IsEvent(event[1])
         /\ Report(event[1], i) \in ReportType
         /\ Report(event[1], i).key = event[1].keys[i]
         /\ Report(event[1], i).n = emitted
<1>1. IsEvent(event[1]) /\ emitted \in Nat
  BY DEF Typed, ExchangeTyped
<1>2. event[1].keys[i] \in OrderKeys
  BY <1>1 DEF IsEvent
<1> QED
  BY <1>1, <1>2 DEF Report, ReportType

\* The two tables as they are.
LEMMA HereTyped == Typed => Here \in Tables /\ WithinCapacity(Here)
  BY DEF Here, Tables, WithinCapacity, Typed, ConnectionsTyped

\* The report whose turn it is.
LEMMA NextReport ==
  ASSUME Typed, Routing, NEW r, r = Report(event[1], turn)
  PROVE  /\ turn \in 1 .. Len(event[1].keys) /\ IsEvent(event[1])
         /\ event[1].keys[turn] \in OrderKeys /\ r.key = event[1].keys[turn]
         /\ r \in ReportType /\ r.n = emitted
         /\ r \in Unrouted
<1>1. event # << >> /\ IsEvent(event[1])
  BY DEF Typed, ExchangeTyped, Routing
<1>2. turn \in 1 .. Len(event[1].keys)
  BY <1>1 DEF Typed, TurnTyped, Routing, IsEvent
<1>3. event[1].keys[turn] \in OrderKeys
  BY <1>1, <1>2 DEF IsEvent
<1> QED
  BY <1>1, <1>2, <1>3, ReportForm DEF Unrouted, IsEvent

\* DeliverReport does one of the three.
LEMMA DeliverCases ==
  ASSUME Typed, Bound, DeliverReport, NEW r, r = Report(event[1], turn)
  PROVE  /\ Here' \in Tables /\ WithinCapacity(Here')
         /\ RoutedTo(Here, Here', r)
<1> DEFINE c == target[1]
           a == AccountOf(r.key)
<1>1. Routing /\ target # << >> /\ r.key \in OrderKeys /\ a \in Accounts /\ r \in ReportType
  BY NextReport, KeyAccount DEF DeliverReport
<1>2. /\ Here \in Tables /\ WithinCapacity(Here)
      /\ Here.outbound = outbound /\ Here.pending = pending
      /\ Here'.outbound = outbound' /\ Here'.pending = pending'
      /\ Here' = [outbound |-> outbound', pending |-> pending']
  BY HereTyped DEF Here
<1>3. /\ outbound \in [Connections -> Seq(ReportType)]
      /\ \A d \in Connections : Len(outbound[d]) <= OutboundCapacity
      /\ pending \in [Accounts -> Seq(ReportType)]
      /\ \A b \in Accounts : Len(pending[b]) <= PendingCapacity
  BY DEF Typed, ConnectionsTyped
<1>4. CASE c = Nobody
  <2>1. pending' = [pending EXCEPT ![a] = Retain(@, r)] /\ outbound' = outbound
    BY <1>4 DEF DeliverReport
  <2>2. pending[a] \in Seq(ReportType) /\ Len(pending[a]) <= PendingCapacity
    BY <1>1, <1>3
  <2>3. /\ Retain(pending[a], r) \in Seq(ReportType)
        /\ Len(Retain(pending[a], r)) <= PendingCapacity
        /\ \/ Retain(pending[a], r) = pending[a]
           \/ Retain(pending[a], r) = Append(pending[a], r)
           \/ /\ pending[a] # << >>
              /\ Retain(pending[a], r) = Append(Tail(pending[a]), r)
    BY <1>1, <2>2, CapacityAssumption DEF Retain
  <2> HIDE DEF a, c
  <2>4. /\ pending' \in [Accounts -> Seq(ReportType)]
        /\ \A b \in Accounts : Len(pending'[b]) <= PendingCapacity
    BY <1>1, <1>3, <2>1, <2>3
  <2>5. Here' \in Tables /\ WithinCapacity(Here')
    BY <1>2, <1>3, <2>1, <2>4 DEF Tables, WithinCapacity
  <2>6. CASE Retain(pending[a], r) = pending[a]
    <3>1. pending' = pending
      BY <1>1, <1>3, <2>1, <2>6
    <3>2. Here' = Here
      BY <1>2, <2>1, <3>1 DEF Here
    <3> QED
      BY <2>5, <3>2 DEF RoutedTo
  <2>7. CASE Retain(pending[a], r) # pending[a]
    <3>1. Kept(Here, Here', r)
      BY <1>2, <2>1, <2>3, <2>7 DEF Kept, a
    <3> QED
      BY <2>5, <3>1 DEF RoutedTo
  <2> QED
    BY <2>6, <2>7
<1>5. CASE c # Nobody
  <2>1. /\ outbound' = [outbound EXCEPT ![c] =
                          IF Len(@) < OutboundCapacity THEN Append(@, r) ELSE @]
        /\ pending' = pending
    BY <1>5 DEF DeliverReport
  <2>2. c \in Connections /\ account[c] = a
    BY <1>1, <1>5, NextReport DEF Typed, TurnTyped, Bound, TargetBound
  <2>3. outbound[c] \in Seq(ReportType) /\ Len(outbound[c]) <= OutboundCapacity
    BY <1>3, <2>2
  <2> HIDE DEF a, c
  <2>4. CASE Len(outbound[c]) < OutboundCapacity
    <3>1. outbound' = [outbound EXCEPT ![c] = Append(@, r)]
      BY <2>1, <2>4
    <3>2. /\ Append(outbound[c], r) \in Seq(ReportType)
          /\ Len(Append(outbound[c], r)) <= OutboundCapacity
      BY <1>1, <2>3, <2>4, CapacityAssumption
    <3>3. /\ outbound' \in [Connections -> Seq(ReportType)]
          /\ \A d \in Connections : Len(outbound'[d]) <= OutboundCapacity
      BY <1>3, <3>1, <3>2
    <3>4. Here' \in Tables /\ WithinCapacity(Here')
      BY <1>2, <1>3, <2>1, <3>3 DEF Tables, WithinCapacity
    <3>5. Delivered(Here, Here', r)
      BY <1>2, <2>1, <2>2, <3>1 DEF Delivered, a, c
    <3> QED
      BY <3>4, <3>5 DEF RoutedTo
  <2>5. CASE ~(Len(outbound[c]) < OutboundCapacity)
    <3>1. outbound' = outbound
      BY <1>3, <2>1, <2>5
    <3>2. Here' = Here
      BY <1>2, <2>1, <3>1 DEF Here
    <3> QED
      BY <1>2, <3>2 DEF RoutedTo
  <2> QED
    BY <2>4, <2>5
<1> QED
  BY <1>4, <1>5

\* update_order_ownership only forgets owners and passes them on.
LEMMA OwnersKept ==
  ASSUME Typed, event # << >>, NEW k \in DOMAIN OwnersAfter(event[1])
  PROVE  LET e == event[1] IN
         \/ /\ k \in DOMAIN owner
            /\ OwnersAfter(e)[k] = owner[k]
         \/ /\ e.type = "replaced" /\ k = e.new_key
            /\ e.keys[1] \in DOMAIN owner /\ OwnersAfter(e)[k] = owner[e.keys[1]]
<1> DEFINE e == event[1]
           key == e.keys[1]
<1>1. CASE e.type = "replaced" /\ key \in DOMAIN owner
  <2>1. OwnersAfter(e) = OwnerFollows(e)
    BY <1>1 DEF OwnersAfter
  <2> QED
    BY <1>1, <2>1 DEF OwnerFollows, Erase, InsertOrAssign
<1>2. CASE (e.type = "rejected" /\ key \notin holds) \/ e.type = "cancelled"
  <2>1. OwnersAfter(e) = Erase(owner, key)
    BY <1>2 DEF OwnersAfter
  <2> QED
    BY <2>1 DEF Erase
<1>3. CASE e.type = "trade"
  <2>1. OwnersAfter(e) = Restrict(owner, DOMAIN owner \ e.filled)
    BY <1>3 DEF OwnersAfter
  <2> QED
    BY <2>1 DEF Restrict
<1>4. CASE ~(e.type = "replaced" /\ key \in DOMAIN owner) /\ e.type # "cancelled"
           /\ ~(e.type = "rejected" /\ key \notin holds) /\ e.type # "trade"
  <2>1. OwnersAfter(e) = owner
    BY <1>4 DEF OwnersAfter
  <2> QED
    BY <2>1
<1> QED
  BY <1>1, <1>2, <1>3, <1>4

\* Every step of route_event keeps the form of every table.
LEMMA RouteTyped ==
  ASSUME Typed, Bound, ChooseTarget \/ DeliverReport \/ UpdateOwnership
  PROVE  Typed'
<1> USE DEF Typed
<1>1. CASE ChooseTarget
  <2>1. /\ Routing /\ target' = <<Target(event[1].keys[turn])>>
        /\ UNCHANGED <<connVars, tables, io, exchange, turn>>
    BY <1>1 DEF ChooseTarget
  <2>2. Target(event[1].keys[turn]) \in Connections \cup {Nobody}
    <3>1. event[1].keys[turn] \in OrderKeys
      BY <2>1, NextReport
    <3> QED
      BY <3>1, TargetFits
  <2>3. TurnTyped'
    BY <2>1, <2>2 DEF TurnTyped, Routing, MutexFree, exchange
  <2>4. ConnectionsTyped' /\ TablesTyped' /\ ExchangeTyped'
    BY <2>1 DEF ConnectionsTyped, TablesTyped, ExchangeTyped, connVars, tables, exchange
  <2> QED
    BY <2>3, <2>4
<1>2. CASE DeliverReport
  <2>1. /\ Routing /\ turn' = turn + 1 /\ target' = << >>
        /\ UNCHANGED <<account, closed, backlog, replies, received, sessions, owner, io,
                       exchange>>
    BY <1>2 DEF DeliverReport
  <2>2. Here' \in Tables /\ WithinCapacity(Here')
    BY <1>2, DeliverCases
  <2>3. ConnectionsTyped'
    BY <2>1, <2>2 DEF ConnectionsTyped, Tables, WithinCapacity, Here
  <2>4. TablesTyped' /\ ExchangeTyped'
    BY <2>1 DEF TablesTyped, ExchangeTyped, exchange
  <2>5. turn \in 1 .. Len(event[1].keys)
    BY <2>1, NextReport
  <2>6. TurnTyped'
    BY <2>1, <2>5 DEF TurnTyped, Routing, exchange
  <2> QED
    BY <2>3, <2>4, <2>6
<1>3. CASE UpdateOwnership
  <2>1. /\ event # << >> /\ ~Routing /\ event' = << >> /\ turn' = 1 /\ target' = target
        /\ owner' = OwnersAfter(event[1])
        /\ UNCHANGED <<connVars, sessions, pending, io, queue, holds, active, emitted>>
    BY <1>3 DEF UpdateOwnership
  <2>2. \A k \in DOMAIN owner' : k \in OrderKeys /\ owner'[k] \in Connections
    <3> SUFFICES ASSUME NEW k \in DOMAIN owner' PROVE k \in OrderKeys /\ owner'[k] \in Connections
      OBVIOUS
    <3>1. IsEvent(event[1])
      BY <2>1 DEF ExchangeTyped
    <3> QED
      BY <2>1, <3>1, OwnersKept DEF TablesTyped, IsEvent
  <2>3. owner' = [k \in DOMAIN owner' |-> owner'[k]]
    BY <2>1 DEF OwnersAfter, OwnerFollows, Erase, InsertOrAssign, Restrict, TablesTyped
  <2>4. TablesTyped'
    BY <2>1, <2>2, <2>3 DEF TablesTyped
  <2>5. ConnectionsTyped' /\ ExchangeTyped'
    BY <2>1 DEF ConnectionsTyped, ExchangeTyped, connVars
  <2>6. TurnTyped'
    BY <2>1 DEF TurnTyped, MutexFree
  <2> QED
    BY <2>4, <2>5, <2>6
<1> QED
  BY <1>1, <1>2, <1>3

-----------------------------------------------------------------------------
(***************************************************************************)
(* Bound: sessions, owners and accounts agree.                             *)
(***************************************************************************)
\* At first there is no session to disagree about.
LEMMA InitBound == RoutingInit => Bound
  BY NobodyAssumption DEF RoutingInit, Bound, SessionsBound, OwnersBound, OpenListed, IoBound,
                          TargetBound, Idle, NoMap

\* Binding lists the session under the account it takes.
LEMMA ReadBoundTables ==
  ASSUME Typed, Bound, NEW c \in Connections, NEW cmd \in Requests,
         BindSession(c, cmd) \/ ReadBound(c, cmd) \/ RejectAccountMismatch(c, cmd)
  PROVE  Bound'
<1> USE DEF Bound, Read
<1>1. CASE BindSession(c, cmd)
  <2> DEFINE a == AccountOf(cmd.key)
  <2>1. a \in Accounts /\ a # Nobody
    BY RequestForm, KeyAccount
  <2>2. /\ account[c] = Nobody /\ account' = [account EXCEPT ![c] = a]
        /\ sessions' = [sessions EXCEPT ![a] = Append(@, c)]
        /\ io' = [step |-> "claim", conn |-> c, cmd |-> cmd]
        /\ owner' = owner /\ closed' = closed
    BY <1>1 DEF BindSession
  <2> HIDE DEF a
  <2>3. \A b \in Accounts : sessions[b] \in Seq(Connections)
    BY DEF Typed, TablesTyped
  <2>4. SessionsBound'
    <3> SUFFICES ASSUME NEW b \in Accounts, NEW j \in DOMAIN sessions'[b]
                 PROVE  account'[sessions'[b][j]] = b
      BY DEF SessionsBound
    <3>1. CASE j \in DOMAIN sessions[b]
      <4>1. sessions'[b][j] = sessions[b][j] /\ sessions[b][j] \in Connections
        BY <2>1, <2>2, <2>3, <3>1 DEF Typed, TablesTyped
      <4>2. account[sessions[b][j]] = b /\ b # Nobody
        BY <3>1, NobodyAssumption DEF SessionsBound
      <4> QED
        BY <2>2, <4>1, <4>2 DEF Typed, ConnectionsTyped
    <3>2. CASE j \notin DOMAIN sessions[b]
      <4>1. b = a /\ sessions'[b][j] = c
        BY <2>1, <2>2, <2>3, <3>2 DEF Typed, TablesTyped
      <4> QED
        BY <2>2, <4>1 DEF Typed, ConnectionsTyped
    <3> QED
      BY <3>1, <3>2
  <2>5. OwnersBound'
    <3> SUFFICES ASSUME NEW k \in DOMAIN owner PROVE account'[owner[k]] = AccountOf(k)
      BY <2>2 DEF OwnersBound
    <3>1. k \in OrderKeys /\ owner[k] \in Connections /\ account[owner[k]] = AccountOf(k)
      BY DEF Typed, TablesTyped, OwnersBound
    <3>2. AccountOf(k) # Nobody
      BY <3>1, KeyAccount
    <3> QED
      BY <2>2, <3>1, <3>2 DEF Typed, ConnectionsTyped
  <2>6. OpenListed'
    <3> SUFFICES ASSUME NEW d \in Connections, account'[d] # Nobody, ~closed'[d]
                 PROVE  d \in Range(sessions'[account'[d]])
      BY DEF OpenListed, Listed
    <3>1. CASE d = c
      <4>1. account'[d] = a /\ sessions'[a] = Append(sessions[a], c)
        BY <2>1, <2>2, <3>1 DEF Typed, ConnectionsTyped, TablesTyped
      <4> QED
        BY <2>1, <2>3, <3>1, <4>1 DEF Range
    <3>2. CASE d # c
      <4> DEFINE b == account[d]
      <4>1. account'[d] = b /\ b \in Accounts /\ d \in Range(sessions[b])
        BY <2>2, <3>2 DEF Typed, ConnectionsTyped, OpenListed, Listed
      <4> HIDE DEF b
      <4>2. PICK j \in DOMAIN sessions[b] : sessions[b][j] = d
        BY <4>1 DEF Range
      <4>3. j \in DOMAIN sessions'[b] /\ sessions'[b][j] = d
        BY <2>1, <2>2, <2>3, <4>1, <4>2 DEF Typed, TablesTyped
      <4> QED
        BY <4>1, <4>3 DEF Range
    <3> QED
      BY <3>1, <3>2
  <2>7. IoBound'
    BY <2>2 DEF IoBound, Typed, ConnectionsTyped, a
  <2>8. TargetBound'
    BY <1>1 DEF BindSession, MutexFree, TargetBound, routing
  <2> QED
    BY <2>4, <2>5, <2>6, <2>7, <2>8
<1>2. CASE ReadBound(c, cmd) \/ RejectAccountMismatch(c, cmd)
  <2>1. /\ io = Idle /\ UNCHANGED <<account, closed, sessions, owner, event, turn, target>>
        /\ io' = io \/ io' = [step |-> "claim", conn |-> c, cmd |-> cmd]
    BY <1>2 DEF ReadBound, RejectAccountMismatch, connVars, tables, exchange, routing
  <2>2. SessionsBound' /\ OwnersBound' /\ OpenListed'
    BY <2>1 DEF SessionsBound, OwnersBound, OpenListed, Listed
  <2>3. IoBound'
    BY <1>2, <2>1 DEF IoBound, Idle, ReadBound, RejectAccountMismatch
  <2>4. TargetBound'
    BY <2>1, TargetOpen DEF Idle
  <2> QED
    BY <2>2, <2>3, <2>4
<1> QED
  BY <1>1, <1>2

\* An owner is recorded for its own account only, and unbinding takes the
\* session off the list of its account and no other one.
LEMMA IoBoundTables ==
  ASSUME Typed, Bound, ClaimOwnership \/ SubmitCommand \/ UnbindSession
  PROVE  Bound'
<1> USE DEF Bound
<1>1. CASE ClaimOwnership
  <2>1. io \in [step : {"claim"}, conn : Connections, cmd : Requests]
    BY <1>1 DEF ClaimOwnership, Typed, TablesTyped, IsIo, Idle
  <2>2. /\ owner' = TryEmplace(owner, io.cmd.key, io.conn)
        /\ io'.step = "submit" /\ io'.cmd = io.cmd /\ io'.conn = io.conn
        /\ UNCHANGED <<account, closed, sessions>>
    BY <1>1, <2>1 DEF ClaimOwnership, connVars
  <2>3. account[io.conn] = AccountOf(io.cmd.key)
    BY <2>1 DEF IoBound
  <2>4. OwnersBound'
    BY <2>2, <2>3 DEF OwnersBound, TryEmplace, InsertOrAssign
  <2>5. SessionsBound' /\ OpenListed' /\ IoBound'
    BY <2>2, <2>3 DEF SessionsBound, OpenListed, Listed, IoBound
  <2>6. TargetBound'
    BY <1>1 DEF ClaimOwnership, MutexFree, TargetBound, routing
  <2> QED
    BY <2>4, <2>5, <2>6
<1>2. CASE SubmitCommand
  <2>1. /\ io.step = "submit" /\ io' = Idle
        /\ UNCHANGED <<account, closed, sessions, owner, event, turn, target>>
    BY <1>2 DEF SubmitCommand, connVars, tables, routing
  <2>2. SessionsBound' /\ OwnersBound' /\ OpenListed' /\ IoBound'
    BY <2>1 DEF SessionsBound, OwnersBound, OpenListed, Listed, IoBound, Idle
  <2>3. TargetBound'
    BY <2>1, TargetOpen
  <2> QED
    BY <2>2, <2>3
<1>3. CASE UnbindSession
  <2> DEFINE a == account[io.conn]
             p == PositionOf(io.conn, sessions[a])
             left == RemoveAt(sessions[a], p)
  <2>1. io \in [step : {"unbind"}, conn : Connections]
    BY <1>3 DEF UnbindSession, Typed, TablesTyped, IsIo, Idle
  <2>2. a \in Accounts /\ io.conn \in Range(sessions[a])
    BY <2>1 DEF IoBound, Listed, Typed, ConnectionsTyped
  <2>3. sessions[a] \in Seq(Connections)
    BY <2>2 DEF Typed, TablesTyped
  <2>4. p \in 1 .. Len(sessions[a]) /\ sessions[a][p] = io.conn
    BY <2>2, <2>3 DEF PositionOf, Range
  <2>5. /\ sessions' = [sessions EXCEPT ![a] = left]
        /\ owner' = Restrict(owner, OwnedByOthers(io.conn))
        /\ io' = Idle /\ account' = account /\ closed' = closed
    BY <1>3 DEF UnbindSession, connVars
  <2> HIDE DEF a, p
  <2>6. /\ \A j \in DOMAIN left : left[j] \in Range(sessions[a])
        /\ \A x \in Range(sessions[a]) : x # io.conn => x \in Range(left)
    BY <2>3, <2>4, RemovedFrom
  <2> HIDE DEF left
  <2>7. SessionsBound'
    <3> SUFFICES ASSUME NEW b \in Accounts, NEW j \in DOMAIN sessions'[b]
                 PROVE  account[sessions'[b][j]] = b
      BY <2>5 DEF SessionsBound
    <3>1. sessions'[b][j] \in Range(sessions[b])
      BY <2>2, <2>5, <2>6 DEF Typed, TablesTyped, Range
    <3> QED
      BY <3>1 DEF SessionsBound, Range
  <2>8. OwnersBound'
    BY <2>5 DEF OwnersBound, Restrict, OwnedByOthers
  <2>9. OpenListed'
    <3> SUFFICES ASSUME NEW d \in Connections, account[d] # Nobody, ~closed[d]
                 PROVE  d \in Range(sessions'[account[d]])
      BY <2>5 DEF OpenListed, Listed
    <3>1. d \in Range(sessions[account[d]]) /\ account[d] \in Accounts
      BY DEF OpenListed, Listed, Typed, ConnectionsTyped
    <3>2. d # io.conn
      BY <2>1 DEF IoBound
    <3> QED
      BY <2>2, <2>5, <2>6, <3>1, <3>2 DEF Typed, TablesTyped
  <2>10. IoBound'
    BY <2>5 DEF IoBound, Idle
  <2>11. TargetBound'
    BY <1>3 DEF UnbindSession, MutexFree, TargetBound, routing
  <2> QED
    BY <2>7, <2>8, <2>9, <2>10, <2>11
<1> QED
  BY <1>1, <1>2, <1>3

\* A connection that closes is still listed when it comes to be unbound, and
\* update_order_ownership stays within an account.
LEMMA OtherBoundTables ==
  ASSUME Typed, Bound,
         \/ \E c \in Connections : PopOutbound(c) \/ CloseConnection(c)
         \/ MatchingThread
  PROVE  Bound'
<1> USE DEF Bound
<1>1. ASSUME NEW c \in Connections, PopOutbound(c)
      PROVE  Bound'
  <2>1. UNCHANGED <<account, closed, sessions, owner, io, event, turn, target>>
    BY <1>1 DEF PopOutbound, tables, exchange, routing
  <2> QED
    BY <2>1 DEF SessionsBound, OwnersBound, OpenListed, Listed, IoBound, TargetBound
<1>2. ASSUME NEW c \in Connections, CloseConnection(c)
      PROVE  Bound'
  <2>1. /\ closed' = [closed EXCEPT ![c] = TRUE]
        /\ ~closed[c] /\ io = Idle
        /\ io' = IF account[c] = Nobody THEN Idle ELSE [step |-> "unbind", conn |-> c]
        /\ UNCHANGED <<account, sessions, owner, event, turn, target>>
    BY <1>2 DEF CloseConnection, tables, exchange, routing
  <2>2. SessionsBound' /\ OwnersBound'
    BY <2>1 DEF SessionsBound, OwnersBound
  <2>3. OpenListed'
    BY <2>1 DEF OpenListed, Listed, Typed, ConnectionsTyped
  <2>4. IoBound'
    BY <2>1 DEF IoBound, OpenListed, Listed, Idle, Typed, ConnectionsTyped
  <2>5. ASSUME target # << >>, target[1] # Nobody, closed'[target[1]]
        PROVE  io'.step = "unbind" /\ io'.conn = target[1]
    <3>1. /\ target[1] \in Connections /\ ~closed[target[1]]
          /\ account[target[1]] = AccountOf(event[1].keys[turn])
      BY <2>1, <2>5 DEF Typed, TurnTyped, TargetBound, Idle
    <3>2. target[1] = c
      BY <2>1, <2>5, <3>1 DEF Typed, ConnectionsTyped
    <3>3. account[c] # Nobody
      BY <2>5, <3>1, <3>2, NextReport, KeyAccount DEF Typed, TurnTyped
    <3> QED
      BY <2>1, <3>2, <3>3
  <2>6. TargetBound'
    BY <2>1, <2>5, TargetKept
  <2> QED
    BY <2>2, <2>3, <2>4, <2>6
<1>3. CASE ChooseTarget
  <2>1. /\ Routing /\ target' = <<Target(event[1].keys[turn])>>
        /\ UNCHANGED <<account, closed, sessions, owner, io, event, turn>>
    BY <1>3 DEF ChooseTarget, connVars, tables, exchange
  <2>2. event[1].keys[turn] \in OrderKeys
    BY <2>1, NextReport
  <2>3. TargetBound'
    BY <2>1, <2>2, TargetFits DEF TargetBound
  <2> QED
    BY <2>1, <2>3 DEF SessionsBound, OwnersBound, OpenListed, Listed, IoBound
<1>4. CASE DeliverReport
  <2>1. target' = << >> /\ UNCHANGED <<account, closed, sessions, owner, io>>
    BY <1>4 DEF DeliverReport
  <2> QED
    BY <2>1 DEF SessionsBound, OwnersBound, OpenListed, Listed, IoBound, TargetBound
<1>5. CASE UpdateOwnership
  <2>1. /\ event # << >> /\ ~Routing /\ target' = target /\ owner' = OwnersAfter(event[1])
        /\ UNCHANGED <<account, closed, sessions, io>>
    BY <1>5 DEF UpdateOwnership, connVars
  <2>2. OwnersBound'
    <3> SUFFICES ASSUME NEW k \in DOMAIN OwnersAfter(event[1])
                 PROVE  account[OwnersAfter(event[1])[k]] = AccountOf(k)
      BY <2>1 DEF OwnersBound
    <3>1. IsEvent(event[1])
      BY <2>1 DEF Typed, ExchangeTyped
    <3> QED
      BY <2>1, <3>1, OwnersKept DEF OwnersBound, IsEvent
  <2>3. TargetBound'
    BY <2>1 DEF TargetBound, Typed, TurnTyped
  <2>4. SessionsBound' /\ OpenListed' /\ IoBound'
    BY <2>1 DEF SessionsBound, OpenListed, Listed, IoBound
  <2> QED
    BY <2>2, <2>3, <2>4
<1>6. CASE event = << >> /\ UNCHANGED <<connVars, tables, io, turn, target>>
  <2>1. TargetBound'
    BY <1>6 DEF TargetBound, Typed, TurnTyped, MutexFree
  <2> QED
    BY <1>6, <2>1 DEF connVars, tables, SessionsBound, OwnersBound, OpenListed, Listed, IoBound
<1>7. MatchingThread => \/ ChooseTarget \/ DeliverReport \/ UpdateOwnership
                        \/ event = << >> /\ UNCHANGED <<connVars, tables, io, turn, target>>
  BY DEF MatchingThread, Reject, AcceptNew, AcceptCancel, AcceptReplace, Take, Trade,
         FinishMatching, routing
<1> QED
  BY <1>1, <1>2, <1>3, <1>4, <1>5, <1>6, <1>7
-----------------------------------------------------------------------------
(***************************************************************************)
(* Sequences of reports, and what filing one more does to all of them.     *)
(***************************************************************************)
\* A report at the end of a sequence that is not newer than it.
LEMMA AppendKeeps ==
  ASSUME NEW s \in Seq(ReportType), NEW r \in ReportType, NEW a
  PROVE  /\ IsPrivate(s, a) /\ AccountOf(r.key) = a => IsPrivate(Append(s, r), a)
         /\ InOrder(s) /\ UpTo(s, r.n) => InOrder(Append(s, r))
         /\ NoRepeat(s) /\ Absent(r, s) => NoRepeat(Append(s, r))
         /\ UpTo(s, r.n) => UpTo(Append(s, r), r.n)
         /\ \A q : Absent(q, s) /\ q # r => Absent(q, Append(s, r))
<1>1. PICK t : t = Append(s, r)
  OBVIOUS
<1>2. /\ DOMAIN t = 1 .. Len(s) + 1 /\ DOMAIN s = 1 .. Len(s)
      /\ \A i \in 1 .. Len(s) : t[i] = s[i]
      /\ t[Len(s) + 1] = r /\ Len(s) \in Nat
  BY <1>1
<1>3. r.n \in Nat /\ \A i \in 1 .. Len(s) : s[i].n \in Nat
  <2>1. \A i \in 1 .. Len(s) : s[i] \in ReportType
    OBVIOUS
  <2> QED
    BY <2>1 DEF ReportType
<1>4. IsPrivate(s, a) /\ AccountOf(r.key) = a => IsPrivate(t, a)
  BY <1>2, <1>3 DEF IsPrivate
<1>5. InOrder(s) /\ UpTo(s, r.n) => InOrder(t)
  BY <1>2, <1>3 DEF InOrder, UpTo
<1>6. NoRepeat(s) /\ Absent(r, s) => NoRepeat(t)
  BY <1>2, <1>3 DEF NoRepeat, Absent
<1>7. UpTo(s, r.n) => UpTo(t, r.n)
  BY <1>2, <1>3 DEF UpTo
<1>8. \A q : Absent(q, s) /\ q # r => Absent(q, t)
  BY <1>2 DEF Absent
<1> QED
  BY <1>1, <1>4, <1>5, <1>6, <1>7, <1>8

\* A report filed nowhere in t can be appended to what is apart from t.
LEMMA AppendApart ==
  ASSUME NEW s \in Seq(ReportType), NEW r \in ReportType, NEW t \in Seq(ReportType),
         Apart(s, t), Apart(t, s), Absent(r, t)
  PROVE  Apart(Append(s, r), t) /\ Apart(t, Append(s, r))
<1>1. PICK u : u = Append(s, r)
  OBVIOUS
<1>2. /\ DOMAIN u = 1 .. Len(s) + 1 /\ DOMAIN s = 1 .. Len(s)
      /\ \A i \in 1 .. Len(s) : u[i] = s[i]
      /\ u[Len(s) + 1] = r /\ Len(s) \in Nat
  BY <1>1
<1>3. Apart(u, t) /\ Apart(t, u)
  BY <1>2 DEF Apart, Absent
<1> QED
  BY <1>1, <1>3

\* What is left when the oldest report is dropped.
LEMMA TailKeeps ==
  ASSUME NEW s \in Seq(ReportType), s # << >>
  PROVE  /\ Tail(s) \in Seq(ReportType)
         /\ \A a : IsPrivate(s, a) => IsPrivate(Tail(s), a)
         /\ InOrder(s) => InOrder(Tail(s))
         /\ NoRepeat(s) => NoRepeat(Tail(s))
         /\ \A m : UpTo(s, m) => UpTo(Tail(s), m)
         /\ \A q : Absent(q, s) => Absent(q, Tail(s))
         /\ \A t \in Seq(ReportType) :
              Apart(s, t) /\ Apart(t, s) => Apart(Tail(s), t) /\ Apart(t, Tail(s))
<1>1. PICK u : u = Tail(s)
  OBVIOUS
<1>2. /\ u \in Seq(ReportType) /\ DOMAIN u = 1 .. Len(s) - 1 /\ DOMAIN s = 1 .. Len(s)
      /\ \A i \in 1 .. Len(s) - 1 : u[i] = s[i + 1]
      /\ Len(s) \in Nat /\ \A i \in 1 .. Len(s) - 1 : i + 1 \in 1 .. Len(s)
  BY <1>1
<1>3. \A a : IsPrivate(s, a) => IsPrivate(u, a)
  BY <1>2 DEF IsPrivate
<1>4. InOrder(s) => InOrder(u)
  <2> SUFFICES ASSUME InOrder(s), NEW i \in DOMAIN u, NEW j \in DOMAIN u, i < j, u[j].n > 0
               PROVE  u[i].n <= u[j].n
    BY DEF InOrder
  <2>1. i + 1 < j + 1 /\ i + 1 \in DOMAIN s /\ j + 1 \in DOMAIN s
    BY <1>2
  <2> QED
    BY <1>2, <2>1 DEF InOrder
<1>5. NoRepeat(s) => NoRepeat(u)
  <2> SUFFICES ASSUME NoRepeat(s), NEW i \in DOMAIN u, NEW j \in DOMAIN u, u[i].n > 0, u[i] = u[j]
               PROVE  i = j
    BY DEF NoRepeat
  <2>1. i + 1 \in DOMAIN s /\ j + 1 \in DOMAIN s /\ s[i + 1] = u[i] /\ s[j + 1] = u[j]
    BY <1>2
  <2>2. i + 1 = j + 1
    BY <2>1 DEF NoRepeat
  <2> QED
    BY <1>2, <2>2
<1>6. \A m : UpTo(s, m) => UpTo(u, m)
  BY <1>2 DEF UpTo
<1>7. \A q : Absent(q, s) => Absent(q, u)
  BY <1>2 DEF Absent
<1>8. \A t \in Seq(ReportType) :
        Apart(s, t) /\ Apart(t, s) => Apart(u, t) /\ Apart(t, u)
  BY <1>2 DEF Apart
<1> QED
  BY <1>1, <1>2, <1>3, <1>4, <1>5, <1>6, <1>7, <1>8

Filings == [Places -> Seq(ReportType)]

\* G is F with r filed, and nothing else that was not there.
OnTop(G, F, H, r) ==
  /\ Filed(G, H) /\ AllUpTo(G, r.n)
  /\ \A q : Nowhere(q, F) /\ q # r => Nowhere(q, G)

\* A new report of the holder of x is filed at x, after everything that is.
LEMMA FileOne ==
  ASSUME NEW F \in Filings, NEW H, Filed(F, H),
         NEW x \in Places, NEW r \in ReportType,
         AccountOf(r.key) = H[x], AllUpTo(F, r.n), Nowhere(r, F),
         NEW G, G = [F EXCEPT ![x] = Append(@, r)]
  PROVE  OnTop(G, F, H, r)
<1>1. G = [F EXCEPT ![x] = Append(@, r)]
  OBVIOUS
<1>2. F[x] \in Seq(ReportType) /\ G \in Filings
  BY <1>1 DEF Filings
<1>3. /\ G[x] = Append(F[x], r)
      /\ \A y \in Places \ {x} : G[y] = F[y]
  BY <1>1 DEF Filings
<1>4. /\ IsPrivate(F[x], H[x]) /\ InOrder(F[x]) /\ NoRepeat(F[x])
      /\ UpTo(F[x], r.n) /\ Absent(r, F[x])
  BY DEF Filed, AllUpTo, Nowhere
<1>5. IsPrivate(G[x], H[x]) /\ InOrder(G[x]) /\ NoRepeat(G[x]) /\ UpTo(G[x], r.n)
  BY <1>2, <1>3, <1>4, AppendKeeps
<1>6. \A y \in Places \ {x} : Apart(G[x], F[y]) /\ Apart(F[y], G[x])
  <2> TAKE y \in Places \ {x}
  <2>1. /\ F[y] \in Seq(ReportType) /\ Apart(F[x], F[y]) /\ Apart(F[y], F[x])
        /\ Absent(r, F[y])
    BY DEF Filed, Filings, Nowhere
  <2> QED
    BY <1>2, <1>3, <2>1, AppendApart
<1>7. \A y \in Places \ {x}, z \in Places \ {x} : y # z => Apart(G[y], G[z])
  BY <1>3 DEF Filed
<1>8. Filed(G, H)
  BY <1>3, <1>5, <1>6, <1>7 DEF Filed
<1>9. AllUpTo(G, r.n)
  BY <1>3, <1>5 DEF AllUpTo
<1>10. \A q : Nowhere(q, F) /\ q # r => Nowhere(q, G)
  <2> SUFFICES ASSUME NEW q, Nowhere(q, F), q # r PROVE Nowhere(q, G)
    OBVIOUS
  <2>1. Absent(q, G[x])
    BY <1>2, <1>3, AppendKeeps DEF Nowhere
  <2> QED
    BY <1>3, <2>1 DEF Nowhere
<1> QED
  BY <1>8, <1>9, <1>10 DEF OnTop

\* Whatever is filed in G was in F.
NoMore(G, F) ==
  /\ \A m : AllUpTo(F, m) => AllUpTo(G, m)
  /\ \A q : Nowhere(q, F) => Nowhere(q, G)

\* The oldest report at x is dropped.
LEMMA DropOldest ==
  ASSUME NEW F \in Filings, NEW H, Filed(F, H), NEW x \in Places, F[x] # << >>,
         NEW G, G = [F EXCEPT ![x] = Tail(@)]
  PROVE  G \in Filings /\ Filed(G, H) /\ NoMore(G, F)
<1>1. G = [F EXCEPT ![x] = Tail(@)]
  OBVIOUS
<1>2. F[x] \in Seq(ReportType) /\ Tail(F[x]) \in Seq(ReportType)
  BY TailKeeps DEF Filings
<1>3. /\ G[x] = Tail(F[x]) /\ G \in Filings
      /\ \A y \in Places \ {x} : G[y] = F[y]
  BY <1>1, <1>2 DEF Filings
<1>4. /\ IsPrivate(G[x], H[x]) /\ InOrder(G[x]) /\ NoRepeat(G[x])
  BY <1>2, <1>3, TailKeeps DEF Filed
<1>5. \A y \in Places \ {x} : Apart(G[x], F[y]) /\ Apart(F[y], G[x])
  BY <1>2, <1>3, TailKeeps DEF Filed, Filings
<1>6. Filed(G, H)
  BY <1>3, <1>4, <1>5 DEF Filed
<1>7. \A m : AllUpTo(F, m) => AllUpTo(G, m)
  BY <1>2, <1>3, TailKeeps DEF AllUpTo
<1>8. \A q : Nowhere(q, F) => Nowhere(q, G)
  BY <1>2, <1>3, TailKeeps DEF Nowhere
<1> QED
  BY <1>3, <1>6, <1>7, <1>8 DEF NoMore
-----------------------------------------------------------------------------
\* Concatenations of what a connection has, what was retained for it and what
\* is queued for it.
LEMMA QueueOneMore ==
  ASSUME NEW S, NEW a \in Seq(S), NEW b \in Seq(S), NEW u \in Seq(S), NEW r \in S
  PROVE  a \o b \o Append(u, r) = Append(a \o b \o u, r)
<1>0. a \o b \in Seq(S)
  OBVIOUS
<1>1. PICK s \in Seq(S) : s = a \o b
  BY <1>0
<1>2. PICK t : t = s \o Append(u, r)
  OBVIOUS
<1>3. PICK v : v = Append(s \o u, r)
  OBVIOUS
<1>4. /\ t \in Seq(S) /\ Len(t) = Len(s) + Len(u) + 1
      /\ v \in Seq(S) /\ Len(v) = Len(s) + Len(u) + 1
  BY <1>1, <1>2, <1>3
<1>5. \A i \in 1 .. Len(s) + Len(u) + 1 : t[i] = v[i]
  <2> TAKE i \in 1 .. Len(s) + Len(u) + 1
  <2>1. CASE i <= Len(s)
    BY <1>1, <1>2, <1>3, <2>1
  <2>2. CASE i > Len(s) /\ i <= Len(s) + Len(u)
    <3>1. t[i] = u[i - Len(s)] /\ v[i] = u[i - Len(s)]
      BY <1>1, <1>2, <1>3, <2>2
    <3> QED
      BY <3>1
  <2>3. CASE i = Len(s) + Len(u) + 1
    <3>1. t[i] = r /\ v[i] = r
      BY <1>1, <1>2, <1>3, <2>3
    <3> QED
      BY <3>1
  <2>4. Len(s) \in Nat /\ Len(u) \in Nat
    BY <1>1
  <2> QED
    BY <2>1, <2>2, <2>3, <2>4
<1> QED
  BY <1>1, <1>2, <1>3, <1>4, <1>5

\* Moving the head of b to the end of a changes nothing about a and b together.
LEMMA PopsInOrder ==
  ASSUME NEW S, NEW a \in Seq(S), NEW b \in Seq(S), b # << >>
  PROVE  Append(a, Head(b)) \o Tail(b) = a \o b
<1>1. PICK h \in S : h = Head(b)
  OBVIOUS
<1>0. Tail(b) \in Seq(S)
  OBVIOUS
<1>2. PICK d \in Seq(S) : d = Tail(b)
  BY <1>0
<1>3. PICK t : t = Append(a, h) \o d
  OBVIOUS
<1>4. PICK v : v = a \o b
  OBVIOUS
<1>5. /\ t \in Seq(S) /\ Len(t) = Len(a) + Len(b)
      /\ v \in Seq(S) /\ Len(v) = Len(a) + Len(b)
  BY <1>1, <1>2, <1>3, <1>4
<1>6. \A i \in 1 .. Len(a) + Len(b) : t[i] = v[i]
  <2> TAKE i \in 1 .. Len(a) + Len(b)
  <2>1. CASE i <= Len(a)
    BY <1>1, <1>2, <1>3, <1>4, <2>1
  <2>2. CASE i = Len(a) + 1
    <3>1. t[i] = h /\ v[i] = b[1]
      BY <1>1, <1>2, <1>3, <1>4, <2>2
    <3> QED
      BY <1>1, <3>1
  <2>3. CASE i > Len(a) + 1
    <3>1. t[i] = d[i - (Len(a) + 1)] /\ v[i] = b[i - Len(a)]
      BY <1>1, <1>2, <1>3, <1>4, <2>3
    <3>2. d[i - (Len(a) + 1)] = b[i - (Len(a) + 1) + 1]
      BY <1>2, <2>3
    <3> QED
      BY <3>1, <3>2
  <2> QED
    BY <2>1, <2>2, <2>3
<1> QED
  BY <1>1, <1>2, <1>3, <1>4, <1>5, <1>6

\* The files are typed, and so is everything in them.
LEMMA FilesTyped ==
  ASSUME Typed, NEW to \in Tables
  PROVE  Files(to) \in Filings
<1> SUFFICES ASSUME NEW x \in Places PROVE Files(to)[x] \in Seq(ReportType)
  BY DEF Files, Filings
<1>1. CASE x \in Connections
  <2>1. /\ received[x] \in Seq(ReportType) /\ backlog[x] \in Seq(ReportType)
        /\ to.outbound[x] \in Seq(ReportType)
    BY <1>1 DEF Typed, ConnectionsTyped, Tables
  <2> QED
    BY <1>1, <2>1 DEF Files
<1>2. CASE x \notin Connections
  BY <1>2 DEF Files, Places, Tables
<1> QED
  BY <1>1, <1>2

\* One report is routed: nothing else moves, and it is filed where its
\* account's reports are.
LEMMA RouteFiles ==
  ASSUME Typed, Bound, NEW to \in Tables, NEW r \in ReportType,
         Filed(Files(to), Holder), AllUpTo(Files(to), r.n), Nowhere(r, Files(to)),
         NEW new \in Tables, RoutedTo(to, new, r)
  PROVE  OnTop(Files(new), Files(to), Holder, r)
<1>2. new = to \/ Delivered(to, new, r) \/ Kept(to, new, r)
  BY DEF RoutedTo
<1>3. PICK F : F = Files(to)
  OBVIOUS
<1>4. PICK G : G = Files(new)
  OBVIOUS
<1>5. F \in Filings /\ G \in Filings
  BY <1>2, <1>3, <1>4, FilesTyped
<1>6. PICK a \in Accounts : a = AccountOf(r.key)
  BY KeyAccount DEF ReportType
<1>7. a \in Places /\ a \notin Connections /\ Holder[a] = a
  BY <1>6, DisjointAssumption DEF Places, Holder
<1>8. CASE new = to
  BY <1>8 DEF OnTop
<1>9. CASE Delivered(to, new, r)
  <2>1. PICK c : c = target[1]
    OBVIOUS
  <2>2. /\ c \in Connections /\ account[c] = a /\ new.pending = to.pending
        /\ new.outbound = [to.outbound EXCEPT ![c] = Append(@, r)]
    BY <1>6, <1>9, <2>1 DEF Delivered
  <2>3. c \in Places /\ Holder[c] = a
    BY <2>2 DEF Places, Holder
  <2>4. /\ received[c] \in Seq(ReportType) /\ backlog[c] \in Seq(ReportType)
        /\ to.outbound[c] \in Seq(ReportType)
    BY <2>2 DEF Typed, ConnectionsTyped, Tables
  <2>5. G[c] = received[c] \o backlog[c] \o Append(to.outbound[c], r)
    BY <1>4, <2>2, <2>3 DEF Files, Tables
  <2>6. G[c] = Append(F[c], r)
    <3>1. F[c] = received[c] \o backlog[c] \o to.outbound[c]
      BY <1>3, <2>2, <2>3 DEF Files
    <3> DEFINE p == received[c]
               b == backlog[c]
               u == to.outbound[c]
    <3>2. p \in Seq(ReportType) /\ b \in Seq(ReportType) /\ u \in Seq(ReportType)
      BY <2>4
    <3>3. G[c] = p \o b \o Append(u, r) /\ F[c] = p \o b \o u
      BY <2>5, <3>1
    <3> HIDE DEF p, b, u
    <3>4. p \o b \o Append(u, r) = Append(p \o b \o u, r)
      BY <3>2, QueueOneMore
    <3> QED
      BY <3>3, <3>4
  <2>7. \A x \in Places : x # c => G[x] = F[x]
    BY <1>3, <1>4, <2>2 DEF Files, Tables
  <2>8. G = [F EXCEPT ![c] = Append(@, r)]
    BY <1>5, <2>3, <2>6, <2>7 DEF Filings
  <2>9. OnTop(G, F, Holder, r)
    BY <1>3, <1>5, <1>6, <2>3, <2>8, FileOne
  <2> QED
    BY <1>3, <1>4, <2>9
<1>10. CASE Kept(to, new, r)
  <2>1. /\ new.outbound = to.outbound
        /\ \/ new.pending = [to.pending EXCEPT ![a] = Append(@, r)]
           \/ /\ to.pending[a] # << >>
              /\ new.pending = [to.pending EXCEPT ![a] = Append(Tail(@), r)]
    BY <1>6, <1>10 DEF Kept
  <2>2. F[a] = to.pending[a] /\ G[a] = new.pending[a]
    BY <1>3, <1>4, <1>7 DEF Files
  <2>3. \A x \in Places : x # a => G[x] = F[x]
    <3> TAKE x \in Places
    <3> HAVE x # a
    <3>1. CASE x \in Connections
      BY <1>3, <1>4, <2>1, <3>1 DEF Files
    <3>2. CASE x \notin Connections
      BY <1>3, <1>4, <2>1, <3>2 DEF Files, Tables, Places
    <3> QED
      BY <3>1, <3>2
  <2>4. CASE new.pending = [to.pending EXCEPT ![a] = Append(@, r)]
    <3>1. G = [F EXCEPT ![a] = Append(@, r)]
      BY <1>5, <1>6, <1>7, <2>2, <2>3, <2>4 DEF Filings, Tables
    <3>2. OnTop(G, F, Holder, r)
      BY <1>3, <1>5, <1>6, <1>7, <3>1, FileOne
    <3> QED
      BY <1>3, <1>4, <3>2
  <2>5. CASE /\ to.pending[a] # << >>
             /\ new.pending = [to.pending EXCEPT ![a] = Append(Tail(@), r)]
    <3>1. PICK D : D = [F EXCEPT ![a] = Tail(@)]
      OBVIOUS
    <3>0. D \in Filings /\ Filed(D, Holder) /\ NoMore(D, F)
      BY <1>3, <1>5, <1>7, <2>2, <2>5, <3>1, DropOldest
    <3>2. /\ D \in Filings /\ Filed(D, Holder) /\ AllUpTo(D, r.n)
          /\ \A q : Nowhere(q, F) => Nowhere(q, D)
      BY <1>3, <3>0 DEF NoMore
    <3>3. G[a] = Append(Tail(F[a]), r) /\ D[a] = Tail(F[a])
      BY <1>5, <1>6, <1>7, <2>2, <2>5, <3>1 DEF Filings, Tables
    <3>4. \A x \in Places : x # a => G[x] = D[x]
      BY <1>5, <2>3, <3>1 DEF Filings
    <3>5. G = [D EXCEPT ![a] = Append(@, r)]
      BY <1>5, <1>7, <3>2, <3>3, <3>4 DEF Filings
    <3>6. Nowhere(r, D)
      BY <1>3, <3>2
    <3>7. OnTop(G, D, Holder, r)
      BY <1>6, <1>7, <3>2, <3>5, <3>6, FileOne
    <3>8. OnTop(G, F, Holder, r)
      BY <3>2, <3>7 DEF OnTop
    <3> QED
      BY <1>3, <1>4, <3>8
  <2> QED
    BY <2>1, <2>4, <2>5
<1> QED
  BY <1>2, <1>8, <1>9, <1>10
-----------------------------------------------------------------------------
(***************************************************************************)
(* FilingInv: reports are private, in order and filed once.                *)
(***************************************************************************)
\* Only the queue of the session that was chosen gets the report.
LEMMA DeliverSpares ==
  ASSUME Typed, Bound, DeliverReport, NEW c \in Connections,
         account[c] = Nobody \/ c # target[1]
  PROVE  outbound'[c] = outbound[c]
<1>1. PICK r : r = Report(event[1], turn)
  OBVIOUS
<1>2. r.key \in OrderKeys
  BY <1>1, NextReport DEF DeliverReport
<1>3. RoutedTo(Here, Here', r)
  BY <1>1, DeliverCases
<1>4. CASE Here' = Here
  BY <1>4 DEF Here
<1>5. CASE Delivered(Here, Here', r)
  <2>1. /\ account[target[1]] = AccountOf(r.key)
        /\ outbound' = [outbound EXCEPT ![target[1]] = Append(@, r)]
    BY <1>5 DEF Delivered, Here
  <2>2. c # target[1]
    BY <1>2, <2>1, KeyAccount
  <2> QED
    BY <2>1, <2>2 DEF Typed, ConnectionsTyped
<1>6. CASE Kept(Here, Here', r)
  BY <1>6 DEF Kept, Here
<1> QED
  BY <1>3, <1>4, <1>5, <1>6 DEF RoutedTo

\* A report that is delivered is filed on top of everything else, and the
\* other one of a trade is still filed nowhere.
LEMMA DeliverFiling ==
  ASSUME Typed, Bound, FilingInv, DeliverReport
  PROVE  FilingInv'
<1>1. PICK r : r = Report(event[1], turn)
  OBVIOUS
<1>2. /\ Routing /\ turn' = turn + 1
      /\ UNCHANGED <<account, closed, backlog, replies, received, event, emitted>>
  BY DEF DeliverReport, exchange
<1>3. /\ turn \in 1 .. Len(event[1].keys) /\ IsEvent(event[1])
      /\ r.key = event[1].keys[turn] /\ r \in ReportType /\ r.n = emitted /\ r \in Unrouted
  BY <1>1, <1>2, NextReport
<1>4. PICK new : new = Here'
  OBVIOUS
<1>5. new \in Tables /\ RoutedTo(Here, new, r) /\ Here \in Tables
  BY <1>1, <1>4, DeliverCases, HereTyped
<1>6. /\ Filed(Files(Here), Holder) /\ AllUpTo(Files(Here), r.n)
      /\ \A x \in Unrouted : Nowhere(x, Files(Here))
  BY <1>3 DEF FilingInv, Numbered
<1>7. OnTop(Files(new), Files(Here), Holder, r)
  BY <1>3, <1>5, <1>6, RouteFiles
<1>8. Files(Here)' = Files(new) /\ Holder' = Holder
  BY <1>2, <1>4 DEF Files, Here, Holder
<1>9. \A x \in Unrouted' : x \in Unrouted /\ x # r
  <2> SUFFICES ASSUME NEW j \in turn + 1 .. Len(event[1].keys)
               PROVE  Report(event[1], j) \in Unrouted /\ Report(event[1], j) # r
    BY <1>2 DEF Unrouted, Report, Routing
  <2>0. PICK l \in {1, 2} : l = Len(event[1].keys)
    BY <1>3 DEF IsEvent
  <2>01. turn \in 1 .. l /\ j \in turn + 1 .. l
    BY <1>3, <2>0
  <2>02. turn \in Int /\ j \in Int /\ turn = 1 /\ j = 2 /\ l = 2
    BY <2>01
  <2>1. j \in turn .. Len(event[1].keys) /\ turn = 1 /\ j = 2 /\ Len(event[1].keys) = 2
    BY <2>0, <2>02
  <2>2. event[1].keys[2] # event[1].keys[1]
    BY <1>3, <2>1 DEF IsEvent
  <2> QED
    BY <1>2, <1>3, <2>1, <2>2 DEF Unrouted, Report, Routing
<1>10. Numbered'
  BY <1>2, <1>3, <1>6, <1>7, <1>8, <1>9 DEF Numbered, OnTop, FilingInv
<1>11. Unbound'
  BY <1>2, DeliverSpares DEF FilingInv, Unbound
<1>12. AnswersUnnumbered'
  BY <1>2 DEF FilingInv, AnswersUnnumbered
<1> QED
  BY <1>7, <1>8, <1>10, <1>11, <1>12 DEF FilingInv, OnTop

\* Steps that move no report: the clock may tick, one event at a time.
LEMMA QuietFiling ==
  ASSUME Typed, FilingInv, UNCHANGED <<account, backlog, outbound, received, pending>>,
         AnswersUnnumbered',
         \A c \in Connections : account[c] = Nobody => replies'[c] = replies[c],
         \/ emitted' = emitted /\ Unrouted' \subseteq Unrouted
         \/ emitted' = emitted + 1 /\ \A r \in Unrouted' : r.n = emitted + 1
  PROVE  FilingInv'
<1>1. Files(Here)' = Files(Here) /\ Holder' = Holder
  BY DEF Files, Here, Holder
<1>2. Unbound'
  BY DEF FilingInv, Unbound
<1>3. PICK F : F = Files(Here)
  OBVIOUS
<1>4. F \in Filings /\ emitted \in Nat /\ AllUpTo(F, emitted) /\ \A r \in Unrouted : Nowhere(r, F)
  BY <1>3, HereTyped, FilesTyped DEF FilingInv, Numbered, Typed, ExchangeTyped
<1>5. \A x \in Places : \A i \in DOMAIN F[x] : F[x][i].n \in Nat /\ F[x][i].n <= emitted
  <2> TAKE x \in Places
  <2> TAKE i \in DOMAIN F[x]
  <2>1. F[x] \in Seq(ReportType)
    BY <1>4 DEF Filings
  <2>2. F[x][i] \in ReportType
    BY <2>1
  <2> QED
    BY <1>4, <2>2 DEF AllUpTo, UpTo, ReportType
<1>6. ASSUME emitted' = emitted + 1 PROVE AllUpTo(F, emitted')
  BY <1>4, <1>5, <1>6 DEF AllUpTo, UpTo
<1>7. ASSUME NEW r, r.n = emitted + 1 PROVE Nowhere(r, F)
  BY <1>4, <1>5, <1>7 DEF Nowhere, Absent
<1>8. Numbered'
  BY <1>1, <1>3, <1>4, <1>6, <1>7 DEF Numbered, FilingInv
<1>9. Filed(Files(Here), Holder)'
  BY <1>1 DEF FilingInv
<1> QED
  BY <1>2, <1>8, <1>9 DEF FilingInv

\* The matching thread emits one event at a time and files nothing itself.
LEMMA MatchFiling ==
  ASSUME Typed, FilingInv, MatchingThread, ~DeliverReport
  PROVE  FilingInv'
<1>1. UNCHANGED <<account, backlog, replies, outbound, received, pending>>
  BY DEF MatchingThread, Reject, AcceptNew, AcceptCancel, AcceptReplace, Take, Trade,
         FinishMatching, ChooseTarget, UpdateOwnership, connVars, tables
<1>2. \/ emitted' = emitted /\ Unrouted' \subseteq Unrouted
      \/ emitted' = emitted + 1 /\ \A r \in Unrouted' : r.n = emitted + 1
  <2>1. ASSUME NEW e, Emit(e)
        PROVE  emitted' = emitted + 1 /\ \A r \in Unrouted' : r.n = emitted + 1
    BY <2>1 DEF Emit, Unrouted, Report
  <2>2. CASE Reject
    BY <2>1, <2>2 DEF Reject
  <2>3. CASE AcceptNew
    BY <2>1, <2>3 DEF AcceptNew
  <2>4. CASE AcceptCancel
    BY <2>1, <2>4 DEF AcceptCancel
  <2>5. CASE AcceptReplace
    BY <2>1, <2>5 DEF AcceptReplace
  <2>6. CASE \E k \in holds : \E filled \in SUBSET (holds \cup Range(active)) : Trade(k, filled)
    BY <2>1, <2>6 DEF Trade
  <2>7. CASE FinishMatching
    BY <2>7 DEF FinishMatching, routing, Unrouted, Report
  <2>8. CASE ChooseTarget
    BY <2>8 DEF ChooseTarget, exchange, Unrouted, Report
  <2>9. CASE UpdateOwnership
    BY <2>9 DEF UpdateOwnership, Unrouted
  <2> QED
    BY <2>2, <2>3, <2>4, <2>5, <2>6, <2>7, <2>8, <2>9 DEF MatchingThread
<1>3. AnswersUnnumbered'
  BY <1>1 DEF FilingInv, AnswersUnnumbered
<1> QED
  BY <1>1, <1>2, <1>3, QuietFiling
-----------------------------------------------------------------------------
\* A connection that has nothing takes over everything retained at a.
LEMMA TakeOver ==
  ASSUME NEW F \in Filings, NEW H, Filed(F, H), NEW c \in Places, NEW a \in Places, c # a,
         F[c] = << >>, H[a] = a,
         NEW G \in Filings, G[c] = F[a], G[a] = << >>,
         \A x \in Places \ {a, c} : G[x] = F[x],
         NEW K, K[c] = a, \A x \in Places \ {c} : K[x] = H[x]
  PROVE  Filed(G, K) /\ NoMore(G, F)
<1>1. \A x \in Places : IsPrivate(G[x], K[x]) /\ InOrder(G[x]) /\ NoRepeat(G[x])
  <2> TAKE x \in Places
  <2>1. CASE x = c
    BY <2>1 DEF Filed
  <2>2. CASE x = a
    BY <2>2 DEF IsPrivate, InOrder, NoRepeat
  <2>3. CASE x \notin {a, c}
    BY <2>3 DEF Filed
  <2> QED
    BY <2>1, <2>2, <2>3
<1>2. ASSUME NEW x \in Places, NEW y \in Places, x # y PROVE Apart(G[x], G[y])
  <2>1. CASE x = a \/ y = a
    BY <2>1 DEF Apart
  <2>2. CASE x = c /\ y # a
    <3>1. Apart(F[a], F[y])
      BY <2>2 DEF Filed
    <3> QED
      BY <1>2, <2>2, <3>1
  <2>3. CASE y = c /\ x # a
    <3>1. Apart(F[x], F[a])
      BY <2>3 DEF Filed
    <3> QED
      BY <1>2, <2>3, <3>1
  <2>4. CASE x \notin {a, c} /\ y \notin {a, c}
    BY <1>2, <2>4 DEF Filed
  <2> QED
    BY <2>1, <2>2, <2>3, <2>4
<1>3. ASSUME NEW m, AllUpTo(F, m) PROVE AllUpTo(G, m)
  <2> SUFFICES ASSUME NEW x \in Places PROVE UpTo(G[x], m)
    BY DEF AllUpTo
  <2>1. CASE x = a
    BY <2>1 DEF UpTo
  <2>2. CASE x # a
    BY <1>3, <2>2 DEF AllUpTo
  <2> QED
    BY <2>1, <2>2
<1>4. ASSUME NEW q, Nowhere(q, F) PROVE Nowhere(q, G)
  <2> SUFFICES ASSUME NEW x \in Places PROVE Absent(q, G[x])
    BY DEF Nowhere
  <2>1. CASE x = a
    BY <2>1 DEF Absent
  <2>2. CASE x # a
    BY <1>4, <2>2 DEF Nowhere
  <2> QED
    BY <2>1, <2>2
<1> QED
  BY <1>1, <1>2, <1>3, <1>4 DEF Filed, NoMore

\* Binding moves what was retained; any other request moves no report.
LEMMA ReadFiling ==
  ASSUME Typed, Typed', FilingInv, NEW c \in Connections, NEW cmd \in Requests,
         BindSession(c, cmd) \/ ReadBound(c, cmd) \/ RejectAccountMismatch(c, cmd)
  PROVE  FilingInv'
<1>1. CASE BindSession(c, cmd)
  <2>1. PICK a \in Accounts : a = AccountOf(cmd.key)
    BY RequestForm, KeyAccount
  <2>2. /\ account[c] = Nobody /\ account' = [account EXCEPT ![c] = a]
        /\ backlog' = [backlog EXCEPT ![c] = pending[a]]
        /\ pending' = [pending EXCEPT ![a] = << >>]
        /\ UNCHANGED <<replies, outbound, received, event, emitted, turn>>
    BY <1>1, <2>1 DEF BindSession, exchange, routing
  <2>3. /\ received[c] = << >> /\ backlog[c] = << >> /\ outbound[c] = << >>
    BY <2>2 DEF FilingInv, Unbound
  <2>4. /\ c \in Places /\ a \in Places /\ a \notin Connections /\ a # c
    BY DisjointAssumption DEF Places
  <2>5. PICK F : F = Files(Here)
    OBVIOUS
  <2>6. PICK G : G = Files(Here)'
    OBVIOUS
  <2>7. F \in Filings /\ G \in Filings
    <3>1. Here \in Tables /\ Here' \in Tables
      BY DEF Here, Tables, Typed, ConnectionsTyped
    <3>2. F \in Filings
      BY <2>5, <3>1, FilesTyped
    <3>3. \A x \in Places : G[x] \in Seq(ReportType)
      <4> TAKE x \in Places
      <4>1. CASE x \in Connections
        <5>1. /\ received'[x] \in Seq(ReportType) /\ backlog'[x] \in Seq(ReportType)
              /\ outbound'[x] \in Seq(ReportType)
          BY <4>1 DEF Typed, ConnectionsTyped
        <5> QED
          BY <2>6, <4>1, <5>1 DEF Files, Here
      <4>2. CASE x \notin Connections
        BY <2>6, <4>2 DEF Files, Here, Places, Typed, ConnectionsTyped
      <4> QED
        BY <4>1, <4>2
    <3> QED
      BY <2>6, <3>2, <3>3 DEF Files, Filings
  <2>8. F[c] = << >> /\ F[a] = pending[a]
    BY <2>3, <2>4, <2>5 DEF Files, Here
  <2>9. G[c] = F[a]
    <3>1. pending[a] \in Seq(ReportType)
      BY DEF Typed, ConnectionsTyped
    <3>2. backlog'[c] = pending[a] /\ received'[c] = << >> /\ outbound'[c] = << >>
      BY <2>2, <2>3 DEF Typed, ConnectionsTyped
    <3>3. G[c] = << >> \o pending[a] \o << >>
      BY <2>4, <2>6, <3>2 DEF Files, Here
    <3> QED
      BY <2>8, <3>1, <3>3
  <2>10. G[a] = << >>
    BY <2>2, <2>4, <2>6 DEF Files, Here, Typed, ConnectionsTyped
  <2>11. \A x \in Places \ {a, c} : G[x] = F[x]
    <3> TAKE x \in Places \ {a, c}
    <3>1. CASE x \in Connections
      BY <2>2, <2>5, <2>6, <3>1 DEF Files, Here, Typed, ConnectionsTyped
    <3>2. CASE x \notin Connections
      BY <2>2, <2>5, <2>6, <3>2 DEF Files, Here, Places, Typed, ConnectionsTyped
    <3> QED
      BY <3>1, <3>2
  <2>12. PICK K : K = Holder'
    OBVIOUS
  <2>13. Holder[a] = a /\ K[c] = a /\ \A x \in Places \ {c} : K[x] = Holder[x]
    BY <2>2, <2>4, <2>12 DEF Holder, Typed, ConnectionsTyped
  <2>14. /\ Filed(F, Holder) /\ AllUpTo(F, emitted)
         /\ \A r \in Unrouted : Nowhere(r, F)
    BY <2>5 DEF FilingInv, Numbered
  <2>15. Filed(G, K) /\ NoMore(G, F)
    BY <2>4, <2>7, <2>8, <2>9, <2>10, <2>11, <2>13, <2>14, TakeOver
  <2>16. Unrouted' = Unrouted
    BY <2>2 DEF Unrouted, Report
  <2>17. Numbered'
    BY <2>2, <2>6, <2>14, <2>15, <2>16 DEF Numbered, NoMore, FilingInv
  <2>18. Unbound'
    BY <2>1, <2>2, NobodyAssumption DEF Unbound, FilingInv, Typed, ConnectionsTyped
  <2>19. AnswersUnnumbered'
    BY <2>2 DEF AnswersUnnumbered, FilingInv
  <2>20. Filed(Files(Here), Holder)'
    BY <2>6, <2>12, <2>15
  <2> QED
    BY <2>17, <2>18, <2>19, <2>20 DEF FilingInv
<1>2. CASE ReadBound(c, cmd)
  <2>1. UNCHANGED <<account, backlog, replies, outbound, received, pending, event, emitted, turn>>
    BY <1>2 DEF ReadBound, connVars, tables, exchange, routing
  <2>2. AnswersUnnumbered'
    BY <2>1 DEF FilingInv, AnswersUnnumbered
  <2>3. emitted' = emitted /\ Unrouted' \subseteq Unrouted
    BY <2>1 DEF Unrouted, Report
  <2> QED
    BY <2>1, <2>2, <2>3, QuietFiling
<1>3. CASE RejectAccountMismatch(c, cmd)
  <2>1. UNCHANGED <<account, backlog, outbound, received, pending, event, emitted, turn>>
    BY <1>3 DEF RejectAccountMismatch, tables, exchange, routing
  <2>2. /\ account[c] # Nobody
        /\ replies' = [replies EXCEPT ![c] =
             IF Len(@) < OutboundCapacity THEN Append(@, [key |-> cmd.key, n |-> 0]) ELSE @]
    BY <1>3 DEF RejectAccountMismatch
  <2>3. \A d \in Connections : d # c => replies'[d] = replies[d]
    BY <2>2 DEF Typed, ConnectionsTyped
  <2>4. replies'[c] \in {replies[c], Append(replies[c], [key |-> cmd.key, n |-> 0])}
    BY <2>2 DEF Typed, ConnectionsTyped
  <2>5. replies[c] \in Seq(ReportType)
    BY DEF Typed, ConnectionsTyped
  <2>6. AnswersUnnumbered'
    BY <2>3, <2>4, <2>5 DEF FilingInv, AnswersUnnumbered
  <2>7. emitted' = emitted /\ Unrouted' \subseteq Unrouted
    BY <2>1 DEF Unrouted, Report
  <2> QED
    BY <2>1, <2>2, <2>3, <2>6, <2>7, QuietFiling
<1> QED
  BY <1>1, <1>2, <1>3
-----------------------------------------------------------------------------
\* An answer without a number is written before u.
LEMMA AnswerKeeps ==
  ASSUME NEW p \in Seq(ReportType), NEW u \in Seq(ReportType),
         NEW z \in ReportType, z.n = 0,
         NEW s, s = p \o u, NEW t, t = Append(p, z) \o u
  PROVE  /\ t \in Seq(ReportType)
         /\ \A a : IsPrivate(s, a) => IsPrivate(t, a)
         /\ InOrder(s) => InOrder(t)
         /\ NoRepeat(s) => NoRepeat(t)
         /\ \A m \in Nat : UpTo(s, m) => UpTo(t, m)
         /\ \A q : Absent(q, s) /\ q # z => Absent(q, t)
         /\ \A w \in Seq(ReportType) :
              Apart(s, w) /\ Apart(w, s) => Apart(t, w) /\ Apart(w, t)
<1> DEFINE old(i) == IF i <= Len(p) THEN i ELSE i - 1
<1>1. /\ s \in Seq(ReportType) /\ t \in Seq(ReportType)
      /\ Len(s) = Len(p) + Len(u) /\ Len(t) = Len(p) + Len(u) + 1
      /\ Len(p) \in Nat /\ Len(u) \in Nat
  OBVIOUS
<1>2. t[Len(p) + 1] = z
  OBVIOUS
<1>3. ASSUME NEW i \in 1 .. Len(t), i # Len(p) + 1
      PROVE  old(i) \in 1 .. Len(s) /\ t[i] = s[old(i)]
  <2>1. CASE i <= Len(p)
    BY <1>1, <2>1
  <2>2. CASE i > Len(p) + 1
    <3>1. t[i] = u[i - (Len(p) + 1)] /\ s[i - 1] = u[i - 1 - Len(p)]
      BY <1>1, <2>2
    <3>2. i - 1 - Len(p) = i - (Len(p) + 1)
      BY <1>1
    <3> QED
      BY <1>1, <2>2, <3>1, <3>2
  <2> QED
    BY SMTT(40), <1>1, <1>3, <2>1, <2>2
<1>4. \A i \in 1 .. Len(s), j \in 1 .. Len(t) : s[i].n \in Nat /\ t[j].n \in Nat
  <2>1. \A i \in 1 .. Len(s), j \in 1 .. Len(t) : s[i] \in ReportType /\ t[j] \in ReportType
    BY <1>1
  <2> QED
    BY <2>1 DEF ReportType
<1>5. /\ DOMAIN s = 1 .. Len(s) /\ DOMAIN t = 1 .. Len(t)
  BY <1>1
<1>6. ASSUME NEW i \in 1 .. Len(t), t[i].n > 0
      PROVE  i # Len(p) + 1
  BY <1>2, <1>6
<1>7. ASSUME NEW a, IsPrivate(s, a) PROVE IsPrivate(t, a)
  <2> SUFFICES ASSUME NEW i \in 1 .. Len(t), t[i].n > 0 PROVE AccountOf(t[i].key) = a
    BY <1>5 DEF IsPrivate
  <2>1. old(i) \in 1 .. Len(s) /\ t[i] = s[old(i)]
    BY <1>3, <1>6
  <2> HIDE DEF old
  <2> QED
    BY <1>5, <1>7, <2>1 DEF IsPrivate
<1>8. ASSUME InOrder(s) PROVE InOrder(t)
  <2> SUFFICES ASSUME NEW i \in 1 .. Len(t), NEW j \in 1 .. Len(t), i < j, t[j].n > 0
               PROVE  t[i].n <= t[j].n
    BY <1>5 DEF InOrder
  <2>1. CASE i = Len(p) + 1
    BY <1>2, <1>4, <2>1
  <2>2. CASE i # Len(p) + 1
    <3>1. /\ old(i) \in 1 .. Len(s) /\ t[i] = s[old(i)]
          /\ old(j) \in 1 .. Len(s) /\ t[j] = s[old(j)]
      BY <1>3, <1>6, <2>2
    <3>2. old(i) < old(j)
      BY <1>1, <1>6, <2>2
    <3> HIDE DEF old
    <3> QED
      BY <1>5, <1>8, <3>1, <3>2 DEF InOrder
  <2> QED
    BY <2>1, <2>2
<1>9. ASSUME NoRepeat(s) PROVE NoRepeat(t)
  <2> SUFFICES ASSUME NEW i \in 1 .. Len(t), NEW j \in 1 .. Len(t), t[i].n > 0, t[i] = t[j]
               PROVE  i = j
    BY <1>5 DEF NoRepeat
  <2>1. /\ i # Len(p) + 1 /\ old(i) \in 1 .. Len(s) /\ t[i] = s[old(i)]
        /\ j # Len(p) + 1 /\ old(j) \in 1 .. Len(s) /\ t[j] = s[old(j)]
    BY <1>3, <1>6
  <2>2. old(i) = old(j)
    <3> HIDE DEF old
    <3> QED
      BY <1>5, <1>9, <2>1 DEF NoRepeat
  <2> QED
    BY SMTT(40), <1>1, <2>1, <2>2
<1>10. ASSUME NEW m \in Nat, UpTo(s, m) PROVE UpTo(t, m)
  <2> SUFFICES ASSUME NEW i \in 1 .. Len(t) PROVE t[i].n <= m
    BY <1>5 DEF UpTo
  <2>1. CASE i = Len(p) + 1
    BY <1>2, <2>1
  <2>2. CASE i # Len(p) + 1
    <3>1. old(i) \in 1 .. Len(s) /\ t[i] = s[old(i)]
      BY <1>3, <2>2
    <3> HIDE DEF old
    <3> QED
      BY <1>5, <1>10, <3>1 DEF UpTo
  <2> QED
    BY <2>1, <2>2
<1>11. ASSUME NEW w \in Seq(ReportType), Apart(s, w), Apart(w, s)
       PROVE  Apart(t, w) /\ Apart(w, t)
  <2>1. ASSUME NEW i \in 1 .. Len(t), NEW j \in DOMAIN w, t[i] = w[j], t[i].n > 0
        PROVE  FALSE
    <3>1. old(i) \in 1 .. Len(s) /\ t[i] = s[old(i)]
      BY <1>3, <1>6, <2>1
    <3> HIDE DEF old
    <3> QED
      BY <1>5, <1>11, <2>1, <3>1 DEF Apart
  <2> QED
    BY <1>5, <2>1 DEF Apart
<1>12. ASSUME NEW q, Absent(q, s), q # z PROVE Absent(q, t)
  <2> SUFFICES ASSUME NEW i \in 1 .. Len(t) PROVE t[i] # q
    BY <1>5 DEF Absent
  <2>1. CASE i = Len(p) + 1
    BY <1>2, <1>12, <2>1
  <2>2. CASE i # Len(p) + 1
    <3>1. old(i) \in 1 .. Len(s) /\ t[i] = s[old(i)]
      BY <1>3, <2>2
    <3> HIDE DEF old
    <3> QED
      BY <1>5, <1>12, <3>1 DEF Absent
  <2> QED
    BY <2>1, <2>2
<1> QED
  BY <1>1, <1>7, <1>8, <1>9, <1>10, <1>11, <1>12

\* handle_write moves the oldest report on, or puts an answer in between.
LEMMA WriteFiling ==
  ASSUME Typed, Typed', FilingInv, NEW c \in Connections, PopOutbound(c) \/ CloseConnection(c)
  PROVE  FilingInv'
<1>1. CASE CloseConnection(c)
  <2>1. UNCHANGED <<account, backlog, replies, outbound, received, pending, event, emitted, turn>>
    BY <1>1 DEF CloseConnection, tables, exchange, routing
  <2>2. AnswersUnnumbered'
    BY <2>1 DEF FilingInv, AnswersUnnumbered
  <2>3. emitted' = emitted /\ Unrouted' \subseteq Unrouted
    BY <2>1 DEF Unrouted, Report
  <2> QED
    BY <2>1, <2>2, <2>3, QuietFiling
<1>2. CASE PopOutbound(c)
  <2>1. UNCHANGED <<account, pending, event, emitted, turn>>
    BY <1>2 DEF PopOutbound, tables, exchange, routing
  <2>2. PopsBacklog(c) \/ PopsReply(c) \/ PopsLive(c)
    BY <1>2, PopCases
  <2>3. account[c] # Nobody
    BY <2>2 DEF PopsBacklog, PopsReply, PopsLive, PopsFrom, FilingInv, Unbound
  <2>4. /\ received[c] \in Seq(ReportType) /\ backlog[c] \in Seq(ReportType)
        /\ outbound[c] \in Seq(ReportType) /\ replies[c] \in Seq(ReportType)
    BY DEF Typed, ConnectionsTyped
  <2>5. \A d \in Connections : d # c =>
          /\ received'[d] = received[d] /\ backlog'[d] = backlog[d]
          /\ replies'[d] = replies[d] /\ outbound'[d] = outbound[d]
    BY <2>2 DEF PopsBacklog, PopsReply, PopsLive, PopsFrom, Typed, ConnectionsTyped
  <2>6. Unbound'
    BY <2>1, <2>3, <2>5 DEF FilingInv, Unbound
  <2>7. AnswersUnnumbered'
    <3> SUFFICES ASSUME NEW i \in DOMAIN replies'[c] PROVE replies'[c][i].n = 0
      BY <2>5 DEF FilingInv, AnswersUnnumbered
    <3>1. CASE replies' = replies
      BY <3>1 DEF FilingInv, AnswersUnnumbered
    <3>2. CASE PopsReply(c)
      <4>1. replies[c] # << >> /\ replies'[c] = Tail(replies[c])
        BY <3>2 DEF PopsReply, PopsFrom, Typed, ConnectionsTyped
      <4>2. i + 1 \in DOMAIN replies[c] /\ replies'[c][i] = replies[c][i + 1]
        BY <2>4, <4>1
      <4> QED
        BY <4>2 DEF FilingInv, AnswersUnnumbered
    <3> QED
      BY <2>2, <3>1, <3>2 DEF PopsBacklog, PopsLive
  <2>8. PICK F : F = Files(Here)
    OBVIOUS
  <2>9. PICK G : G = Files(Here)'
    OBVIOUS
  <2>10. /\ F \in Filings /\ Filed(F, Holder) /\ AllUpTo(F, emitted) /\ emitted \in Nat
         /\ \A r \in Unrouted : Nowhere(r, F)
    <3>1. Here \in Tables
      BY HereTyped
    <3> QED
      BY <2>8, <3>1, FilesTyped DEF FilingInv, Numbered, Typed, ExchangeTyped
  <2>11. c \in Places /\ F[c] = received[c] \o backlog[c] \o outbound[c]
    BY <2>8 DEF Files, Here, Places
  <2>12. G[c] = received'[c] \o backlog'[c] \o outbound'[c] /\ G = [x \in Places |-> G[x]]
    BY <2>9 DEF Files, Here, Places
  <2>13. \A x \in Places : x # c => G[x] = F[x]
    BY <2>1, <2>5, <2>8, <2>9 DEF Files, Here
  <2>14. Holder' = Holder /\ Unrouted' = Unrouted
    BY <2>1 DEF Holder, Unrouted, Report
  <2>18. \A r \in Unrouted : r.n = emitted /\ emitted > 0
    <3>1. Unrouted # {} => emitted > 0
      BY DEF FilingInv, Numbered
    <3>2. \A r \in Unrouted : r.n = emitted
      <4>1. CASE event = << >>
        BY <4>1 DEF Unrouted
      <4>2. CASE event # << >>
        <5>1. Unrouted = {Report(event[1], j) : j \in turn .. Len(event[1].keys)}
          BY <4>2 DEF Unrouted
        <5>2. \A j : Report(event[1], j).n = emitted
          BY DEF Report
        <5> QED
          BY <5>1, <5>2
      <4> QED
        BY <4>1, <4>2
    <3> QED
      BY <3>1, <3>2
  <2>15. Filed(G, Holder) /\ AllUpTo(G, emitted) /\ \A r \in Unrouted : Nowhere(r, G)
    <3> DEFINE p == received[c]
               b == backlog[c]
               u == outbound[c]
    <3>1. CASE PopsBacklog(c)
      <4>1. /\ b # << >> /\ received'[c] = Append(p, Head(b)) /\ backlog'[c] = Tail(b)
            /\ outbound'[c] = u
        BY <3>1 DEF PopsBacklog, PopsFrom, Typed, ConnectionsTyped
      <4>2. p \in Seq(ReportType) /\ b \in Seq(ReportType)
        BY <2>4
      <4>3. F[c] = p \o b \o u /\ G[c] = Append(p, Head(b)) \o Tail(b) \o u
        BY <2>11, <2>12, <4>1
      <4> HIDE DEF p, b, u
      <4>4. Append(p, Head(b)) \o Tail(b) = p \o b
        BY <4>1, <4>2, PopsInOrder
      <4>5. G[c] = F[c]
        BY <4>3, <4>4
      <4>6. G = F
        BY <2>10, <2>12, <2>13, <4>5 DEF Filings
      <4> QED
        BY <2>10, <4>6
    <3>2. CASE PopsLive(c)
      <4>1. /\ b = << >> /\ u # << >> /\ received'[c] = Append(p, Head(u))
            /\ backlog'[c] = b /\ outbound'[c] = Tail(u)
        BY <3>2 DEF PopsLive, PopsFrom, Typed, ConnectionsTyped
      <4>2. p \in Seq(ReportType) /\ u \in Seq(ReportType)
        BY <2>4
      <4>3. F[c] = p \o b \o u /\ G[c] = Append(p, Head(u)) \o b \o Tail(u)
        BY <2>11, <2>12, <4>1
      <4> HIDE DEF p, b, u
      <4>4. p \o b = p /\ Append(p, Head(u)) \o b = Append(p, Head(u))
        BY <4>1, <4>2
      <4>5. Append(p, Head(u)) \o Tail(u) = p \o u
        BY <4>1, <4>2, PopsInOrder
      <4>6. G[c] = F[c]
        BY <4>3, <4>4, <4>5
      <4>7. G = F
        BY <2>10, <2>12, <2>13, <4>6 DEF Filings
      <4> QED
        BY <2>10, <4>7
    <3>3. CASE PopsReply(c)
      <4> DEFINE z == Head(replies[c])
      <4>1. /\ b = << >> /\ replies[c] # << >> /\ received'[c] = Append(p, z)
            /\ backlog'[c] = b /\ outbound'[c] = u
        BY <3>3 DEF PopsReply, PopsFrom, Typed, ConnectionsTyped
      <4>2. p \in Seq(ReportType) /\ u \in Seq(ReportType) /\ z \in ReportType
        BY <2>4, <4>1
      <4>3. z.n = 0
        <5>1. 1 \in DOMAIN replies[c] /\ z = replies[c][1]
          BY <2>4, <4>1
        <5> QED
          BY <5>1 DEF FilingInv, AnswersUnnumbered
      <4>4. F[c] = p \o b \o u /\ G[c] = Append(p, z) \o b \o u
        BY <2>11, <2>12, <4>1
      <4> HIDE DEF p, b, u, z
      <4>5. p \o b = p /\ Append(p, z) \o b = Append(p, z)
        BY <4>1, <4>2
      <4>6. F[c] = p \o u /\ G[c] = Append(p, z) \o u
        BY <4>4, <4>5
      <4>7. IsPrivate(G[c], Holder[c]) /\ InOrder(G[c]) /\ NoRepeat(G[c])
        <5>1. PICK s : s = F[c]
          OBVIOUS
        <5>2. PICK t : t = G[c]
          OBVIOUS
        <5>3. PICK a : a = Holder[c]
          OBVIOUS
        <5>4. IsPrivate(s, a) /\ InOrder(s) /\ NoRepeat(s)
          BY <2>10, <2>11, <5>1, <5>3 DEF Filed
        <5>5. s = p \o u /\ t = Append(p, z) \o u
          BY <4>6, <5>1, <5>2
        <5>6. IsPrivate(t, a) /\ InOrder(t) /\ NoRepeat(t)
          BY <4>2, <4>3, <5>4, <5>5, AnswerKeeps
        <5> QED
          BY <5>2, <5>3, <5>6
      <4>8. UpTo(G[c], emitted)
        BY ZenonT(40), <2>10, <2>11, <4>2, <4>3, <4>6, AnswerKeeps DEF AllUpTo
      <4>9. \A x \in Places \ {c} : Apart(G[c], F[x]) /\ Apart(F[x], G[c])
        <5> TAKE x \in Places \ {c}
        <5>1. F[x] \in Seq(ReportType) /\ Apart(F[c], F[x]) /\ Apart(F[x], F[c])
          BY <2>10, <2>11 DEF Filed, Filings
        <5> QED
          BY <4>2, <4>3, <4>6, <5>1, AnswerKeeps
      <4>10. Filed(G, Holder)
        BY <2>10, <2>13, <4>7, <4>9 DEF Filed
      <4>11. AllUpTo(G, emitted)
        BY <2>10, <2>13, <4>8 DEF AllUpTo
      <4>12. ASSUME NEW r \in Unrouted PROVE Nowhere(r, G)
        <5>1. r # z /\ Nowhere(r, F)
          BY <2>10, <2>18, <4>3
        <5>2. Absent(r, G[c])
          <6>1. Absent(r, F[c])
            BY <2>11, <5>1 DEF Nowhere
          <6>2. PICK s : s = F[c]
            OBVIOUS
          <6>3. PICK t : t = G[c]
            OBVIOUS
          <6>4. s = p \o u /\ t = Append(p, z) \o u /\ Absent(r, s)
            BY <4>6, <6>1, <6>2, <6>3
          <6>5. Absent(r, t)
            BY <4>2, <4>3, <5>1, <6>4, AnswerKeeps
          <6> QED
            BY <6>3, <6>5
        <5> QED
          BY <2>13, <5>1, <5>2 DEF Nowhere
      <4> QED
        BY <4>10, <4>11, <4>12
    <3> QED
      BY <2>2, <3>1, <3>2, <3>3
  <2>16. Numbered'
    BY <2>1, <2>9, <2>14, <2>15 DEF FilingInv, Numbered
  <2>17. Filed(Files(Here), Holder)'
    BY <2>9, <2>14, <2>15
  <2> QED
    BY <2>6, <2>7, <2>16, <2>17 DEF FilingInv
<1> QED
  BY <1>1, <1>2
-----------------------------------------------------------------------------
(***************************************************************************)
(* The gateway's promises.                                                 *)
(***************************************************************************)
\* Nothing is filed at first.
LEMMA InitFiling ==
  ASSUME RoutingInit
  PROVE  FilingInv
<1> DEFINE F == Files(Here)
<1>1. \A x \in Places : F[x] = << >>
  BY DEF RoutingInit, Files, Here, Places
<1>2. Unbound /\ AnswersUnnumbered
  BY DEF RoutingInit, Unbound, AnswersUnnumbered
<1>3. event = << >> /\ Unrouted = {}
  BY DEF RoutingInit, Unrouted
<1> HIDE DEF F
<1>4. Filed(F, Holder)
  BY <1>1 DEF Filed, IsPrivate, InOrder, NoRepeat, Apart
<1>5. AllUpTo(F, emitted)
  BY <1>1 DEF AllUpTo, UpTo
<1> QED
  BY <1>2, <1>3, <1>4, <1>5 DEF FilingInv, Numbered, F

\* Claiming, submitting and unbinding move no report.
LEMMA IoFiling ==
  ASSUME Typed, FilingInv, ClaimOwnership \/ SubmitCommand \/ UnbindSession
  PROVE  FilingInv'
<1>1. UNCHANGED <<account, backlog, replies, outbound, received, pending, event, emitted, turn>>
  BY DEF ClaimOwnership, SubmitCommand, UnbindSession, connVars, tables, exchange, routing
<1>2. AnswersUnnumbered'
  BY <1>1 DEF FilingInv, AnswersUnnumbered
<1>3. emitted' = emitted /\ Unrouted' \subseteq Unrouted
  BY <1>1 DEF Unrouted, Report
<1> QED
  BY <1>1, <1>2, <1>3, QuietFiling

\* RoutingInv holds at first and through every step.
LEMMA InitRouting == RoutingInit => RoutingInv
  BY InitTyped, InitBound, InitFiling DEF RoutingInv

\* Every step keeps the form of every variable.
LEMMA StepTyped ==
  ASSUME Typed, Bound, RoutingNext
  PROVE  Typed'
<1>1. ASSUME NEW c \in Connections, HandleRead(c) PROVE Typed'
  BY <1>1, ReadTyped DEF HandleRead
<1>2. ASSUME NEW c \in Connections, PopOutbound(c) \/ CloseConnection(c) PROVE Typed'
  BY <1>2, WriteTyped
<1>3. CASE ClaimOwnership \/ SubmitCommand \/ UnbindSession
  BY <1>3, IoTyped
<1>4. CASE MatchingThread
  BY <1>4, MatchTyped, RouteTyped DEF MatchingThread
<1>5. CASE Quiet
  BY <1>5 DEF Quiet, routingVars, connVars, tables, exchange, routing, Typed,
              ConnectionsTyped, TablesTyped, ExchangeTyped, TurnTyped, MutexFree, Routing
<1> QED
  BY <1>1, <1>2, <1>3, <1>4, <1>5 DEF RoutingNext

\* Every step keeps RoutingInv.
LEMMA StepRouting ==
  ASSUME RoutingInv, [RoutingNext]_routingVars
  PROVE  RoutingInv'
<1> USE DEF RoutingInv
<1>1. CASE UNCHANGED routingVars
  <2>1. /\ UNCHANGED <<account, closed, backlog, replies, outbound, received>>
        /\ UNCHANGED <<sessions, owner, pending, io>>
        /\ UNCHANGED <<queue, holds, active, event, emitted, turn, target>>
    BY <1>1 DEF routingVars, connVars, tables, exchange, routing
  <2>2. Typed'
    BY <2>1, TurnKept DEF Typed, ConnectionsTyped, TablesTyped, ExchangeTyped
  <2>3. Bound'
    BY <2>1 DEF Bound, SessionsBound, OwnersBound, OpenListed, Listed, IoBound, TargetBound
  <2>4. AnswersUnnumbered'
    BY <2>1 DEF FilingInv, AnswersUnnumbered
  <2>5. emitted' = emitted /\ Unrouted' \subseteq Unrouted
    BY <2>1 DEF Unrouted, Report
  <2>6. FilingInv'
    BY <2>1, <2>4, <2>5, QuietFiling
  <2> QED
    BY <2>2, <2>3, <2>6
<1>2. ASSUME RoutingNext, Typed' PROVE RoutingInv'
  <2>1. ASSUME NEW c \in Connections, HandleRead(c) PROVE RoutingInv'
    BY <1>2, <2>1, ReadBoundTables, ReadFiling DEF HandleRead
  <2>2. ASSUME NEW c \in Connections, PopOutbound(c) \/ CloseConnection(c) PROVE RoutingInv'
    BY <1>2, <2>2, OtherBoundTables, WriteFiling
  <2>3. CASE ClaimOwnership \/ SubmitCommand \/ UnbindSession
    BY <1>2, <2>3, IoBoundTables, IoFiling
  <2>4. CASE MatchingThread
    BY <1>2, <2>4, OtherBoundTables, MatchFiling, DeliverFiling
  <2>5. CASE Quiet
    BY <1>1, <2>5 DEF Quiet
  <2> QED
    BY <1>2, <2>1, <2>2, <2>3, <2>4, <2>5 DEF RoutingNext
<1> QED
  BY <1>1, <1>2, StepTyped

\* Variables keep their form, tables agree with the accounts, and reports are
\* filed privately, in order and once, in every reachable state.
THEOREM RoutingInvariant == RoutingSpec => []RoutingInv
<1>1. RoutingInv /\ [RoutingNext]_routingVars => RoutingInv'
  BY StepRouting
<1> QED
  BY <1>1, InitRouting, PTL DEF RoutingSpec

\* Every variable keeps its form, and no queue outgrows its capacity.
THEOREM RoutingTyped == RoutingSpec => []RoutingTypeOK
<1>1. RoutingInv => RoutingTypeOK
  <2> SUFFICES ASSUME RoutingInv PROVE RoutingTypeOK
    OBVIOUS
  <2>1. Typed
    BY DEF RoutingInv
  <2>2. io.step \in {"idle", "claim", "submit", "unbind"}
    BY <2>1 DEF Typed, TablesTyped, IsIo, Idle
  <2>3. Range(active) \subseteq OrderKeys
    BY <2>1 DEF Typed, ExchangeTyped, Range
  <2>4. turn \in 1 .. 3
    <3>1. CASE event = << >>
      BY <2>1, <3>1 DEF Typed, TurnTyped, MutexFree
    <3>2. CASE event # << >>
      <4>1. PICK l \in {1, 2} : l = Len(event[1].keys)
        BY <2>1, <3>2 DEF Typed, ExchangeTyped, IsEvent
      <4>2. turn \in Nat \ {0} /\ turn <= l + 1
        BY <2>1, <3>2, <4>1 DEF Typed, TurnTyped
      <4> QED
        BY <4>2
    <3> QED
      BY <3>1, <3>2
  <2>5. Range(target) \subseteq Connections \cup {Nobody}
    BY <2>1 DEF Typed, TurnTyped, Range
  <2> QED
    BY <2>1, <2>2, <2>3, <2>4, <2>5 DEF RoutingTypeOK, Typed, ConnectionsTyped, TablesTyped, ExchangeTyped
<1> QED
  BY <1>1, RoutingInvariant, PTL

\* What is filed is what the properties speak of.
LEMMA FiledCopies ==
  /\ \A x \in Places : Copies(x) = Files(Here)[x]
  /\ \A c \in Connections : Stream(c) = Files(Here)[c] /\ Holder[c] = account[c]
  BY DEF Copies, Stream, Files, Here, Places, Holder

\* "What keeps one client's fills out of another client's socket": a report
\* only ever goes to a session bound to its account, for any capacities and
\* whatever clients send.
THEOREM ReportsArePrivate == RoutingSpec => []ReportsStayPrivate
<1>1. RoutingInv => ReportsStayPrivate
  <2> SUFFICES ASSUME RoutingInv, NEW c \in Connections
               PROVE  IsPrivate(Stream(c), account[c])
    BY DEF ReportsStayPrivate, IsPrivate
  <2>1. c \in Places
    BY DEF Places
  <2> QED
    BY <2>1, FiledCopies DEF RoutingInv, FilingInv, Filed
<1> QED
  BY <1>1, RoutingInvariant, PTL

\* "A retained report can never arrive after a live one."
THEOREM ReportsArriveInOrder == RoutingSpec => []RetainedBeforeLive
<1>1. RoutingInv => RetainedBeforeLive
  <2> SUFFICES ASSUME RoutingInv, NEW c \in Connections
               PROVE  InOrder(Stream(c))
    BY DEF RetainedBeforeLive, InOrder
  <2>1. c \in Places
    BY DEF Places
  <2> QED
    BY <2>1, FiledCopies DEF RoutingInv, FilingInv, Filed
<1> QED
  BY <1>1, RoutingInvariant, PTL

\* No report is handed out twice, to one session or to two, live or retained.
THEOREM ReportsAreHandedOutOnce == RoutingSpec => []ReportedOnce
<1>1. RoutingInv => ReportedOnce
  <2> SUFFICES ASSUME RoutingInv,
                      NEW x \in Connections \cup Accounts, NEW y \in Connections \cup Accounts,
                      NEW i \in DOMAIN Copies(x), NEW j \in DOMAIN Copies(y),
                      Copies(x)[i].n > 0, Copies(x)[i] = Copies(y)[j]
               PROVE  x = y /\ i = j
    BY DEF ReportedOnce
  <2>1. x \in Places /\ y \in Places
    BY DEF Places
  <2>2. Filed(Files(Here), Holder)
    BY DEF RoutingInv, FilingInv
  <2>3. x # y => Apart(Copies(x), Copies(y))
    BY <2>1, <2>2, FiledCopies DEF Filed
  <2>4. NoRepeat(Copies(x))
    BY <2>1, <2>2, FiledCopies DEF Filed
  <2> QED
    BY <2>3, <2>4 DEF Apart, NoRepeat
<1> QED
  BY <1>1, RoutingInvariant, PTL

\* "After unbinding, nothing can route here at all": once a connection is closed
\* and its session unbound, no report joins its queue, whatever route_event had
\* chosen when the connection closed.
THEOREM UnboundQueuesAreLeftAlone == RoutingSpec => NothingQueuedAfterUnbinding
<1> DEFINE Gone(c) == closed[c] /\ ~(io.step = "unbind" /\ io.conn = c)
           Spared == \A c \in Connections : Gone(c) => outbound'[c] = outbound[c]
<1>1. RoutingInv /\ [RoutingNext]_routingVars => [Spared]_routingVars
  <2> SUFFICES ASSUME RoutingInv, RoutingNext, NEW c \in Connections, Gone(c)
               PROVE  outbound'[c] = outbound[c]
    OBVIOUS
  <2>1. Typed /\ Bound
    BY DEF RoutingInv
  <2>2. CASE DeliverReport
    <3>1. target # << >>
      BY <2>2 DEF DeliverReport
    <3>2. CASE target[1] = Nobody
      BY <2>1, <2>2, <3>2, DeliverSpares, NobodyAssumption
    <3>3. CASE target[1] # Nobody
      <4>1. c # target[1]
        BY <2>1, <3>1, <3>3 DEF Bound, TargetBound
      <4> QED
        BY <2>1, <2>2, <4>1, DeliverSpares
    <3> QED
      BY <3>2, <3>3
  <2>3. CASE MatchingThread /\ ~DeliverReport
    BY <2>3 DEF MatchingThread, Reject, AcceptNew, AcceptCancel, AcceptReplace, Take, Trade,
                FinishMatching, ChooseTarget, UpdateOwnership, connVars
  <2>4. ASSUME NEW d \in Connections, HandleRead(d) PROVE outbound'[c] = outbound[c]
    BY <2>4 DEF HandleRead, BindSession, ReadBound, RejectAccountMismatch, connVars
  <2>5. ASSUME NEW d \in Connections, PopOutbound(d) PROVE outbound'[c] = outbound[c]
    <3>1. d # c
      BY <2>5 DEF PopOutbound
    <3>2. outbound' = outbound \/ outbound' = [outbound EXCEPT ![d] = Tail(@)]
      BY <2>5, PopCases DEF PopsBacklog, PopsReply, PopsLive
    <3> QED
      BY <2>1, <3>1, <3>2 DEF Typed, ConnectionsTyped
  <2>6. ASSUME NEW d \in Connections, CloseConnection(d) PROVE outbound'[c] = outbound[c]
    BY <2>6 DEF CloseConnection
  <2>7. CASE ClaimOwnership \/ SubmitCommand \/ UnbindSession \/ Quiet
    BY <2>7 DEF ClaimOwnership, SubmitCommand, UnbindSession, Quiet, routingVars, connVars
  <2> QED
    BY <2>2, <2>3, <2>4, <2>5, <2>6, <2>7 DEF RoutingNext
<1> QED
  BY <1>1, RoutingInvariant, PTL DEF RoutingSpec, NothingQueuedAfterUnbinding
-----------------------------------------------------------------------------
(***************************************************************************)
(* Ownership, when clients do not reuse order ids.                         *)
(***************************************************************************)
\* Ownership that only grows leaves every order where it was.
LEMMA HomeKept ==
  ASSUME HomeInv, ForgetInv, UNCHANGED <<holds, active, event, origin>>,
         \A k : \A c \in Connections : OwnedBy(k, c) => OwnedBy(k, c)'
  PROVE  HomeInv' /\ ForgetInv'
<1>1. \A k : Homed(k) => Homed(k)'
  BY DEF Homed
<1>2. Matched' = Matched /\ Renamed' = Renamed
  BY DEF Matched, Renamed
<1>3. HomeInv'
  BY <1>1, <1>2 DEF HomeInv
<1>4. ForgetInv'
  BY <1>2 DEF ForgetInv, Forgettable
<1> QED
  BY <1>3, <1>4

\* Requests stay fresh while nothing becomes live.
LEMMA FreshKept ==
  ASSUME FreshInv, UNCHANGED <<queue, io, used>>, Live' \subseteq Live, DOMAIN owner' \subseteq used
  PROVE  FreshInv'
<1>1. \A cmd : Fresh(cmd) => Fresh(cmd)'
  BY DEF Fresh, FreshAmong
<1> QED
  BY <1>1 DEF FreshInv, Asking

\* A request that is read introduces an id nobody knows.
LEMMA ReadOwnership ==
  ASSUME FreshIds, Typed, OwnershipInv, NEW c \in Connections, NEW cmd \in Requests,
         BindSession(c, cmd) \/ ReadBound(c, cmd) \/ RejectAccountMismatch(c, cmd)
  PROVE  OwnershipInv'
<1>1. /\ io = Idle
      /\ Introduces(cmd) \cap used = {} /\ (cmd.type # "new" => cmd.key \in used)
      /\ used' = used \cup Introduces(cmd)
  BY DEF BindSession, ReadBound, RejectAccountMismatch, Read, Sensible
<1>2. UNCHANGED <<closed, owner, queue, holds, active, event, origin>>
  BY DEF BindSession, ReadBound, RejectAccountMismatch, Read, connVars, tables, exchange
<1>3. \/ io' = io
      \/ io' = [step |-> "claim", conn |-> c, cmd |-> cmd]
  BY DEF BindSession, ReadBound, RejectAccountMismatch
<1>4. Live' = Live
  BY <1>2 DEF Live, Matched, EventKeys
<1>5. \A x : Fresh(x) => Fresh(x)'
  BY <1>1, <1>4 DEF Fresh, FreshAmong
<1>6. Named(cmd) \subseteq used' /\ (cmd.type = "replace" => NewKey(cmd) # cmd.key)
  BY <1>1, RequestForm DEF Named
<1>7. Fresh(cmd)'
  BY <1>1, <1>4, <1>6 DEF Fresh, FreshAmong, OwnershipInv, FreshInv
<1>8. \A i \in DOMAIN queue : Before(queue[i].cmd, cmd)
  BY <1>1 DEF Before, OwnershipInv, FreshInv, Fresh, FreshAmong
<1>9. FreshInv'
  <2>1. CASE io' = io
    BY <1>1, <1>2, <1>4, <1>5, <2>1 DEF OwnershipInv, FreshInv, Asking
  <2>2. CASE io' = [step |-> "claim", conn |-> c, cmd |-> cmd]
    <3>1. io'.cmd = cmd
      BY <2>2
    <3> QED
      BY <1>1, <1>2, <1>4, <1>5, <1>7, <1>8, <3>1 DEF OwnershipInv, FreshInv
  <2> QED
    BY <1>3, <2>1, <2>2
<1>10. ClaimsInv'
  <2>1. cmd.type = "new" => cmd.key \notin DOMAIN owner
    BY <1>1, RequestForm DEF OwnershipInv, FreshInv
  <2>2. \A k, d : OwnedBy(k, d)' <=> OwnedBy(k, d)
    BY <1>2 DEF OwnedBy
  <2>3. CASE io' = io
    BY <1>1, <1>2, <2>2, <2>3 DEF OwnershipInv, ClaimsInv, Idle
  <2>4. CASE io' = [step |-> "claim", conn |-> c, cmd |-> cmd]
    BY <1>2, <2>1, <2>2, <2>4 DEF OwnershipInv, ClaimsInv
  <2> QED
    BY <1>3, <2>3, <2>4
<1>11. HomeInv' /\ ForgetInv'
  BY <1>2, HomeKept DEF OwnershipInv, OwnedBy
<1> QED
  BY <1>9, <1>10, <1>11 DEF OwnershipInv

\* try_emplace gives a new order to the connection that asked for it.
LEMMA ClaimKeepsOwners ==
  ASSUME OwnershipInv, Typed, ClaimOwnership
  PROVE  OwnershipInv'
<1>1. io \in [step : {"claim"}, conn : Connections, cmd : Requests]
  BY DEF ClaimOwnership, Typed, TablesTyped, IsIo, Idle
<1>2. /\ owner' = TryEmplace(owner, io.cmd.key, io.conn)
      /\ io'.step = "submit" /\ io'.cmd = io.cmd /\ io'.conn = io.conn
      /\ UNCHANGED <<closed, queue, holds, active, event, origin, used>>
  BY <1>1 DEF ClaimOwnership, connVars, exchange
<1>3. \A k, d : OwnedBy(k, d) => OwnedBy(k, d)'
  BY <1>2 DEF OwnedBy, TryEmplace, InsertOrAssign
<1>4. Fresh(io.cmd) /\ Asking
  BY <1>1 DEF OwnershipInv, FreshInv, Asking
<1>5. Live' = Live /\ DOMAIN owner' \subseteq used
  BY <1>2, <1>4 DEF Live, Matched, EventKeys, TryEmplace, InsertOrAssign, OwnershipInv, FreshInv,
                    Fresh, FreshAmong, Named
<1>6. \A x : Fresh(x) => Fresh(x)'
  BY <1>2, <1>5 DEF Fresh, FreshAmong
<1>7. FreshInv'
  BY <1>2, <1>4, <1>5, <1>6 DEF OwnershipInv, FreshInv
<1>8. io.cmd.type = "new" => OwnedBy(io.cmd.key, io.conn)'
  BY <1>1, <1>2 DEF OwnershipInv, ClaimsInv, OwnedBy, TryEmplace, InsertOrAssign
<1>9. ClaimsInv'
  BY <1>2, <1>3, <1>8 DEF OwnershipInv, ClaimsInv
<1>10. HomeInv' /\ ForgetInv'
  BY <1>2, <1>3, HomeKept DEF OwnershipInv
<1> QED
  BY <1>7, <1>9, <1>10 DEF OwnershipInv

\* A request that is submitted is the youngest in the queue.
LEMMA SubmitKeepsOwners ==
  ASSUME OwnershipInv, Typed, SubmitCommand
  PROVE  OwnershipInv'
<1>1. io \in [step : {"submit"}, conn : Connections, cmd : Requests]
  BY DEF SubmitCommand, Typed, TablesTyped, IsIo, Idle
<1>2. PICK w : w = [cmd |-> io.cmd, from |-> io.conn]
  OBVIOUS
<1>3. /\ queue' = queue \/ queue' = Append(queue, w)
      /\ io' = Idle
      /\ UNCHANGED <<closed, owner, holds, active, event, origin, used>>
  BY <1>2 DEF SubmitCommand, connVars, tables
<1>4. queue \in Seq(Waiter) /\ w \in Waiter /\ w.cmd = io.cmd /\ w.from = io.conn
  BY <1>1, <1>2 DEF Typed, ExchangeTyped, Waiter
<1>5. /\ DOMAIN queue = 1 .. Len(queue) /\ Len(queue) \in Nat
      /\ DOMAIN queue' \subseteq 1 .. Len(queue) + 1
      /\ \A i \in DOMAIN queue' : i \in DOMAIN queue => queue'[i] = queue[i]
      /\ \A i \in DOMAIN queue' : i \notin DOMAIN queue => i = Len(queue) + 1 /\ queue'[i] = w
  <2>1. CASE queue' = queue
    BY <1>4, <2>1
  <2>2. CASE queue' = Append(queue, w)
    BY <1>4, <2>2
  <2> QED
    BY <1>3, <2>1, <2>2
<1>6. \A k, d : OwnedBy(k, d)' <=> OwnedBy(k, d)
  BY <1>3 DEF OwnedBy
<1>7. Live' = Live /\ \A x : Fresh(x)' <=> Fresh(x)
  BY <1>3 DEF Live, Matched, EventKeys, Fresh, FreshAmong
<1>8. Fresh(w.cmd) /\ \A i \in DOMAIN queue : Before(queue[i].cmd, w.cmd)
  BY <1>1, <1>4 DEF OwnershipInv, FreshInv, Asking
<1>9. \A i \in DOMAIN queue' : Fresh(queue'[i].cmd)
  BY <1>5, <1>8 DEF OwnershipInv, FreshInv
<1>10. \A i, j \in DOMAIN queue' : i < j => Before(queue'[i].cmd, queue'[j].cmd)
  BY <1>5, <1>8 DEF OwnershipInv, FreshInv
<1>11. FreshInv'
  BY <1>3, <1>7, <1>9, <1>10 DEF OwnershipInv, FreshInv, Asking, Idle
<1>12. w.cmd.type = "new" => OwnedBy(w.cmd.key, w.from)
  BY <1>1, <1>4 DEF OwnershipInv, ClaimsInv
<1>13. ClaimsInv'
  BY <1>3, <1>5, <1>6, <1>12 DEF OwnershipInv, ClaimsInv, Idle
<1>14. HomeInv' /\ ForgetInv'
  BY <1>3, <1>6, HomeKept DEF OwnershipInv
<1> QED
  BY <1>11, <1>13, <1>14 DEF OwnershipInv

\* Only a closing connection loses its orders.
LEMMA ClosingKeepsOwners ==
  ASSUME OwnershipInv, Typed, Bound,
         UnbindSession \/ \E c \in Connections : PopOutbound(c) \/ CloseConnection(c)
  PROVE  OwnershipInv'
<1>1. /\ UNCHANGED <<queue, holds, active, event, origin, used>>
      /\ io' = Idle \/ io'.step = "unbind" \/ io' = io
      /\ DOMAIN owner' \subseteq DOMAIN owner
  BY DEF UnbindSession, PopOutbound, CloseConnection, connVars, tables, exchange,
         Restrict, OwnedByOthers
<1>2. \A k : \A d \in Connections : OwnedBy(k, d) => OwnedBy(k, d)'
  <2>1. CASE UnbindSession
    <3>1. /\ closed[io.conn] /\ closed' = closed
          /\ owner' = Restrict(owner, OwnedByOthers(io.conn))
      BY <2>1 DEF UnbindSession, connVars, Bound, IoBound
    <3> QED
      BY <3>1 DEF OwnedBy, Restrict, OwnedByOthers
  <2>2. ASSUME NEW c \in Connections, PopOutbound(c) \/ CloseConnection(c)
        PROVE  \A k : \A d \in Connections : OwnedBy(k, d) => OwnedBy(k, d)'
    <3>1. owner' = owner /\ (closed' = closed \/ closed' = [closed EXCEPT ![c] = TRUE])
      BY <2>2 DEF PopOutbound, CloseConnection, tables
    <3> QED
      BY <3>1 DEF OwnedBy, Typed, ConnectionsTyped
  <2> QED
    BY <2>1, <2>2
<1>3. Live' = Live /\ \A x : Fresh(x)' <=> Fresh(x)
  BY <1>1 DEF Live, Matched, EventKeys, Fresh, FreshAmong
<1>4. FreshInv'
  BY <1>1, <1>3 DEF OwnershipInv, FreshInv, Asking, Idle
<1>5. \A i \in DOMAIN queue : queue[i].from \in Connections
  <2>1. \A i \in DOMAIN queue : queue[i] \in Waiter
    BY DEF Typed, ExchangeTyped
  <2> QED
    BY <2>1 DEF Waiter
<1>6. io.step \in {"claim", "submit"} => io.conn \in Connections
  BY DEF Typed, TablesTyped, IsIo, Idle
<1>7. ClaimsInv'
  BY <1>1, <1>2, <1>5, <1>6 DEF OwnershipInv, ClaimsInv, Idle
<1>8. HomeInv' /\ ForgetInv'
  BY <1>1, <1>2, HomeKept DEF OwnershipInv
<1> QED
  BY <1>4, <1>7, <1>8 DEF OwnershipInv
-----------------------------------------------------------------------------
\* The request at the head of the queue is taken: it alone becomes live.
LEMMA TakeKeepsFresh ==
  ASSUME Typed, OwnershipInv, Take, Live' \subseteq Live \cup Named(Command)
  PROVE  FreshInv' /\ ClaimsInv'
<1>1. /\ queue # << >> /\ queue' = Tail(queue)
      /\ UNCHANGED <<io, used, owner, closed>>
  BY DEF Take, tables, connVars
<1>2. queue \in Seq(Waiter)
  BY DEF Typed, ExchangeTyped
<1>3. /\ 1 \in DOMAIN queue /\ Command = queue[1].cmd
      /\ \A i \in DOMAIN queue' : i + 1 \in DOMAIN queue /\ 1 < i + 1 /\ queue'[i] = queue[i + 1]
      /\ \A i, j \in DOMAIN queue' : i < j => i + 1 < j + 1
  BY <1>1, <1>2 DEF Command
<1>4. /\ \A i \in DOMAIN queue : Fresh(queue[i].cmd)
      /\ \A i, j \in DOMAIN queue : i < j => Before(queue[i].cmd, queue[j].cmd)
      /\ Asking => /\ Fresh(io.cmd)
                   /\ \A i \in DOMAIN queue : Before(queue[i].cmd, io.cmd)
  BY DEF OwnershipInv, FreshInv
<1>5. Live' \subseteq used' /\ DOMAIN owner' \subseteq used'
  <2>1. Named(Command) \subseteq used
    BY <1>3, <1>4 DEF Fresh, FreshAmong
  <2> QED
    BY <1>1, <2>1 DEF OwnershipInv, FreshInv
<1>6. ASSUME NEW x, Fresh(x), Before(Command, x) PROVE FreshAmong(x, used', Live')
  BY <1>1, <1>6 DEF Fresh, FreshAmong, Before
<1>7. \A i \in DOMAIN queue' : FreshAmong(queue'[i].cmd, used', Live')
  <2> TAKE i \in DOMAIN queue'
  <2>1. Fresh(queue'[i].cmd) /\ Before(Command, queue'[i].cmd)
    BY <1>3, <1>4
  <2> QED
    BY <1>6, <2>1
<1>8. \A i, j \in DOMAIN queue' : i < j => Before(queue'[i].cmd, queue'[j].cmd)
  BY <1>3, <1>4
<1>9. Asking => /\ FreshAmong(io.cmd, used', Live')
                /\ \A i \in DOMAIN queue' : Before(queue'[i].cmd, io.cmd)
  <2> HAVE Asking
  <2>1. Fresh(io.cmd) /\ Before(Command, io.cmd)
    BY <1>3, <1>4
  <2>2. FreshAmong(io.cmd, used', Live')
    BY <1>6, <2>1
  <2> QED
    BY <1>3, <1>4, <2>2
<1>10. Asking' = Asking
  BY <1>1 DEF Asking
<1>11. FreshInv'
  BY <1>1, <1>5, <1>7, <1>8, <1>9, <1>10 DEF FreshInv, Fresh
<1>12. ClaimsInv'
  BY <1>1, <1>3 DEF OwnershipInv, ClaimsInv, OwnedBy
<1> QED
  BY <1>11, <1>12

\* The event just emitted, as the ownership invariants see it.
LEMMA EmittedKeys ==
  ASSUME NEW e, Emit(e)
  PROVE  /\ event' # << >> /\ event'[1] = e
         /\ EventKeys' = Range(e.keys) \cup (IF e.type = "replaced" THEN {e.new_key} ELSE {})
         /\ Renamed' = IF e.type = "replaced" THEN {e.new_key} ELSE {}
<1>1. event' = <<e>>
  BY DEF Emit
<1>2. event' # << >> /\ event'[1] = e
  BY <1>1
<1> QED
  BY <1>2 DEF EventKeys, Renamed

\* A command is carried out.
LEMMA RejectKeepsOwners ==
  ASSUME Typed, OwnershipInv, Reject
  PROVE  OwnershipInv'
<1> DEFINE k == Command.key
           e == [type |-> "rejected", keys |-> <<k>>, from |-> Submitter]
<1>1. /\ Take /\ Emit(e) /\ event = << >> /\ active = << >>
      /\ UNCHANGED <<holds, active, origin, owner, closed>>
  BY DEF Reject, Take, tables, connVars
<1>2. e.type = "rejected" /\ e.keys = <<k>> /\ Range(e.keys) = {k}
  BY DEF Range
<1> HIDE DEF k, e
<1>3. event' # << >> /\ event'[1] = e /\ EventKeys' = {k} /\ Renamed' = {}
  BY <1>1, <1>2, EmittedKeys
<1>4. Matched' = Matched /\ Renamed = {}
  BY <1>1 DEF Matched, Renamed
<1>5. Live' \subseteq Live \cup Named(Command)
  BY <1>3, <1>4 DEF Live, Named, k
<1>6. FreshInv' /\ ClaimsInv'
  BY <1>1, <1>5, TakeKeepsFresh
<1>7. ForgetInv'
  BY <1>1, <1>2, <1>3 DEF ForgetInv, Forgettable
<1>8. HomeInv'
  BY <1>1, <1>2, <1>3, <1>4 DEF OwnershipInv, HomeInv, Homed, OwnedBy
<1> QED
  BY <1>6, <1>7, <1>8 DEF OwnershipInv

\* A new order comes from the connection that claimed it.
LEMMA NewKeepsOwners ==
  ASSUME Typed, OwnershipInv, AcceptNew
  PROVE  OwnershipInv'
<1>0. PICK k : k = Command.key
  OBVIOUS
<1> DEFINE e == [type |-> "accepted", keys |-> <<k>>, from |-> Submitter]
<1>1. /\ Take /\ Emit(e) /\ event = << >> /\ active = << >> /\ queue # << >>
      /\ Command.type = "new" /\ k \notin holds
      /\ holds' \subseteq holds \cup {k} /\ active' = <<k>>
      /\ origin' = InsertOrAssign(origin, k, Submitter)
      /\ UNCHANGED <<owner, closed>>
  BY <1>0 DEF AcceptNew, Take, tables, connVars
<1>2. e.type = "accepted" /\ e.keys = <<k>> /\ Range(e.keys) = {k}
  BY DEF Range
<1>3. OwnedBy(k, Submitter) /\ Submitter \in Connections
  <2>1. 1 \in DOMAIN queue /\ Command = queue[1].cmd /\ Submitter = queue[1].from
    BY <1>1 DEF Typed, ExchangeTyped, Command, Submitter
  <2> QED
    BY <1>0, <1>1, <2>1, HeadForm DEF OwnershipInv, ClaimsInv
<1> HIDE DEF e
<1>4. event' # << >> /\ event'[1] = e /\ EventKeys' = {k} /\ Renamed' = {}
  BY <1>1, <1>2, EmittedKeys
<1>5. Matched' \subseteq holds \cup {k} /\ holds \subseteq Matched /\ Renamed = {}
  BY <1>1 DEF Matched, Renamed, Range
<1>6. Live' \subseteq Live \cup Named(Command)
  BY <1>0, <1>4, <1>5 DEF Live, Named
<1>7. FreshInv' /\ ClaimsInv'
  BY <1>1, <1>6, TakeKeepsFresh
<1>8. ForgetInv'
  BY <1>2, <1>4 DEF ForgetInv, Forgettable
<1>9. Homed(k)'
  BY <1>1, <1>3 DEF Homed, OwnedBy, InsertOrAssign
<1>10. \A x \in holds : Homed(x)'
  BY <1>1, <1>5 DEF OwnershipInv, HomeInv, Homed, OwnedBy, InsertOrAssign
<1>11. HomeInv'
  BY <1>2, <1>4, <1>5, <1>9, <1>10 DEF HomeInv
<1> QED
  BY <1>7, <1>8, <1>11 DEF OwnershipInv

\* The owner of a cancelled order still stands when its report is emitted.
LEMMA CancelKeepsOwners ==
  ASSUME Typed, OwnershipInv, AcceptCancel
  PROVE  OwnershipInv'
<1> DEFINE k == Command.key
           e == [type |-> "cancelled", keys |-> <<k>>, from |-> Submitter]
<1>1. /\ Take /\ Emit(e) /\ event = << >> /\ active = << >>
      /\ k \in holds /\ holds' = holds \ {k} /\ active' = active
      /\ UNCHANGED <<origin, owner, closed>>
  BY DEF AcceptCancel, Take, tables, connVars
<1>2. e.type = "cancelled" /\ e.keys = <<k>> /\ e.keys[1] = k /\ Range(e.keys) = {k}
  BY DEF Range
<1> HIDE DEF k, e
<1>3. event' # << >> /\ event'[1] = e /\ EventKeys' = {k} /\ Renamed' = {}
  BY <1>1, <1>2, EmittedKeys
<1>4. Matched' = holds \ {k} /\ Matched = holds /\ Renamed = {}
  BY <1>1 DEF Matched, Renamed, Range
<1>5. Live' \subseteq Live \cup Named(Command)
  BY <1>3, <1>4 DEF Live, Named, k
<1>6. FreshInv' /\ ClaimsInv'
  BY <1>1, <1>5, TakeKeepsFresh
<1>7. ForgetInv'
  BY <1>1, <1>2, <1>3, <1>4 DEF ForgetInv, Forgettable
<1>8. \A x \in holds : Homed(x)'
  BY <1>1, <1>4 DEF OwnershipInv, HomeInv, Homed, OwnedBy
<1>9. HomeInv'
  BY <1>1, <1>2, <1>3, <1>4, <1>8 DEF HomeInv
<1> QED
  BY <1>6, <1>7, <1>9 DEF OwnershipInv

\* A replaced order has the origin of the one it replaces.
LEMMA ReplaceKeepsOwners ==
  ASSUME Typed, OwnershipInv, AcceptReplace
  PROVE  OwnershipInv'
<1> DEFINE k == Command.key
           new == NewKey(Command)
           e == [type |-> "replaced", keys |-> <<k>>, from |-> Submitter, new_key |-> new]
<1>1. /\ Take /\ Emit(e) /\ event = << >> /\ active = << >> /\ queue # << >>
      /\ Command.type = "replace" /\ k \in holds
      /\ holds' = (holds \ {k}) \cup {new} /\ active' \in {<< >>, <<new>>}
      /\ origin' = IF k \in DOMAIN origin THEN InsertOrAssign(origin, new, origin[k]) ELSE origin
      /\ UNCHANGED <<owner, closed>>
  BY DEF AcceptReplace, Take, tables, connVars
<1>2. /\ e.type = "replaced" /\ e.keys = <<k>> /\ e.keys[1] = k /\ e.new_key = new
      /\ Range(e.keys) = {k}
  BY DEF Range
<1>3. new # k /\ new \in Named(Command)
  <2>1. 1 \in DOMAIN queue /\ Command = queue[1].cmd
    BY <1>1 DEF Typed, ExchangeTyped, Command
  <2>2. Fresh(Command) /\ Introduces(Command) = {new}
    BY <1>1, <2>1, HeadForm, RequestForm DEF OwnershipInv, FreshInv
  <2> QED
    BY <1>1, <2>2 DEF Fresh, FreshAmong, Named
<1> HIDE DEF k, new, e
<1>4. event' # << >> /\ event'[1] = e /\ EventKeys' = {k, new} /\ Renamed' = {new}
  BY <1>1, <1>2, EmittedKeys
<1>5. Matched' = (holds \ {k}) \cup {new} /\ Matched = holds /\ Renamed = {}
  BY <1>1 DEF Matched, Renamed, Range
<1>6. Live' \subseteq Live \cup Named(Command)
  BY <1>3, <1>4, <1>5 DEF Live, Named, k
<1>7. FreshInv' /\ ClaimsInv'
  BY <1>1, <1>6, TakeKeepsFresh
<1>8. ForgetInv'
  BY <1>2, <1>3, <1>4, <1>5 DEF ForgetInv, Forgettable
<1>9. \A x \in holds : Homed(x)
  BY <1>5 DEF OwnershipInv, HomeInv
<1>10. /\ new \in DOMAIN origin' /\ origin'[new] = origin'[k]
       /\ \A x \in DOMAIN origin : x # new => x \in DOMAIN origin' /\ origin'[x] = origin[x]
  BY <1>1, <1>3, <1>9 DEF Homed, InsertOrAssign
<1>11. \A x \in holds : x # new => Homed(x)'
  BY <1>1, <1>9, <1>10 DEF Homed, OwnedBy
<1>12. HomeInv'
  BY <1>1, <1>2, <1>3, <1>4, <1>5, <1>10, <1>11 DEF HomeInv
<1> QED
  BY <1>7, <1>8, <1>12 DEF OwnershipInv
-----------------------------------------------------------------------------
\* A trade is between orders that have their owners, and forgets those filled.
LEMMA TradeKeepsOwners ==
  ASSUME Typed, OwnershipInv, NEW resting, NEW filled, Trade(resting, filled)
  PROVE  OwnershipInv'
<1>1. PICK taker : taker = active[1]
  OBVIOUS
<1>2. PICK keys \in {<<taker, resting>>, <<resting, taker>>} :
        Emit([type |-> "trade", keys |-> keys, filled |-> filled])
  BY <1>1 DEF Trade
<1>3. /\ active # << >> /\ event = << >> /\ resting \in holds
      /\ filled \subseteq {taker, resting}
      /\ holds' = holds \ filled
      /\ active' = IF taker \in filled THEN << >> ELSE active
      /\ UNCHANGED <<closed, owner, io, queue, used, origin>>
  BY <1>1 DEF Trade, connVars, tables
<1>4. Range(keys) = {taker, resting}
  <2>1. CASE keys = <<taker, resting>>
    BY <2>1 DEF Range
  <2>2. CASE keys = <<resting, taker>>
    BY <2>2 DEF Range
  <2> QED
    BY <1>2, <2>1, <2>2
<1>5. Range(active) = {taker} /\ Range(active') \subseteq {taker} \ filled
  BY <1>1, <1>3 DEF Range, Typed, ExchangeTyped
<1>6. PICK e : e = [type |-> "trade", keys |-> keys, filled |-> filled]
  OBVIOUS
<1>7. e.type = "trade" /\ e.keys = keys /\ e.filled = filled
  BY <1>6
<1>8. event' # << >> /\ event'[1] = e /\ EventKeys' = {taker, resting} /\ Renamed' = {}
  BY <1>2, <1>4, <1>6, <1>7, EmittedKeys
<1>9. Matched = holds \cup {taker} /\ Matched' \subseteq Matched \ filled /\ Renamed = {}
  BY <1>3, <1>5 DEF Matched, Renamed
<1>10. Live' \subseteq Live
  BY <1>3, <1>8, <1>9 DEF Live
<1>11. FreshInv'
  BY <1>3, <1>10, FreshKept DEF OwnershipInv, FreshInv
<1>12. ClaimsInv'
  BY <1>3 DEF OwnershipInv, ClaimsInv, OwnedBy
<1>13. ForgetInv'
  BY <1>3, <1>4, <1>7, <1>8, <1>9 DEF ForgetInv, Forgettable
<1>14. \A x \in Matched : Homed(x)'
  BY <1>3, <1>9 DEF OwnershipInv, HomeInv, Homed, OwnedBy
<1>15. HomeInv'
  BY <1>3, <1>4, <1>7, <1>8, <1>9, <1>14 DEF HomeInv
<1> QED
  BY <1>11, <1>12, <1>13, <1>15 DEF OwnershipInv

\* The end of the matching changes no owner.
LEMMA FinishKeepsOwners ==
  ASSUME Typed, OwnershipInv, FinishMatching
  PROVE  OwnershipInv'
<1>1. /\ event = << >> /\ event' = << >> /\ active' = << >>
      /\ UNCHANGED <<closed, owner, io, queue, holds, used, origin>>
  BY DEF FinishMatching, connVars, tables
<1>2. /\ Matched' \subseteq Matched /\ Live' \subseteq Live
      /\ Renamed = {} /\ Renamed' = {}
  BY <1>1 DEF Matched, Live, EventKeys, Renamed, Range
<1>3. FreshInv'
  BY <1>1, <1>2, FreshKept DEF OwnershipInv, FreshInv
<1>4. ClaimsInv'
  BY <1>1 DEF OwnershipInv, ClaimsInv, OwnedBy
<1>5. ForgetInv' /\ HomeInv'
  BY <1>1, <1>2 DEF OwnershipInv, ForgetInv, HomeInv, Homed, OwnedBy
<1> QED
  BY <1>3, <1>4, <1>5 DEF OwnershipInv

-----------------------------------------------------------------------------
\* update_order_ownership, case by case.
LEMMA OwnersCases ==
  ASSUME NEW e, NEW key, key = e.keys[1], NEW new, new = OwnersAfter(e)
  PROVE  \/ e.type = "replaced" /\ key \in DOMAIN owner /\ new = OwnerFollows(e)
         \/ e.type = "replaced" /\ key \notin DOMAIN owner /\ new = owner
         \/ e.type = "rejected" /\ key \notin holds /\ new = Erase(owner, key)
         \/ e.type = "rejected" /\ key \in holds /\ new = owner
         \/ e.type = "cancelled" /\ new = Erase(owner, key)
         \/ e.type = "trade" /\ new = Restrict(owner, DOMAIN owner \ e.filled)
         \/ e.type \notin {"replaced", "rejected", "cancelled", "trade"} /\ new = owner
  BY DEF OwnersAfter

\* It touches the owners of the event's keys only.
LEMMA OwnersElsewhere ==
  ASSUME Typed, ForgetInv, event # << >>, NEW new, new = OwnersAfter(event[1]),
         NEW k, k \notin EventKeys
  PROVE  /\ k \in DOMAIN new <=> k \in DOMAIN owner
         /\ k \in DOMAIN owner => new[k] = owner[k]
<1>1. PICK e : e = event[1]
  OBVIOUS
<1>2. PICK key : key = e.keys[1]
  OBVIOUS
<1>3. /\ k \notin Range(e.keys) /\ (e.type = "replaced" => k # e.new_key)
  BY <1>1 DEF EventKeys
<1>4. k # key
  <2>1. IsEvent(e)
    BY <1>1 DEF Typed, ExchangeTyped
  <2>2. 1 \in DOMAIN e.keys
    BY <2>1 DEF IsEvent
  <2> QED
    BY <1>2, <1>3, <2>2 DEF Range
<1>5. e.type = "trade" => k \notin e.filled
  BY <1>1, <1>3 DEF ForgetInv, Forgettable
<1>6. CASE e.type = "replaced" /\ new = OwnerFollows(e)
  BY <1>2, <1>3, <1>4, <1>6 DEF OwnerFollows, Erase, InsertOrAssign
<1>7. CASE new = Erase(owner, key)
  BY <1>4, <1>7 DEF Erase
<1>8. CASE e.type = "trade" /\ new = Restrict(owner, DOMAIN owner \ e.filled)
  BY <1>5, <1>8 DEF Restrict
<1>9. CASE new = owner
  BY <1>9
<1> QED
  BY <1>1, <1>2, <1>6, <1>7, <1>8, <1>9, OwnersCases

\* An order that is still matched keeps its owner through the routing, under
\* its new id if it was replaced.
LEMMA RouteKeepsHome ==
  ASSUME Typed, OwnershipInv, event # << >>, NEW new, new = OwnersAfter(event[1]),
         NEW k \in Matched
  PROVE  /\ k \in DOMAIN origin /\ origin[k] \in Connections
         /\ closed[origin[k]] \/ (k \in DOMAIN new /\ new[k] = origin[k])
<1>1. PICK e : e = event[1]
  OBVIOUS
<1>2. PICK key : key = e.keys[1]
  OBVIOUS
<1>3. IsEvent(e) /\ Forgettable(e)
  BY <1>1 DEF OwnershipInv, ForgetInv, Typed, ExchangeTyped
<1>4. 1 \in DOMAIN e.keys /\ key \in Range(e.keys)
  BY <1>2, <1>3 DEF IsEvent, Range
<1>5. CASE k \in Renamed
  <2>1. e.type = "replaced" /\ k = e.new_key
    BY <1>1, <1>5 DEF Renamed
  <2>2. Homed(key) /\ k \in DOMAIN origin /\ origin[k] = origin[key]
    BY <1>1, <1>2, <1>4, <1>5, <2>1 DEF OwnershipInv, HomeInv
  <2>3. k # key
    BY <1>2, <1>3, <2>1 DEF Forgettable
  <2>4. CASE key \in DOMAIN owner
    <3>1. new = OwnerFollows(e)
      BY <1>1, <1>2, <2>1, <2>4, OwnersCases
    <3>2. k \in DOMAIN new /\ new[k] = owner[key]
      BY <1>2, <2>1, <2>3, <3>1 DEF OwnerFollows, Erase, InsertOrAssign
    <3> QED
      BY <2>2, <2>4, <3>2 DEF Homed, OwnedBy
  <2>5. CASE key \notin DOMAIN owner
    BY <2>2, <2>5 DEF Homed, OwnedBy
  <2> QED
    BY <2>4, <2>5
<1>6. CASE k \notin Renamed
  <2>1. Homed(k)
    BY <1>6 DEF OwnershipInv, HomeInv
  <2>2. e.type = "replaced" => k # e.new_key
    BY <1>1, <1>6 DEF Renamed
  <2>3. ASSUME k \in DOMAIN owner PROVE k \in DOMAIN new /\ new[k] = owner[k]
    <3>1. CASE k \notin EventKeys
      BY <2>3, <3>1, OwnersElsewhere DEF OwnershipInv
    <3>2. CASE k \in EventKeys
      <4>1. k \in Range(e.keys)
        BY <1>1, <2>2, <3>2 DEF EventKeys
      <4>2. e.type # "trade" => k = key
        BY <1>2, <1>3, <4>1 DEF IsEvent, Range
      <4>3. e.type \notin {"cancelled", "replaced"}
        BY <1>2, <1>3, <4>2 DEF Forgettable
      <4>4. e.type = "rejected" => key \in holds
        BY <1>3, <4>2 DEF Forgettable, Matched, Range
      <4>5. e.type = "trade" => k \notin e.filled
        BY <1>3 DEF Forgettable
      <4>6. \/ new = owner
            \/ e.type = "trade" /\ new = Restrict(owner, DOMAIN owner \ e.filled)
        <5>1. new = OwnersAfter(e) /\ key = e.keys[1]
          BY <1>1, <1>2
        <5>2. \/ e.type \in {"replaced", "cancelled"}
              \/ e.type = "rejected" /\ key \notin holds
              \/ new = owner
              \/ e.type = "trade" /\ new = Restrict(owner, DOMAIN owner \ e.filled)
          BY <5>1, OwnersCases
        <5> QED
          BY <4>3, <4>4, <5>2
      <4> QED
        BY <2>3, <4>5, <4>6 DEF Restrict
    <3> QED
      BY <3>1, <3>2
  <2> QED
    BY <2>1, <2>3 DEF Homed, OwnedBy
<1> QED
  BY <1>5, <1>6

\* update_order_ownership forgets nothing that is still needed.
LEMMA RouteKeepsOwners ==
  ASSUME Typed, OwnershipInv, UpdateOwnership
  PROVE  OwnershipInv'
<1>1. PICK new : new = OwnersAfter(event[1])
  OBVIOUS
<1>2. /\ event # << >> /\ event' = << >> /\ owner' = new
      /\ UNCHANGED <<closed, io, queue, holds, active, used, origin>>
  BY <1>1 DEF UpdateOwnership, connVars
<1>3. Matched' = Matched /\ Live' = Matched /\ Renamed' = {} /\ Matched \subseteq Live
  BY <1>2 DEF Matched, Live, EventKeys, Renamed
<1>4. DOMAIN new \subseteq used
  <2> SUFFICES ASSUME NEW k \in DOMAIN new PROVE k \in used
    OBVIOUS
  <2>1. CASE k \in EventKeys
    BY <2>1 DEF OwnershipInv, FreshInv, Live
  <2>2. CASE k \notin EventKeys
    BY <1>1, <1>2, <2>2, OwnersElsewhere DEF OwnershipInv, FreshInv
  <2> QED
    BY <2>1, <2>2
<1>5. FreshInv'
  BY <1>2, <1>3, <1>4, FreshKept DEF OwnershipInv
<1>6. ASSUME NEW cmd \in Requests, Fresh(cmd), cmd.type = "new"
      PROVE  cmd.key \notin EventKeys
  BY <1>6, RequestForm DEF Fresh, FreshAmong, Live
<1>7. ASSUME NEW cmd \in Requests, Fresh(cmd), cmd.type = "new", NEW c, OwnedBy(cmd.key, c)
      PROVE  closed[c] \/ (cmd.key \in DOMAIN new /\ new[cmd.key] = c)
  BY <1>1, <1>2, <1>6, <1>7, OwnersElsewhere DEF OwnedBy, OwnershipInv
<1>8. \A i \in DOMAIN queue : queue[i].cmd \in Requests /\ Fresh(queue[i].cmd)
  <2>1. \A i \in DOMAIN queue : queue[i] \in Waiter
    BY DEF Typed, ExchangeTyped
  <2> QED
    BY <2>1 DEF Waiter, OwnershipInv, FreshInv
<1>9. \A i \in DOMAIN queue' : queue'[i].cmd.type = "new" =>
        closed'[queue'[i].from] \/ ( /\ queue'[i].cmd.key \in DOMAIN owner'
                                     /\ owner'[queue'[i].cmd.key] = queue'[i].from )
  BY <1>2, <1>7, <1>8 DEF OwnershipInv, ClaimsInv
<1>10. io.step \in {"claim", "submit"} => io.cmd \in Requests /\ Fresh(io.cmd)
  BY DEF Typed, TablesTyped, IsIo, Idle, OwnershipInv, FreshInv, Asking
<1>11. io.step = "submit" /\ io.cmd.type = "new" =>
         closed[io.conn] \/ (io.cmd.key \in DOMAIN new /\ new[io.cmd.key] = io.conn)
  BY <1>7, <1>10 DEF OwnershipInv, ClaimsInv
<1>12. io.step = "claim" /\ io.cmd.type = "new" => io.cmd.key \notin DOMAIN new
  <2> HAVE io.step = "claim" /\ io.cmd.type = "new"
  <2>1. io.cmd.key \notin EventKeys /\ io.cmd.key \notin DOMAIN owner
    BY <1>6, <1>10 DEF OwnershipInv, ClaimsInv
  <2> QED
    BY <1>1, <1>2, <2>1, OwnersElsewhere DEF OwnershipInv
<1>13. ClaimsInv'
  BY <1>2, <1>9, <1>11, <1>12 DEF ClaimsInv, OwnedBy
<1>14. \A k \in Matched : Homed(k)'
  <2> SUFFICES ASSUME NEW k \in Matched PROVE Homed(k)'
    OBVIOUS
  <2>1. /\ k \in DOMAIN origin /\ origin[k] \in Connections
        /\ closed[origin[k]] \/ (k \in DOMAIN new /\ new[k] = origin[k])
    BY <1>1, <1>2, RouteKeepsHome
  <2> QED
    BY <1>2, <2>1 DEF Homed, OwnedBy
<1>15. HomeInv' /\ ForgetInv'
  BY <1>2, <1>3, <1>14 DEF HomeInv, ForgetInv
<1> QED
  BY <1>5, <1>13, <1>15 DEF OwnershipInv

\* Choosing a session and pushing a report change no owner.
LEMMA PushKeepsOwners ==
  ASSUME Typed, OwnershipInv, ChooseTarget \/ DeliverReport
  PROVE  OwnershipInv'
<1>1. UNCHANGED <<closed, owner, io, queue, holds, active, event, used, origin>>
  BY DEF ChooseTarget, DeliverReport, connVars, tables, exchange
<1>2. Live' = Live
  BY <1>1 DEF Live, Matched, EventKeys
<1>3. FreshInv'
  BY <1>1, <1>2, FreshKept DEF OwnershipInv, FreshInv
<1>4. ClaimsInv'
  BY <1>1 DEF OwnershipInv, ClaimsInv, OwnedBy
<1>5. HomeInv' /\ ForgetInv'
  BY <1>1, HomeKept DEF OwnershipInv, OwnedBy
<1> QED
  BY <1>3, <1>4, <1>5 DEF OwnershipInv

\* There is no order at first.
LEMMA InitOwnership == RoutingInit => OwnershipInv
<1> SUFFICES ASSUME RoutingInit PROVE OwnershipInv
  OBVIOUS
<1>1. /\ queue = << >> /\ event = << >> /\ active = << >> /\ holds = {} /\ io = Idle
      /\ DOMAIN owner = {}
  BY DEF RoutingInit, NoMap
<1>2. Live = {} /\ Matched = {} /\ Renamed = {}
  BY <1>1 DEF Live, Matched, EventKeys, Renamed, Range
<1> QED
  BY <1>1, <1>2 DEF OwnershipInv, FreshInv, ClaimsInv, ForgetInv, HomeInv, Asking, Idle

\* Every step keeps the ownership of live orders, when ids are not reused.
LEMMA StepOwnership ==
  ASSUME FreshIds, RoutingInv, OwnershipInv, [RoutingNext]_routingVars
  PROVE  OwnershipInv'
<1>0. Typed /\ Bound
  BY DEF RoutingInv
<1>1. CASE UNCHANGED routingVars
  <2>1. UNCHANGED <<closed, owner, io, queue, holds, active, event, used, origin>>
    BY <1>1 DEF routingVars, connVars, tables, exchange
  <2>2. Live' = Live
    BY <2>1 DEF Live, Matched, EventKeys
  <2>3. FreshInv'
    BY <2>1, <2>2, FreshKept DEF OwnershipInv, FreshInv
  <2>4. ClaimsInv'
    BY <2>1 DEF OwnershipInv, ClaimsInv, OwnedBy
  <2>5. HomeInv' /\ ForgetInv'
    BY <2>1, HomeKept DEF OwnershipInv, OwnedBy
  <2> QED
    BY <2>3, <2>4, <2>5 DEF OwnershipInv
<1>2. CASE RoutingNext
  <2>1. ASSUME NEW c \in Connections, HandleRead(c) PROVE OwnershipInv'
    BY <1>0, <2>1, ReadOwnership DEF HandleRead
  <2>2. ASSUME NEW c \in Connections, PopOutbound(c) \/ CloseConnection(c) PROVE OwnershipInv'
    BY <1>0, <2>2, ClosingKeepsOwners
  <2>3. CASE ClaimOwnership \/ SubmitCommand \/ UnbindSession
    BY <1>0, <2>3, ClaimKeepsOwners, SubmitKeepsOwners, ClosingKeepsOwners
  <2>4. CASE MatchingThread
    BY <1>0, <2>4, RejectKeepsOwners, NewKeepsOwners, CancelKeepsOwners, ReplaceKeepsOwners,
       TradeKeepsOwners, FinishKeepsOwners, PushKeepsOwners, RouteKeepsOwners DEF MatchingThread
  <2>5. CASE Quiet
    BY <1>1, <2>5 DEF Quiet
  <2> QED
    BY <1>2, <2>1, <2>2, <2>3, <2>4, <2>5 DEF RoutingNext
<1> QED
  BY <1>1, <1>2

\* While the session that sent an order is connected, it is where the reports
\* about the order go, through replacements and whatever the account's other
\* sessions do.
THEOREM ReportsComeHome ==
  ASSUME FreshIds
  PROVE  RoutingSpec => []OwnReportsComeHome
<1>1. RoutingInv /\ OwnershipInv /\ [RoutingNext]_routingVars => OwnershipInv'
  BY StepOwnership
<1>2. RoutingInv /\ OwnershipInv => OwnReportsComeHome
  <2> SUFFICES ASSUME RoutingInv, OwnershipInv, NEW i \in DOMAIN event,
                      event[i].type # "rejected",
                      NEW k \in Range(event[i].keys), ~closed[origin[k]]
               PROVE  Target(k) = origin[k]
    BY DEF OwnReportsComeHome
  <2>1. i = 1 /\ event # << >>
    BY DEF RoutingInv, Typed, ExchangeTyped
  <2>2. Homed(k)
    BY <2>1 DEF OwnershipInv, HomeInv
  <2> QED
    BY <2>2, OwnerIsTarget DEF Homed, OwnedBy
<1> QED
  BY <1>1, <1>2, InitOwnership, RoutingInvariant, PTL DEF RoutingSpec
=============================================================================
