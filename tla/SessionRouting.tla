--------------------------- MODULE SessionRouting ---------------------------
(***************************************************************************)
(* Which session a private report goes to.  The gateway's I/O thread binds *)
(* a connection to the account of its first request, records which session *)
(* sent an order, submits the command and tears connections down; the      *)
(* matching thread processes commands one by one and routes every event    *)
(* under sessions_mutex_: to the order's owner, else to another session of *)
(* the account, else to the reports retained for the account.              *)
(*                                                                         *)
(* The I/O thread's regions under sessions_mutex_ are one step each.       *)
(* route_event holds it for several, since a connection is marked closed   *)
(* without it: choosing the session of a report, pushing the report, and   *)
(* updating the owners.  The engine and the ledger are reduced to the set  *)
(* of orders with a hold and to the private events they can emit, in the   *)
(* order they emit them (MatchingEngine and RiskGatedEngine have the       *)
(* rest); the pipeline to the bounded FIFO MatchingPipeline implements.    *)
(***************************************************************************)
EXTENDS Integers, Sequences, FiniteSets, SequencesExt, Maps

CONSTANTS
  Connections, Accounts, ClientIds,
  OutboundCapacity,  \* outbound_queue_capacity
  PendingCapacity,   \* pending_report_capacity
  QueueCapacity,     \* matching_queue_capacity
  MaxRequests,       \* bound: requests read from sockets
  FreshIds,          \* clients never use a client order id for two orders
  Nobody             \* no connection, no account

ASSUME NobodyAssumption == Nobody \notin Connections \cup Accounts

ASSUME DisjointAssumption == Connections \cap Accounts = {}

ASSUME CapacityAssumption ==
  {OutboundCapacity, PendingCapacity, QueueCapacity, MaxRequests} \subseteq Nat

ASSUME FreshIdsAssumption == FreshIds \in BOOLEAN

OrderKeys == Accounts \X ClientIds

AccountOf(key) == key[1]

VARIABLES
  account,   \* conn.account_id
  closed,    \* conn.closed
  backlog,   \* conn.replay_backlog
  replies,   \* conn.session_outbound
  outbound,  \* conn.outbound
  sessions,  \* account_sessions_
  owner,     \* order_owner_
  pending,   \* pending_reports_
  io,        \* what the I/O thread is in the middle of
  queue,     \* admitted commands, each with the connection it came from
  holds,     \* orders with a ledger hold
  active,    \* the order being matched, or << >>
  event,     \* events emitted and not yet routed: none or one
  turn,      \* route_event: which of the event's reports is next
  target,    \* route_event: the session chosen for it, if it was
  emitted,   \* number of events so far
  requests,  \* bound: requests read so far
  used,      \* history: keys that were ever asked for
  origin,    \* history: order -> the connection that sent it
  received   \* history: reports popped for writing, per connection

connVars == <<account, closed, backlog, replies, outbound, received>>
tables == <<sessions, owner, pending>>
exchange == <<queue, holds, active, event, emitted>>
routing == <<turn, target>>
routingVars == <<connVars, tables, io, exchange, routing, requests, used, origin>>

NoMap == [k \in {} |-> Nobody]

Idle == [step |-> "idle"]

\* sessions_mutex_ is not held by route_event.
MutexFree == turn = 1 /\ target = << >>

RoutingInit ==
  /\ account = [c \in Connections |-> Nobody]
  /\ closed = [c \in Connections |-> FALSE]
  /\ backlog = [c \in Connections |-> << >>]
  /\ replies = backlog /\ outbound = backlog /\ received = backlog
  /\ sessions = [a \in Accounts |-> << >>]
  /\ pending = [a \in Accounts |-> << >>]
  /\ owner = NoMap /\ origin = NoMap
  /\ io = Idle
  /\ queue = << >> /\ event = << >> /\ active = << >>
  /\ turn = 1 /\ target = << >>
  /\ holds = {} /\ used = {}
  /\ emitted = 0 /\ requests = 0
-----------------------------------------------------------------------------
(***************************************************************************)
(* The I/O thread: requests.                                               *)
(***************************************************************************)
Requests ==
  [type : {"new"}, key : OrderKeys, gtc : BOOLEAN]
  \cup [type : {"cancel"}, key : OrderKeys]
  \cup [type : {"replace"}, key : OrderKeys, new_id : ClientIds]

NewKey(cmd) == <<AccountOf(cmd.key), cmd.new_id>>

\* The ids a request introduces: none of them is in use under FreshIds.
Introduces(cmd) ==
  CASE cmd.type = "new"     -> {cmd.key}
    [] cmd.type = "cancel"  -> {}
    [] cmd.type = "replace" -> {NewKey(cmd)}

Sensible(cmd) ==
  FreshIds => /\ Introduces(cmd) \cap used = {}
              /\ cmd.type # "new" => cmd.key \in used

\* A complete frame of an open connection decodes to a command.
Read(c, cmd) ==
  /\ io = Idle
  /\ ~closed[c]
  /\ requests < MaxRequests
  /\ Sensible(cmd)
  /\ requests' = requests + 1
  /\ used' = used \cup Introduces(cmd)

\* Mutant of BindSession: what was retained stays where it was as well.
BindSessionKeepsPending(c, cmd) ==
  LET a == AccountOf(cmd.key) IN
  /\ Read(c, cmd)
  /\ account[c] = Nobody
  /\ MutexFree
  /\ sessions' = [sessions EXCEPT ![a] = Append(@, c)]
  /\ backlog' = [backlog EXCEPT ![c] = pending[a]]
  /\ account' = [account EXCEPT ![c] = a]
  /\ io' = [step |-> "claim", conn |-> c, cmd |-> cmd]
  /\ UNCHANGED <<closed, replies, outbound, received, owner, pending, exchange,
                 routing, origin>>

\* The first request binds the session and takes over what was retained.
BindSession(c, cmd) ==
  LET a == AccountOf(cmd.key) IN
  /\ Read(c, cmd)
  /\ account[c] = Nobody
  /\ MutexFree
  /\ sessions' = [sessions EXCEPT ![a] = Append(@, c)]
  /\ backlog' = [backlog EXCEPT ![c] = pending[a]]
  /\ pending' = [pending EXCEPT ![a] = << >>]
  /\ account' = [account EXCEPT ![c] = a]
  /\ io' = [step |-> "claim", conn |-> c, cmd |-> cmd]
  /\ UNCHANGED <<closed, replies, outbound, received, owner, exchange, routing,
                 origin>>

ReadBound(c, cmd) ==
  /\ Read(c, cmd)
  /\ account[c] = AccountOf(cmd.key)
  /\ io' = [step |-> "claim", conn |-> c, cmd |-> cmd]
  /\ UNCHANGED <<connVars, tables, exchange, routing, origin>>

\* Mutant of RejectAccountMismatch: the request is carried out.
ServeAccountMismatch(c, cmd) ==
  /\ Read(c, cmd)
  /\ account[c] \notin {Nobody, AccountOf(cmd.key)}
  /\ io' = [step |-> "claim", conn |-> c, cmd |-> cmd]
  /\ UNCHANGED <<connVars, tables, exchange, routing, origin>>

\* Another account's request: answered here, dropped if the queue is full.
RejectAccountMismatch(c, cmd) ==
  /\ Read(c, cmd)
  /\ account[c] \notin {Nobody, AccountOf(cmd.key)}
  /\ replies' = [replies EXCEPT ![c] =
       IF Len(@) < OutboundCapacity THEN Append(@, [key |-> cmd.key, n |-> 0])
                                    ELSE @]
  /\ UNCHANGED <<account, closed, backlog, outbound, received, tables, io,
                 exchange, routing, origin>>

\* try_emplace: whoever is recorded already stays the owner.
ClaimOwnership ==
  /\ io.step = "claim"
  /\ MutexFree
  /\ owner' = TryEmplace(owner, io.cmd.key, io.conn)
  /\ io' = [io EXCEPT !.step = "submit"]
  /\ UNCHANGED <<connVars, sessions, pending, exchange, routing, requests, used,
                 origin>>

\* A full queue refuses the command, and nobody is told.
SubmitCommand ==
  /\ io.step = "submit"
  /\ queue' = IF Len(queue) < QueueCapacity
              THEN Append(queue, [cmd |-> io.cmd, from |-> io.conn])
              ELSE queue
  /\ io' = Idle
  /\ UNCHANGED <<connVars, tables, holds, active, event, emitted, routing,
                 requests, used, origin>>
-----------------------------------------------------------------------------
(***************************************************************************)
(* The I/O thread: writing and closing.                                    *)
(***************************************************************************)
\* Mutant of NextOutbound: live reports overtake the retained ones.
LiveFirst(c) ==
  IF outbound[c] # << >> THEN "outbound"
  ELSE IF replies[c] # << >> THEN "replies" ELSE "backlog"

NextOutbound(c) ==
  IF backlog[c] # << >> THEN "backlog"
  ELSE IF replies[c] # << >> THEN "replies" ELSE "outbound"

Popped(q, c) == [q EXCEPT ![c] = Tail(@)]

\* handle_write pops one more message into its batch.
PopOutbound(c) ==
  LET from == NextOutbound(c)
      q == CASE from = "backlog" -> backlog [] from = "replies" -> replies
             [] from = "outbound" -> outbound
  IN
  /\ io = Idle
  /\ ~closed[c]
  /\ q[c] # << >>
  /\ received' = [received EXCEPT ![c] = Append(@, Head(q[c]))]
  /\ backlog' = IF from = "backlog" THEN Popped(q, c) ELSE backlog
  /\ replies' = IF from = "replies" THEN Popped(q, c) ELSE replies
  /\ outbound' = IF from = "outbound" THEN Popped(q, c) ELSE outbound
  /\ UNCHANGED <<account, closed, tables, io, exchange, routing, requests, used,
                 origin>>

\* close_connection: the flag first, without sessions_mutex_, the tables after
\* it.
CloseConnection(c) ==
  /\ io = Idle
  /\ ~closed[c]
  /\ closed' = [closed EXCEPT ![c] = TRUE]
  /\ io' = IF account[c] = Nobody THEN Idle ELSE [step |-> "unbind", conn |-> c]
  /\ UNCHANGED <<account, backlog, replies, outbound, received, tables, exchange,
                 routing, requests, used, origin>>

OwnedByOthers(c) == {k \in DOMAIN owner : owner[k] # c}

\* std::remove: a connection is bound, and so listed, once.
PositionOf(c, s) == CHOOSE j \in DOMAIN s : s[j] = c

\* Mutant of UnbindSession: not under sessions_mutex_.
UnbindSessionUnlocked ==
  /\ io.step = "unbind"
  /\ sessions' = [sessions EXCEPT ![account[io.conn]] =
                    RemoveAt(@, PositionOf(io.conn, @))]
  /\ owner' = Restrict(owner, OwnedByOthers(io.conn))
  /\ io' = Idle
  /\ UNCHANGED <<connVars, pending, exchange, routing, requests, used, origin>>

UnbindSession ==
  /\ io.step = "unbind"
  /\ MutexFree
  /\ sessions' = [sessions EXCEPT ![account[io.conn]] =
                    RemoveAt(@, PositionOf(io.conn, @))]
  /\ owner' = Restrict(owner, OwnedByOthers(io.conn))
  /\ io' = Idle
  /\ UNCHANGED <<connVars, pending, exchange, routing, requests, used, origin>>
-----------------------------------------------------------------------------
(***************************************************************************)
(* The matching thread: the private events a command may cause.            *)
(***************************************************************************)
Emit(e) ==
  /\ event' = <<e>>
  /\ emitted' = emitted + 1

\* The next command, once everything about the last one has been routed.
Take ==
  /\ queue # << >> /\ event = << >> /\ active = << >>
  /\ queue' = Tail(queue)
  /\ UNCHANGED <<connVars, tables, io, routing, requests, used>>

Command == Head(queue).cmd

Submitter == Head(queue).from

\* Risk, an unknown instrument, bad values, a duplicate or an unknown id.
Reject ==
  /\ Take
  /\ Emit([type |-> "rejected", keys |-> <<Command.key>>, from |-> Submitter])
  /\ UNCHANGED <<holds, active, origin>>

\* Only a GTC order opens a hold.
AcceptNew ==
  /\ Take
  /\ Command.type = "new" /\ Command.key \notin holds
  /\ holds' = IF Command.gtc THEN holds \cup {Command.key} ELSE holds
  /\ active' = <<Command.key>>
  /\ origin' = InsertOrAssign(origin, Command.key, Submitter)
  /\ Emit([type |-> "accepted", keys |-> <<Command.key>>, from |-> Submitter])

AcceptCancel ==
  /\ Take
  /\ Command.type = "cancel" /\ Command.key \in holds
  /\ holds' = holds \ {Command.key}
  /\ Emit([type |-> "cancelled", keys |-> <<Command.key>>, from |-> Submitter])
  /\ UNCHANGED <<active, origin>>

\* In place, or as a new order that is matched again.  What happens when the
\* new id is another live order's is MatchingEngine's subject.
AcceptReplace ==
  /\ Take
  /\ Command.type = "replace" /\ Command.key \in holds
  /\ NewKey(Command) \notin holds \ {Command.key}
  /\ holds' = (holds \ {Command.key}) \cup {NewKey(Command)}
  /\ active' \in {<< >>, <<NewKey(Command)>>}
  /\ origin' = IF Command.key \in DOMAIN origin
               THEN InsertOrAssign(origin, NewKey(Command), origin[Command.key])
               ELSE origin
  /\ Emit([type |-> "replaced", keys |-> <<Command.key>>, from |-> Submitter,
           new_key |-> NewKey(Command)])

\* One iteration of the matching loop: at least one side is filled.
Trade(resting, filled) ==
  /\ active # << >> /\ event = << >>
  /\ resting \in holds \ {active[1]}
  /\ filled \in (SUBSET {active[1], resting}) \ {{}}
  /\ holds' = holds \ filled
  /\ active' = IF active[1] \in filled THEN << >> ELSE active
  /\ \E keys \in {<<active[1], resting>>, <<resting, active[1]>>} :
       Emit([type |-> "trade", keys |-> keys, filled |-> filled])
  /\ UNCHANGED <<connVars, tables, io, queue, routing, requests, used, origin>>

\* The remainder rests, or is discarded without any private event.
FinishMatching ==
  /\ active # << >> /\ event = << >>
  /\ active' = << >>
  /\ UNCHANGED <<connVars, tables, io, queue, holds, event, emitted, routing,
                 requests, used, origin>>
-----------------------------------------------------------------------------
(***************************************************************************)
(* The matching thread: route_event, under sessions_mutex_.                *)
(***************************************************************************)
\* Where the sessions of account a that are not closing are listed.
OpenAt(a) == {j \in DOMAIN sessions[a] : ~closed[sessions[a][j]]}

FirstOpen(a) == sessions[a][Min(OpenAt(a))]

HasOpenOwner(key) == key \in DOMAIN owner /\ ~closed[owner[key]]

Target(key) ==
  IF HasOpenOwner(key) THEN owner[key]
  ELSE IF OpenAt(AccountOf(key)) # {} THEN FirstOpen(AccountOf(key)) ELSE Nobody

\* pending_reports_: the oldest makes room for the newest.
Retain(q, report) ==
  IF PendingCapacity = 0 THEN q
  ELSE Append(IF Len(q) >= PendingCapacity THEN Tail(q) ELSE q, report)

Report(e, i) == [key |-> e.keys[i], n |-> emitted]

Routing == event # << >> /\ turn <= Len(event[1].keys)

\* The session of the next report: closed is read here, and not again.
ChooseTarget ==
  /\ Routing /\ target = << >>
  /\ target' = <<Target(event[1].keys[turn])>>
  /\ UNCHANGED <<connVars, tables, io, exchange, turn, requests, used, origin>>

\* deliver() drops the report when the connection's queue is full; without a
\* session it is retained.
DeliverReport ==
  LET report == Report(event[1], turn)
      c == target[1]
  IN
  /\ Routing /\ target # << >>
  /\ IF c = Nobody
     THEN /\ pending' = [pending EXCEPT ![AccountOf(report.key)] = Retain(@, report)]
          /\ UNCHANGED outbound
     ELSE /\ outbound' = [outbound EXCEPT ![c] =
                            IF Len(@) < OutboundCapacity THEN Append(@, report) ELSE @]
          /\ UNCHANGED pending
  /\ turn' = turn + 1 /\ target' = << >>
  /\ UNCHANGED <<account, closed, backlog, replies, received, sessions, owner, io,
                 exchange, requests, used, origin>>

\* The owner of an order that is replaced follows it to its new id.
OwnerFollows(e) == Erase(InsertOrAssign(owner, e.new_key, owner[e.keys[1]]), e.keys[1])

\* Mutant of OwnersAfter: a rejection always ends the ownership.
OwnersAfterAnyRejection(e) ==
  LET key == e.keys[1] IN
  CASE e.type \in {"rejected", "cancelled"}        -> Erase(owner, key)
    [] e.type = "replaced" /\ key \in DOMAIN owner -> OwnerFollows(e)
    [] e.type = "trade" -> Restrict(owner, DOMAIN owner \ e.filled)
    [] OTHER            -> owner

\* update_order_ownership.
OwnersAfter(e) ==
  LET key == e.keys[1] IN
  CASE e.type = "rejected" /\ key \notin holds     -> Erase(owner, key)
    [] e.type = "cancelled"                        -> Erase(owner, key)
    [] e.type = "replaced" /\ key \in DOMAIN owner -> OwnerFollows(e)
    [] e.type = "trade" -> Restrict(owner, DOMAIN owner \ e.filled)
    [] OTHER            -> owner

\* The last step of route_event under sessions_mutex_.
UpdateOwnership ==
  /\ event # << >> /\ ~Routing
  /\ owner' = OwnersAfter(event[1])
  /\ event' = << >>
  /\ turn' = 1
  /\ UNCHANGED <<connVars, sessions, pending, io, queue, holds, active, emitted,
                 target, requests, used, origin>>

\* Everything sent has been dealt with.
Quiet ==
  /\ io = Idle /\ queue = << >> /\ event = << >> /\ active = << >>
  /\ UNCHANGED routingVars
-----------------------------------------------------------------------------
HandleRead(c) ==
  \E cmd \in Requests :
    BindSession(c, cmd) \/ ReadBound(c, cmd) \/ RejectAccountMismatch(c, cmd)

MatchingThread ==
  \/ Reject \/ AcceptNew \/ AcceptCancel \/ AcceptReplace
  \/ \E k \in holds : \E filled \in SUBSET (holds \cup Range(active)) : Trade(k, filled)
  \/ FinishMatching
  \/ ChooseTarget \/ DeliverReport \/ UpdateOwnership

RoutingNext ==
  \/ \E c \in Connections : HandleRead(c) \/ PopOutbound(c) \/ CloseConnection(c)
  \/ ClaimOwnership \/ SubmitCommand \/ UnbindSession
  \/ MatchingThread
  \/ Quiet

RoutingSpec == RoutingInit /\ [][RoutingNext]_routingVars
-----------------------------------------------------------------------------
(***************************************************************************)
(* Properties.                                                             *)
(***************************************************************************)
ReportType == [key : OrderKeys, n : Nat]

RoutingTypeOK ==
  /\ account \in [Connections -> Accounts \cup {Nobody}]
  /\ closed \in [Connections -> BOOLEAN]
  /\ {backlog, replies, outbound, received} \subseteq [Connections -> Seq(ReportType)]
  /\ pending \in [Accounts -> Seq(ReportType)]
  /\ \A c \in Connections : Len(outbound[c]) <= OutboundCapacity
  /\ \A a \in Accounts : Len(pending[a]) <= PendingCapacity
  /\ sessions \in [Accounts -> Seq(Connections)]
  /\ DOMAIN owner \subseteq OrderKeys
  /\ io.step \in {"idle", "claim", "submit", "unbind"}
  /\ Len(queue) <= QueueCapacity
  /\ holds \subseteq OrderKeys
  /\ Range(active) \subseteq OrderKeys
  /\ turn \in 1 .. 3
  /\ Range(target) \subseteq Connections \cup {Nobody}

\* Everything on its way to the client of c, oldest first, and what it has.
\* The gateway's own answers are in between, with no event number.
Stream(c) == received[c] \o backlog[c] \o outbound[c]

\* "What keeps one client's fills out of another client's socket": a report
\* only ever goes to a session bound to the report's account.
ReportsStayPrivate ==
  \A c \in Connections :
    LET s == Stream(c) IN
    \A i \in DOMAIN s : s[i].n > 0 => AccountOf(s[i].key) = account[c]

\* "A retained report can never arrive after a live one": a session gets its
\* reports in the order of the events.
RetainedBeforeLive ==
  \A c \in Connections :
    LET s == Stream(c) IN
    \A i, j \in DOMAIN s : i < j /\ s[j].n > 0 => s[i].n <= s[j].n

Copies(x) == IF x \in Connections THEN Stream(x) ELSE pending[x]

\* No report is handed out twice, whether to one session, to two, or to a
\* session and to those who bind later.
ReportedOnce ==
  \A x, y \in Connections \cup Accounts :
    LET s == Copies(x)
        t == Copies(y)
    IN
    \A i \in DOMAIN s, j \in DOMAIN t :
      s[i].n > 0 /\ s[i] = t[j] => x = y /\ i = j

\* "After unbinding, nothing can route here at all": the queue of a connection
\* that is closed and not in the middle of being unbound gets no report any
\* more, whatever route_event had chosen when the connection closed.
NothingQueuedAfterUnbinding ==
  [][\A c \in Connections :
       closed[c] /\ ~(io.step = "unbind" /\ io.conn = c)
         => outbound'[c] = outbound[c]]_routingVars

\* "Between that store and the unbinding that follows, this is what stops a
\* report being pushed onto a queue whose socket is on its way out".
\* Not so: see README.md, Disagreements.
NothingQueuedAfterClose ==
  [][\A c \in Connections : closed[c] => outbound'[c] = outbound[c]]_routingVars

\* The reports about an order go to the session that sent it for as long as
\* that session is connected, whatever else its account's sessions do.
OwnReportsComeHome ==
  \A i \in DOMAIN event : event[i].type # "rejected" =>
    \A key \in Range(event[i].keys) :
      ~closed[origin[key]] => Target(key) = origin[key]

\* "The I/O thread records that before it submits, so an event can never
\* arrive for an unknown owner" (while the session that asked is connected).
\* Not so: see README.md, Disagreements.
EventsHaveAnOwner ==
  \A i \in DOMAIN event :
    event[i].type # "trade" /\ ~closed[event[i].from]
      => event[i].keys[1] \in DOMAIN owner
=============================================================================
