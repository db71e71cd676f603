---------------------------- MODULE StoreProofs ----------------------------
(***************************************************************************)
(* ClientConnection implements AtomicStore, for every set of connections,  *)
(* names, keys and requests.                                               *)
(***************************************************************************)
EXTENDS StoreRefinement, ConnectionProofs

(* The control points at which a connection is in the middle of a GET or     *)
(* SET, or of the end of a unit of work.                                     *)
Busy == {"working", "finishing", "committing", "rolling"}

(* What AtomicStore sees of table t does not change. *)
SameTable(t) ==
    /\ PublishedAt(t)' = PublishedAt(t)
    /\ DraftAt(t)' = DraftAt(t)
    /\ OwnerOf(t)' = OwnerOf(t)

(* What AtomicStore sees of connection d, but for its stack. *)
SameUnit(d) ==
    /\ HeldBy(d)' = HeldBy(d)
    /\ AccessBy(d)' = AccessBy(d)

(* The loops t is in, if any, as far as connection c can tell. *)
SameLoop(c, t) ==
    \A point \in {"committing", "rolling"} :
        (pc[c] = point /\ t \in locked_tables[c])'
            <=> (pc[c] = point /\ t \in locked_tables[c])

(* A step of c leaves the tables alone that are not its own, and its own if  *)
(* their maps stay and they neither enter nor leave a loop.                  *)
LEMMA KeptTable ==
    ASSUME TypeOK, NEW c \in Conns, Local(c), NEW t \in TableId,
           m_mutex[t] # c \/ SameLoop(c, t),
           m_mutex'[t] = m_mutex[t], tables'[t] = tables[t]
    PROVE  SameTable(t)
  <1>1. m_mutex[t] \in Conns \cup {NULL}
    BY DEF TypeOK, ServerTypeOK
  <1>2. InLoop(t, "committing")' <=> InLoop(t, "committing")
    BY <1>1 DEF InLoop, Local, Unmoved, SameLoop
  <1>3. InLoop(t, "rolling")' <=> InLoop(t, "rolling")
    BY <1>1 DEF InLoop, Local, Unmoved, SameLoop
  <1>4. Drafted(t)' = Drafted(t) /\ Kept(t)' = Kept(t)
    BY DEF Drafted, Kept, CommittedValue
  <1> QED
    BY <1>2, <1>3, <1>4 DEF SameTable, PublishedAt, DraftAt, OwnerOf

(* The units of work of the other connections go on unchanged. *)
LEMMA OtherUnits ==
    ASSUME NEW c \in Conns, Local(c), NEW d \in Conns \ {c}
    PROVE  SameUnit(d)
  BY DEF Local, Unmoved, SameUnit, HeldBy, AccessBy

(* Outside the two loops a connection's tables are what their maps say. *)
LEMMA OutsideLoops ==
    ASSUME NEW c \in Conns, NEW t \in TableId, m_mutex[t] \in {c, NULL},
           pc[c] \notin {"committing", "rolling"}
    PROVE  /\ PublishedAt(t) = Kept(t)
           /\ DraftAt(t) = Drafted(t)
           /\ OwnerOf(t) = m_mutex[t]
  BY DEF InLoop, PublishedAt, DraftAt, OwnerOf

(* If nothing changes for any table or unit, the abstract state stays. *)
LEMMA SameView ==
    /\ (\A t \in TableId : SameTable(t)) => UNCHANGED <<published, draft, owner>>
    /\ (\A d \in Conns : SameUnit(d)) => UNCHANGED <<held, access>>
    /\ UNCHANGED client_stack => UNCHANGED stack
  BY DEF SameTable, SameUnit, published, draft, owner, held, access, stack

(* Everything a connection does away from the tables is Compute. *)
LEMMA ComputeStep ==
    ASSUME IInv, NEW c \in Conns, Local(c), NEW s \in StackState,
           UNCHANGED <<tables, m_mutex>>,
           pc[c] \notin Busy, pc'[c] \notin Busy,
           locked_tables'[c] = locked_tables[c],
           client_stack' = [client_stack EXCEPT ![c] = s]
    PROVE  Abstract!Compute(c)
  <1>1. TypeOK
    BY DEF IInv
  <1>2. ASSUME NEW t \in TableId
        PROVE  SameTable(t)
    BY <1>1, KeptTable DEF SameLoop, Busy
  <1>3. ASSUME NEW d \in Conns
        PROVE  SameUnit(d)
    <2>1. CASE d = c
      BY <2>1 DEF Busy, SameUnit, HeldBy, AccessBy
    <2>2. CASE d # c
      BY <2>2, OtherUnits
    <2> QED
      BY <2>1, <2>2
  <1>4. access[c] = NULL
    BY DEF access, AccessBy, Busy
  <1>5. stack' = [stack EXCEPT ![c] = s.stk] /\ s.stk \in Seq(String)
    BY <1>1 DEF stack, TypeOK, StackState
  <1>6. stack'[c] = s.stk
    BY <1>5 DEF stack
  <1> QED
    BY <1>2, <1>3, <1>4, <1>5, <1>6, SameView DEF Abstract!Compute

-----------------------------------------------------------------------------
(* The empty tables and stacks the server starts with. *)
LEMMA InitRefines ==
    Init => Abstract!Init
  <1> SUFFICES ASSUME Init PROVE Abstract!Init
    OBVIOUS
  <1>1. \A t \in TableId :
           m_mutex[t] = NULL /\ tables[t].theMap = EmptyMap /\ tables[t].tempMap = EmptyMap
    BY DEF Init, ServerInit, NewTable
  <1>2. \A t \in TableId : Kept(t) = [k \in Keys |-> EmptyString]
                           /\ Drafted(t) = [k \in Keys |-> EmptyString]
    BY <1>1 DEF Kept, Drafted, CommittedValue, get, EmptyMap
  <1>3. \A t \in TableId : /\ PublishedAt(t) = Kept(t)
                           /\ DraftAt(t) = Drafted(t)
                           /\ OwnerOf(t) = NULL
    BY <1>1 DEF PublishedAt, DraftAt, OwnerOf, InLoop
  <1>4. \A d \in Conns : HeldBy(d) = {} /\ AccessBy(d) = NULL
    BY DEF Init, HeldBy, AccessBy
  <1>5. stack = [d \in Conns |-> << >>]
    BY DEF Init, stack, NewStack
  <1> QED
    BY <1>2, <1>3, <1>4, <1>5 DEF Abstract!Init, published, draft, owner, held, access

(* Connecting, failing to read, and answering while the loop goes on. *)
LEMMA QuietIsCompute ==
    ASSUME IInv, NEW c \in Conns,
           \/ Accept(c) \/ AcceptFails(c) \/ NoRequest(c)
           \/ DecodeRunsOff(c) \/ ReplyToDeadPeer(c) \/ Reply(c) \/ CreateTable(c)
    PROVE  Abstract!Compute(c)
  <1> USE DEF store, session, transaction
  <1>1. TypeOK /\ Local(c)
    BY StepIsLocal DEF IInv, Input, Handle, Thread
  <1>2. UNCHANGED <<tables, m_mutex>>
    BY CreateTableKeepsTables
       DEF Accept, AcceptFails, NoRequest, DecodeRunsOff, ReplyToDeadPeer, Reply
  <1>3. UNCHANGED <<client_stack, locked_tables>>
    BY DEF Accept, AcceptFails, NoRequest, DecodeRunsOff, ReplyToDeadPeer, Reply,
           CreateTable
  <1>4. pc[c] \notin Busy /\ pc'[c] \notin Busy
    <2>1. CASE NoRequest(c) \/ CreateTable(c)
      BY <1>1, <2>1 DEF NoRequest, CreateTable, At, Respond, RespondLast, Goto,
                        TypeOK, Busy
    <2>2. CASE DecodeRunsOff(c) \/ ReplyToDeadPeer(c)
      BY <2>2 DEF DecodeRunsOff, ReplyToDeadPeer, Dies, At, Busy
    <2>3. CASE Accept(c) \/ AcceptFails(c) \/ Reply(c)
      BY <1>1, <2>3 DEF Accept, AcceptFails, Reply, At, Goto, TypeOK, Busy
    <2> QED
      BY <2>1, <2>2, <2>3
  <1>5. /\ client_stack[c] \in StackState
        /\ client_stack' = [client_stack EXCEPT ![c] = client_stack[c]]
    BY <1>1, <1>3 DEF TypeOK
  <1> QED
    BY <1>1, <1>2, <1>3, <1>4, <1>5, ComputeStep

(* Every request that needs no table. *)
LEMMA RequestIsCompute ==
    ASSUME IInv, NEW c \in Conns, NEW r \in Requests,
           \/ Login(c, r) \/ NotLoggedIn(c, r) \/ Unexpected(c, r)
           \/ Push(c, r) \/ Pop(c, r) \/ Top(c, r) \/ Arithmetic(c, r)
           \/ Create(c, r) \/ FindTable(c, r) \/ Begin(c, r) \/ Bye(c, r)
    PROVE  Abstract!Compute(c)
  <1> USE DEF store, session, transaction
  <1>1. TypeOK /\ Local(c)
    BY StepIsLocal DEF IInv, Input, Handle
  <1>2. UNCHANGED <<tables, m_mutex, locked_tables>>
    BY DEF Login, NotLoggedIn, Unexpected, Push, Pop, Top, Arithmetic, Create,
           FindTable, Begin, Bye
  <1>3. pc[c] = "reading"
    BY <1>1, ReceiveType
       DEF Login, NotLoggedIn, Unexpected, Push, Pop, Top, Arithmetic, Create,
           FindTable, Begin, Bye
  <1>4. pc'[c] \in {"reading", "replying", "creating", "locking"}
    <2>1. CASE Arithmetic(c, r)
      BY <1>1, <1>3, <2>1, EndPoint DEF Arithmetic, Dies
    <2>2. CASE Create(c, r) \/ FindTable(c, r)
      BY <1>1, <2>2 DEF Create, FindTable, RespondLast, Goto, TypeOK
    <2>3. CASE \/ Login(c, r) \/ NotLoggedIn(c, r) \/ Unexpected(c, r)
               \/ Push(c, r) \/ Pop(c, r) \/ Top(c, r) \/ Begin(c, r) \/ Bye(c, r)
      BY <1>1, <1>3, <2>3, EndPoint
         DEF Login, NotLoggedIn, Unexpected, Push, Pop, Top, Begin, Bye
    <2> QED
      BY <2>1, <2>2, <2>3
  <1>5. client_stack' \in [Conns -> StackState]
    BY <1>1, StackRequestTypes DEF TypeOK, Login, NotLoggedIn, Unexpected, Create,
       FindTable, Begin, Bye
  <1>6. client_stack' = [client_stack EXCEPT ![c] = client_stack'[c]]
    BY <1>1 DEF TypeOK, Login, NotLoggedIn, Unexpected, Push, Pop, Top, Arithmetic,
                Create, FindTable, Begin, Bye
  <1> QED
    BY <1>1, <1>2, <1>3, <1>4, <1>5, <1>6, ComputeStep DEF Busy

-----------------------------------------------------------------------------
(* What the owner of a table and everyone else see of its two maps. *)
KeptValue(tb, k) == IF tb.theMap[k] = Absent THEN EmptyString ELSE tb.theMap[k]

(* Table::get shows what it showed before, although it may insert an entry.  *)
LEMMA GetView ==
    ASSUME NEW tb \in TableState, NEW j \in Keys, NEW k \in Keys
    PROVE  /\ get(get_effect(tb, j), k) = get(tb, k)
           /\ KeptValue(get_effect(tb, j), k) = KeptValue(tb, k)
  BY AbsentIsNoString DEF get, get_effect, has_key, KeptValue, TableState, Map

(* Table::set changes one key, for the owner alone. *)
LEMMA SetView ==
    ASSUME NEW tb \in TableState, NEW j \in Keys, NEW k \in Keys, NEW v \in String
    PROVE  /\ get(set(tb, j, v), k) = IF k = j THEN v ELSE get(tb, k)
           /\ KeptValue(set(tb, j, v), k) = KeptValue(tb, k)
  BY AbsentIsNoString DEF get, set, KeptValue, TableState, Map

(* Table::commit_changes shows everyone what the owner saw. *)
LEMMA CommitView ==
    ASSUME NEW tb \in TableState, NEW k \in Keys
    PROVE  /\ get(commit_changes(tb), k) = get(tb, k)
           /\ KeptValue(commit_changes(tb), k) = get(tb, k)
  BY AbsentIsNoString
     DEF get, commit_changes, Overlay, EmptyMap, KeptValue, TableState, Map

(* Table::rollback_changes shows the owner what everyone saw. *)
LEMMA RollbackView ==
    ASSUME NEW tb \in TableState, NEW k \in Keys
    PROVE  /\ get(rollback_changes(tb), k) = KeptValue(tb, k)
           /\ KeptValue(rollback_changes(tb), k) = KeptValue(tb, k)
  BY AbsentIsNoString DEF get, rollback_changes, EmptyMap, KeptValue, TableState, Map

-----------------------------------------------------------------------------
(* A unit of work ends, for AtomicStore, where its loop starts: COMMIT and a *)
(* trylock that fails.                                                       *)
LEMMA LoopStarts ==
    ASSUME IInv, NEW c \in Conns, Local(c), NEW point,
           UNCHANGED <<tables, m_mutex, client_stack, locked_tables>>,
           pc[c] \notin Busy, pc'[c] = point
    PROVE  /\ point = "committing" => Abstract!Publish(c)
           /\ point = "rolling" => Abstract!Drop(c)
  <1> SUFFICES ASSUME point \in {"committing", "rolling"}
               PROVE  /\ point = "committing" => Abstract!Publish(c)
                      /\ point = "rolling" => Abstract!Drop(c)
    OBVIOUS
  <1>1. TypeOK /\ NULL \notin Conns
    BY NamesAssumption DEF IInv
  <1>2. held[c] = locked_tables[c] /\ access[c] = NULL
    BY DEF held, access, HeldBy, AccessBy, Busy
  <1>3. ASSUME NEW t \in TableId, t \notin held[c]
        PROVE  SameTable(t)
    BY <1>1, <1>2, <1>3, KeptTable DEF SameLoop
  <1>4. ASSUME NEW t \in TableId, t \in held[c]
        PROVE  /\ PublishedAt(t) = Kept(t) /\ DraftAt(t) = Drafted(t)
               /\ OwnerOf(t)' = NULL
               /\ Kept(t)' = Kept(t) /\ Drafted(t)' = Drafted(t)
               /\ InLoop(t, point)'
               /\ \A other : InLoop(t, other)' => other = point
    <2>1. m_mutex[t] = c
      BY <1>2, <1>4 DEF IInv, LocksAreHeld, WillUnlock
    <2>2. PublishedAt(t) = Kept(t) /\ DraftAt(t) = Drafted(t)
      BY <2>1, OutsideLoops DEF Busy
    <2>3. InLoop(t, point)' /\ \A other : InLoop(t, other)' => other = point
      BY <1>1, <1>2, <1>4, <2>1 DEF InLoop
    <2>4. OwnerOf(t)' = NULL
      BY <2>3 DEF OwnerOf
    <2>5. Kept(t)' = Kept(t) /\ Drafted(t)' = Drafted(t)
      BY DEF Kept, Drafted, CommittedValue
    <2> QED
      BY <2>2, <2>3, <2>4, <2>5
  <1>5. UNCHANGED <<access, stack>> /\ held' = [held EXCEPT ![c] = {}]
    <2>1. \A d \in Conns \ {c} : SameUnit(d)
      BY OtherUnits
    <2>2. HeldBy(c)' = {} /\ AccessBy(c)' = NULL
      BY DEF HeldBy, AccessBy
    <2> QED
      BY <1>2, <2>1, <2>2 DEF SameUnit, held, access, stack
  <1>6. owner' = [t \in TableId |-> IF t \in held[c] THEN NULL ELSE owner[t]]
    BY <1>3, <1>4 DEF SameTable, owner
  <1>7. CASE point = "committing"
    <2>1. published' = [t \in TableId |-> IF t \in held[c] THEN draft[t]
                                                           ELSE published[t]]
      BY <1>3, <1>4, <1>7 DEF SameTable, published, draft, PublishedAt
    <2>2. UNCHANGED draft
      BY <1>3, <1>4, <1>7 DEF SameTable, draft, DraftAt
    <2> QED
      BY <1>2, <1>5, <1>6, <1>7, <2>1, <2>2 DEF Abstract!Publish, Abstract!Release
  <1>8. CASE point = "rolling"
    <2>1. draft' = [t \in TableId |-> IF t \in held[c] THEN published[t]
                                                       ELSE draft[t]]
      BY <1>3, <1>4, <1>8 DEF SameTable, published, draft, DraftAt
    <2>2. UNCHANGED published
      BY <1>3, <1>4, <1>8 DEF SameTable, published, PublishedAt
    <2> QED
      BY <1>2, <1>5, <1>6, <1>8, <2>1, <2>2 DEF Abstract!Drop, Abstract!Release
  <1> QED
    BY <1>7, <1>8

(* A turn of commit_tables or rollback_tables makes true what AtomicStore    *)
(* took for done when the loop started.                                      *)
LEMMA LoopTurn ==
    ASSUME IInv, NEW c \in Conns, NEW t \in TableId,
           CommitTable(c, t) \/ RollbackTable(c, t)
    PROVE  UNCHANGED Abstract!vars
  <1>1. TypeOK /\ Local(c) /\ NULL \notin Conns
    BY StepIsLocal, NamesAssumption DEF IInv, Thread
  <1>2. /\ m_mutex[t] = c /\ tables[t] \in TableState
        /\ m_mutex' = [m_mutex EXCEPT ![t] = NULL]
        /\ locked_tables'[c] = locked_tables[c] \ {t}
        /\ t \in locked_tables[c] /\ UNCHANGED <<pc, request, cur_table, client_stack>>
    BY <1>1 DEF CommitTable, RollbackTable, unlock, session, IInv, LocksAreHeld,
                WillUnlock, TypeOK, ServerTypeOK
  <1>3. ASSUME NEW u \in TableId, u # t
        PROVE  SameTable(u)
    <2>1. m_mutex'[u] = m_mutex[u] /\ tables'[u] = tables[u]
      BY <1>1, <1>2, <1>3 DEF CommitTable, RollbackTable, TypeOK, ServerTypeOK
    <2>2. SameLoop(c, u)
      BY <1>2, <1>3 DEF SameLoop
    <2> QED
      BY <1>1, <2>1, <2>2, KeptTable
  <1>4. SameTable(t)
    <2>1. m_mutex'[t] = NULL
      BY <1>1, <1>2 DEF TypeOK, ServerTypeOK
    <2>2. ~InLoop(t, "committing")' /\ ~InLoop(t, "rolling")'
      BY <2>1 DEF InLoop
    <2>3. CASE CommitTable(c, t)
      <3>1. pc[c] = "committing" /\ tables'[t] = commit_changes(tables[t])
        BY <1>1, <2>3 DEF CommitTable, At, TypeOK, ServerTypeOK
      <3>2. Drafted(t)' = Drafted(t) /\ Kept(t)' = Drafted(t)
        BY <1>2, <3>1, CommitView DEF Drafted, Kept, CommittedValue, KeptValue
      <3> QED
        BY <1>1, <1>2, <2>1, <2>2, <3>1, <3>2
           DEF SameTable, PublishedAt, DraftAt, OwnerOf, InLoop
    <2>4. CASE RollbackTable(c, t)
      <3>1. pc[c] = "rolling" /\ tables'[t] = rollback_changes(tables[t])
        BY <1>1, <2>4 DEF RollbackTable, At, TypeOK, ServerTypeOK
      <3>2. Drafted(t)' = Kept(t) /\ Kept(t)' = Kept(t)
        BY <1>2, <3>1, RollbackView DEF Drafted, Kept, CommittedValue, KeptValue
      <3> QED
        BY <1>1, <1>2, <2>1, <2>2, <3>1, <3>2
           DEF SameTable, PublishedAt, DraftAt, OwnerOf, InLoop
    <2> QED
      BY <2>3, <2>4
  <1>5. ASSUME NEW d \in Conns
        PROVE  SameUnit(d)
    <2>1. pc[c] \in {"committing", "rolling"}
      BY DEF CommitTable, RollbackTable, At
    <2>2. CASE d = c
      BY <1>2, <2>1, <2>2 DEF SameUnit, HeldBy, AccessBy
    <2> QED
      BY <1>1, <2>2, OtherUnits
  <1> QED
    BY <1>2, <1>3, <1>4, <1>5, SameView DEF Abstract!vars

(* After the loop there is nothing left to release. *)
LEMMA LoopEnds ==
    ASSUME IInv, NEW c \in Conns, Committed(c) \/ RolledBack(c)
    PROVE  UNCHANGED Abstract!vars
  <1>1. TypeOK /\ Local(c)
    BY StepIsLocal DEF IInv, Thread
  <1>2. /\ UNCHANGED <<tables, m_mutex, client_stack, locked_tables>>
        /\ locked_tables[c] = {}
        /\ pc[c] \in {"committing", "rolling"} /\ pc'[c] = "replying"
    BY <1>1 DEF Committed, RolledBack, At, Respond, Goto, store, session, TypeOK
  <1>3. \A t \in TableId : SameTable(t)
    BY <1>1, <1>2, KeptTable DEF SameLoop
  <1>4. SameUnit(c)
    BY <1>2 DEF SameUnit, HeldBy, AccessBy
  <1>5. \A d \in Conns : SameUnit(d)
    BY <1>1, <1>4, OtherUnits
  <1> QED
    BY <1>2, <1>3, <1>5, SameView DEF Abstract!vars

(* handle_table_locking gives the connection a table nobody owns, or finds   *)
(* it among its own.                                                         *)
LEMMA LockIsUse ==
    ASSUME IInv, NEW c \in Conns, Lock(c) \/ LockHeld(c) \/ Trylock(c),
           pc'[c] = "working"
    PROVE  \E a \in Abstract!Access : Abstract!Use(c, a)
  <1> USE DEF store, session, transaction
  <1>t. PICK t : t = cur_table[c]
    OBVIOUS
  <1>a. PICK a : a = [type |-> request[c].type, table |-> t, key |-> request[c].key]
    OBVIOUS
  <1>1. TypeOK /\ ControlInv /\ Local(c) /\ NULL \notin Conns
    BY StepIsLocal, NamesAssumption DEF IInv, Thread
  <1>2. pc[c] = "locking" /\ t \in TableId
    BY <1>t, <1>1 DEF Lock, LockHeld, Trylock, At, ControlInv
  <1>3. a \in Abstract!Access
    BY <1>1, <1>2, <1>a DEF ControlInv, Abstract!Access
  <1>4. /\ UNCHANGED <<tables, client_stack, request, cur_table>>
        /\ locked_tables'[c] \in {locked_tables[c], locked_tables[c] \cup {t}}
    BY <1>t, <1>1 DEF Lock, LockHeld, Trylock, TypeOK
  <1>5. held[c] = locked_tables[c] /\ access[c] = NULL
    BY <1>2 DEF held, access, HeldBy, AccessBy
  <1>6. held' = [held EXCEPT ![c] = @ \cup {t}] /\ access' = [access EXCEPT ![c] = a]
    <2>1. \A d \in Conns \ {c} : SameUnit(d)
      BY <1>1, OtherUnits
    <2>2. HeldBy(c)' = locked_tables[c] \cup {t} /\ AccessBy(c)' = a
      BY <1>t, <1>4, <1>a DEF HeldBy, AccessBy
    <2>3. HeldBy(c) = locked_tables[c]
      BY <1>2 DEF HeldBy
    <2> QED
      BY <2>1, <2>2, <2>3 DEF SameUnit, held, access
  <1>7. ASSUME NEW u \in TableId, m_mutex'[u] = m_mutex[u]
        PROVE  SameTable(u)
    BY <1>1, <1>2, <1>4, <1>7, KeptTable DEF SameLoop
  <1>8. CASE LockHeld(c)
    <2>1. t \in held[c] /\ UNCHANGED m_mutex
      BY <1>t, <1>5, <1>8 DEF LockHeld
    <2>2. UNCHANGED <<published, draft, owner, stack>>
      BY <1>4, <1>7, <2>1, SameView
    <2>3. UNCHANGED held
      BY <1>6, <2>1 DEF held
    <2> QED
      BY <1>a, <1>3, <1>5, <1>6, <2>1, <2>2, <2>3 DEF Abstract!Use
  <1>9. CASE Lock(c) \/ Trylock(c)
    <2>1. m_mutex[t] = NULL /\ m_mutex' = [m_mutex EXCEPT ![t] = c]
      <3>1. CanLock(t) /\ lock(t, c)
        BY <1>t, <1>1, <1>9 DEF Lock, Trylock, Goto, TypeOK
      <3> QED
        BY <3>1 DEF CanLock, lock
    <2>2. \A u \in TableId \ {t} : SameTable(u)
      BY <1>1, <1>7, <2>1 DEF TypeOK, ServerTypeOK
    <2>3. ~InLoop(t, "committing") /\ ~InLoop(t, "rolling")
      BY <2>1 DEF InLoop
    <2>4. m_mutex'[t] = c
      BY <1>1, <1>2, <2>1 DEF TypeOK, ServerTypeOK
    <2>5. ~InLoop(t, "committing")' /\ ~InLoop(t, "rolling")'
      BY <2>4 DEF InLoop
    <2>6. Drafted(t)' = Drafted(t) /\ Kept(t)' = Kept(t)
      BY <1>4 DEF Drafted, Kept, CommittedValue
    <2>7. /\ PublishedAt(t)' = PublishedAt(t) /\ DraftAt(t)' = DraftAt(t)
          /\ OwnerOf(t) = NULL /\ OwnerOf(t)' = c
      BY <2>1, <2>3, <2>4, <2>5, <2>6 DEF PublishedAt, DraftAt, OwnerOf
    <2>8. UNCHANGED <<published, draft, stack>>
      BY <1>4, <2>2, <2>7 DEF SameTable, published, draft, stack
    <2>9. owner[t] = NULL /\ owner' = [owner EXCEPT ![t] = c]
      BY <1>2, <2>2, <2>7 DEF SameTable, owner
    <2> QED
      BY <1>a, <1>3, <1>5, <1>6, <2>8, <2>9 DEF Abstract!Use
  <1> QED
    BY <1>8, <1>9

(* What a connection sees of its unit of work once its GET or SET is over.   *)
LEMMA AccessEnds ==
    ASSUME IInv, NEW c \in Conns, Local(c),
           pc[c] = "working", pc'[c] \in {"finishing", "replying"},
           UNCHANGED <<cur_table, locked_tables>>,
           pc'[c] = "replying" => transaction_mode[c]
    PROVE  /\ access' = [access EXCEPT ![c] = NULL]
           /\ UNCHANGED held
  <1>1. \A d \in Conns \ {c} : SameUnit(d)
    BY OtherUnits
  <1>2. HeldBy(c)' = HeldBy(c) /\ AccessBy(c)' = NULL
    BY DEF HeldBy, AccessBy, IInv, ControlInv
  <1> QED
    BY <1>1, <1>2 DEF SameUnit, held, access

(* The table a thread works on, as AtomicStore sees it. *)
LEMMA WorkingTable ==
    ASSUME IInv, NEW c \in Conns, pc[c] = "working"
    PROVE  /\ cur_table[c] \in TableId /\ request[c].key \in Keys
           /\ access[c].type = request[c].type /\ access[c].table = cur_table[c]
           /\ access[c].key = request[c].key /\ access[c] \in Abstract!Access
           /\ m_mutex[cur_table[c]] = c
           /\ tables[cur_table[c]] \in TableState
           /\ draft[cur_table[c]] = Drafted(cur_table[c])
           /\ client_stack[c] \in StackState
  <1>1. cur_table[c] \in TableId /\ request[c].type \in {"GET", "SET"}
        /\ request[c].key \in Keys
    BY DEF IInv, ControlInv
  <1>2. m_mutex[cur_table[c]] = c
    BY <1>1 DEF IInv, LocksAreHeld, WillUnlock
  <1>3. access[c] = [type |-> request[c].type, table |-> cur_table[c],
                     key |-> request[c].key]
    BY DEF access, AccessBy
  <1>4. DraftAt(cur_table[c]) = Drafted(cur_table[c])
    BY <1>1, <1>2, OutsideLoops
  <1>5. tables[cur_table[c]] \in TableState /\ client_stack[c] \in StackState
    BY <1>1 DEF IInv, TypeOK, ServerTypeOK
  <1>6. access[c] \in Abstract!Access
    BY <1>1, <1>3 DEF Abstract!Access
  <1>7. draft[cur_table[c]] = Drafted(cur_table[c])
    BY <1>1, <1>4 DEF draft
  <1> QED
    BY <1>1, <1>2, <1>3, <1>5, <1>6, <1>7

(* A table a thread has locked, if its maps change outside the loops. *)
LEMMA ChangedTable ==
    ASSUME IInv, NEW c \in Conns, Local(c), NEW t \in TableId,
           m_mutex[t] = c, UNCHANGED m_mutex,
           pc[c] \notin {"committing", "rolling"}, pc'[c] \notin {"committing", "rolling"}
    PROVE  /\ PublishedAt(t) = Kept(t) /\ PublishedAt(t)' = Kept(t)'
           /\ DraftAt(t) = Drafted(t) /\ DraftAt(t)' = Drafted(t)'
           /\ OwnerOf(t)' = OwnerOf(t)
  BY DEF InLoop, PublishedAt, DraftAt, OwnerOf

(* GET of a key: the draft is read. *)
LEMMA GetIsRead ==
    ASSUME IInv, NEW c \in Conns, Get(c)
    PROVE  Abstract!Read(c)
  <1>1. TypeOK /\ Local(c)
    BY StepIsLocal DEF IInv, Thread
  <1>2. PICK t : t = cur_table[c]
    OBVIOUS
  <1>3. PICK k : k = request[c].key
    OBVIOUS
  <1>4. /\ pc[c] = "working" /\ request[c].type = "GET"
        /\ UNCHANGED <<m_mutex, cur_table, locked_tables>>
        /\ client_stack' = [client_stack EXCEPT ![c] = push(@, get(tables[t], k))]
        /\ tables' = [tables EXCEPT ![t] = get_effect(@, k)]
    BY <1>2, <1>3 DEF Get, At, transaction
  <1>5. pc'[c] = "finishing" \/ (pc'[c] = "replying" /\ transaction_mode[c])
    BY <1>1 DEF Get, AfterAccess, Respond, Goto, TypeOK
  <1>6. /\ t \in TableId /\ k \in Keys /\ m_mutex[t] = c /\ tables[t] \in TableState
        /\ access[c] \in Abstract!Access /\ access[c].type = "GET"
        /\ access[c].table = t /\ access[c].key = k
        /\ draft[t] = Drafted(t)
    BY <1>2, <1>3, <1>4, WorkingTable
  <1>7. access' = [access EXCEPT ![c] = NULL] /\ UNCHANGED held
    BY <1>1, <1>4, <1>5, AccessEnds
  <1>8. \A u \in TableId \ {t} : SameTable(u)
    BY <1>1, <1>4, <1>5, KeptTable DEF SameLoop, TypeOK, ServerTypeOK
  <1>9. SameTable(t)
    <2>1. tables'[t] = get_effect(tables[t], k)
      BY <1>1, <1>4, <1>6 DEF TypeOK, ServerTypeOK
    <2>2. Drafted(t)' = Drafted(t) /\ Kept(t)' = Kept(t)
      BY <1>6, <2>1, GetView DEF Drafted, Kept, CommittedValue, KeptValue
    <2> QED
      BY <1>4, <1>5, <1>6, <1>1, <2>2, ChangedTable DEF SameTable
  <1>10. stack' = [stack EXCEPT ![c] = <<get(tables[t], k)>> \o @]
    BY <1>1, <1>4 DEF stack, push, TypeOK
  <1>11. draft[t][k] = get(tables[t], k)
    BY <1>6 DEF Drafted
  <1> QED
    BY <1>6, <1>7, <1>8, <1>9, <1>10, <1>11, SameView DEF Abstract!Read

(* SET of a key with a value on the stack: the draft is written. *)
LEMMA SetIsWrite ==
    ASSUME IInv, NEW c \in Conns, Set(c), ~is_empty(client_stack[c])
    PROVE  Abstract!Write(c)
  <1>1. TypeOK /\ Local(c)
    BY StepIsLocal DEF IInv, Thread
  <1>2. PICK t : t = cur_table[c]
    OBVIOUS
  <1>3. PICK k : k = request[c].key
    OBVIOUS
  <1>v. PICK v : v = get_top(client_stack[c])
    OBVIOUS
  <1>4. /\ pc[c] = "working" /\ request[c].type = "SET"
        /\ UNCHANGED <<m_mutex, cur_table, locked_tables>>
        /\ client_stack' = [client_stack EXCEPT ![c] = pop(@)]
        /\ tables' = [tables EXCEPT ![t] = set(@, k, v)]
    BY <1>2, <1>3, <1>v DEF Set, At, transaction
  <1>5. pc'[c] = "finishing" \/ (pc'[c] = "replying" /\ transaction_mode[c])
    BY <1>1 DEF Set, AfterAccess, Respond, Goto, TypeOK
  <1>6. /\ t \in TableId /\ k \in Keys /\ m_mutex[t] = c /\ tables[t] \in TableState
        /\ access[c] \in Abstract!Access /\ access[c].type = "SET"
        /\ access[c].table = t /\ access[c].key = k
        /\ draft[t] = Drafted(t) /\ client_stack[c] \in StackState
    BY <1>2, <1>3, <1>4, WorkingTable
  <1>7. access' = [access EXCEPT ![c] = NULL] /\ UNCHANGED held
    BY <1>1, <1>4, <1>5, AccessEnds
  <1>8. \A u \in TableId \ {t} : SameTable(u)
    BY <1>1, <1>4, <1>5, KeptTable DEF SameLoop, TypeOK, ServerTypeOK
  <1>9. /\ v \in String /\ v = Head(stack[c]) /\ stack[c] # << >>
        /\ stack' = [stack EXCEPT ![c] = Tail(@)]
    <2>1. v \in String
      BY <1>6, <1>v, PopType
    <2>2. stack[c] = client_stack[c].stk /\ stack[c] # << >>
      BY <1>6 DEF stack, StackState, is_empty
    <2>3. stack' = [stack EXCEPT ![c] = Tail(@)]
      BY <1>1, <1>4 DEF stack, pop, TypeOK
    <2> QED
      BY <1>v, <2>1, <2>2, <2>3 DEF get_top
  <1>10. tables'[t] = set(tables[t], k, v)
    BY <1>1, <1>4, <1>6 DEF TypeOK, ServerTypeOK
  <1>11. Kept(t)' = Kept(t) /\ Drafted(t)' = [Drafted(t) EXCEPT ![k] = v]
    BY <1>6, <1>9, <1>10, SetView DEF Drafted, Kept, CommittedValue, KeptValue
  <1>12. PublishedAt(t)' = PublishedAt(t) /\ DraftAt(t)' = [draft[t] EXCEPT ![k] = v]
         /\ OwnerOf(t)' = OwnerOf(t)
    BY <1>1, <1>4, <1>5, <1>6, <1>11, ChangedTable
  <1>13. UNCHANGED <<published, owner>>
    BY <1>8, <1>12 DEF SameTable, published, owner
  <1>14. draft' = [draft EXCEPT ![t] = [@ EXCEPT ![k] = v]]
    BY <1>6, <1>8, <1>12 DEF SameTable, draft
  <1> QED
    BY <1>6, <1>7, <1>9, <1>13, <1>14 DEF Abstract!Write

(* A SET with nothing to store gives up: outside a transaction its table     *)
(* stays locked for ever, inside one the process ends.                       *)
LEMMA FailedSet ==
    ASSUME IInv, NEW c \in Conns, Set(c), is_empty(client_stack[c])
    PROVE  Abstract!Abandon(c) \/ UNCHANGED Abstract!vars
  <1>1. TypeOK /\ ControlInv /\ Local(c)
    BY StepIsLocal DEF IInv, Thread
  <1>2. /\ UNCHANGED <<tables, m_mutex, client_stack, request, cur_table, locked_tables>>
        /\ pc[c] = "working" /\ OperationFails(c)
    BY DEF Set, At, transaction, AfterAccess
  <1>3. pc'[c] \notin {"committing", "rolling"}
    BY <1>1, <1>2, EndPoint
  <1>4. UNCHANGED <<published, draft, owner, stack>>
    BY <1>1, <1>2, <1>3, KeptTable, SameView DEF SameLoop
  <1>5. CASE transaction_mode[c]
    <2>1. UNCHANGED pc
      BY <1>2, <1>5 DEF OperationFails, Dies
    <2>2. SameUnit(c)
      BY <1>2, <2>1 DEF SameUnit, HeldBy, AccessBy
    <2>3. \A d \in Conns : SameUnit(d)
      BY <1>1, <2>2, OtherUnits
    <2> QED
      BY <1>4, <2>3, SameView DEF Abstract!vars
  <1>6. CASE ~transaction_mode[c]
    <2>1. pc'[c] = "replying" /\ locked_tables[c] = {}
      BY <1>1, <1>2, <1>6 DEF OperationFails, Respond, Goto, TypeOK, ControlInv
    <2>2. HeldBy(c)' = {} /\ AccessBy(c)' = NULL
      BY <1>2, <2>1 DEF HeldBy, AccessBy
    <2>3. held' = [held EXCEPT ![c] = {}] /\ access' = [access EXCEPT ![c] = NULL]
      BY <1>1, <2>2, OtherUnits DEF SameUnit, held, access
    <2> QED
      BY <1>4, <2>3 DEF Abstract!Abandon
  <1> QED
    BY <1>5, <1>6

(* The end of a connection gives up what its transaction holds. *)
LEMMA CloseIsAbandon ==
    ASSUME IInv, NEW c \in Conns, ReplyAndClose(c)
    PROVE  Abstract!Abandon(c)
  <1>1. TypeOK /\ Local(c)
    BY StepIsLocal DEF IInv, Thread
  <1>2. /\ UNCHANGED <<tables, m_mutex>>
        /\ pc[c] = "replying" /\ pc'[c] = "closed" /\ locked_tables'[c] = {}
        /\ client_stack' = [client_stack EXCEPT ![c] = NewStack]
    BY <1>1 DEF ReplyAndClose, At, Goto, store, TypeOK
  <1>3. UNCHANGED <<published, draft, owner>>
    BY <1>1, <1>2, KeptTable, SameView DEF SameLoop
  <1>4. HeldBy(c)' = {} /\ AccessBy(c)' = NULL
    BY <1>2 DEF HeldBy, AccessBy
  <1>5. held' = [held EXCEPT ![c] = {}] /\ access' = [access EXCEPT ![c] = NULL]
    BY <1>1, <1>4, OtherUnits DEF SameUnit, held, access
  <1>6. stack' = [stack EXCEPT ![c] = << >>]
    BY <1>1, <1>2 DEF stack, NewStack, TypeOK
  <1> QED
    BY <1>3, <1>5, <1>6 DEF Abstract!Abandon

(* commit_changes and unlock after a GET or SET of its own. *)
LEMMA AutoCommitIsPublish ==
    ASSUME IInv, NEW c \in Conns, AutoCommit(c)
    PROVE  Abstract!Publish(c)
  <1>1. TypeOK /\ ControlInv /\ Local(c) /\ NULL \notin Conns
    BY StepIsLocal, NamesAssumption DEF IInv, Thread
  <1>2. PICK t : t = cur_table[c]
    OBVIOUS
  <1>3. /\ pc[c] = "finishing" /\ pc'[c] = "replying"
        /\ UNCHANGED <<client_stack, cur_table, locked_tables>>
        /\ tables' = [tables EXCEPT ![t] = commit_changes(@)]
        /\ m_mutex' = [m_mutex EXCEPT ![t] = NULL]
    BY <1>1, <1>2 DEF AutoCommit, At, unlock, Respond, Goto, session, transaction, TypeOK
  <1>4. t \in TableId /\ locked_tables[c] = {}
    BY <1>1, <1>2, <1>3 DEF ControlInv
  <1>5. m_mutex[t] = c /\ m_mutex'[t] = NULL
    BY <1>1, <1>2, <1>3, <1>4 DEF IInv, LocksAreHeld, WillUnlock, TypeOK, ServerTypeOK
  <1>6. held[c] = {t} /\ access[c] = NULL
    BY <1>2, <1>3, <1>4 DEF held, access, HeldBy, AccessBy
  <1>7. UNCHANGED <<access, stack>> /\ held' = [held EXCEPT ![c] = {}]
    <2>1. HeldBy(c)' = {} /\ AccessBy(c)' = NULL
      BY <1>3, <1>4 DEF HeldBy, AccessBy
    <2> QED
      BY <1>1, <1>3, <1>6, <2>1, OtherUnits DEF SameUnit, held, access, stack
  <1>8. \A u \in TableId \ {t} : SameTable(u)
    BY <1>1, <1>3, <1>4, KeptTable DEF SameLoop, TypeOK, ServerTypeOK
  <1>9. PublishedAt(t) = Kept(t) /\ DraftAt(t) = Drafted(t)
    BY <1>3, <1>4, <1>5, OutsideLoops
  <1>10. PublishedAt(t)' = Kept(t)' /\ DraftAt(t)' = Drafted(t)' /\ OwnerOf(t)' = NULL
    BY <1>5 DEF PublishedAt, DraftAt, OwnerOf, InLoop
  <1>11. Kept(t)' = Drafted(t) /\ Drafted(t)' = Drafted(t)
    <2>1. tables[t] \in TableState /\ tables'[t] = commit_changes(tables[t])
      BY <1>1, <1>3, <1>4 DEF TypeOK, ServerTypeOK
    <2> QED
      BY <2>1, CommitView DEF Drafted, Kept, CommittedValue, KeptValue
  <1>12. owner' = [u \in TableId |-> IF u \in held[c] THEN NULL ELSE owner[u]]
    BY <1>6, <1>8, <1>10 DEF SameTable, owner
  <1>13. published' = [u \in TableId |-> IF u \in held[c] THEN draft[u]
                                                         ELSE published[u]]
    BY <1>6, <1>8, <1>9, <1>10, <1>11 DEF SameTable, published, draft
  <1>14. UNCHANGED draft
    BY <1>8, <1>9, <1>10, <1>11 DEF SameTable, draft
  <1> QED
    BY <1>6, <1>7, <1>12, <1>13, <1>14 DEF Abstract!Publish, Abstract!Release

-----------------------------------------------------------------------------
(* Whatever a connection's thread does is a step of AtomicStore or nothing   *)
(* at all.                                                                   *)
LEMMA StepRefines ==
    ASSUME IInv, NEW c \in Conns, Input(c) \/ Thread(c)
    PROVE  Abstract!Next \/ UNCHANGED Abstract!vars
  <1> USE DEF Abstract!Next
  <1>1. TypeOK /\ Local(c)
    BY StepIsLocal DEF IInv
  <1>2. CASE \E r \in Requests : Commit(c, r)
    <2>1. /\ UNCHANGED <<tables, m_mutex, client_stack, locked_tables>>
          /\ pc'[c] = "committing"
      BY <1>1, <1>2 DEF Commit, Goto, store, session, transaction, TypeOK
    <2>2. pc[c] \notin Busy
      BY <1>1, <1>2, ReceiveType DEF Commit, Busy
    <2> QED
      BY <1>1, <2>1, <2>2, LoopStarts
  <1>3. CASE Input(c) /\ ~\E r \in Requests : Commit(c, r)
    BY <1>3, QuietIsCompute, RequestIsCompute DEF Input, Handle
  <1>4. CASE (Lock(c) \/ LockHeld(c) \/ Trylock(c)) /\ pc'[c] = "working"
    BY <1>4, LockIsUse
  <1>5. CASE (Lock(c) \/ LockHeld(c) \/ Trylock(c)) /\ pc'[c] # "working"
    <2>1. Trylock(c) /\ Goto(c, "rolling") /\ UNCHANGED <<m_mutex, locked_tables>>
      BY <1>1, <1>5 DEF Lock, LockHeld, Trylock, Goto, TypeOK
    <2>2. /\ UNCHANGED <<tables, m_mutex, client_stack, locked_tables>>
          /\ pc[c] \notin Busy /\ pc'[c] = "rolling"
      BY <1>1, <2>1 DEF Trylock, At, Goto, session, Busy, TypeOK
    <2> QED
      BY <1>1, <2>2, LoopStarts
  <1>6. CASE Set(c)
    BY <1>6, SetIsWrite, FailedSet
  <1>7. CASE Get(c) \/ AutoCommit(c)
    BY <1>7, GetIsRead, AutoCommitIsPublish
  <1>8. CASE (\E t \in TableId : CommitTable(c, t) \/ RollbackTable(c, t))
             \/ Committed(c) \/ RolledBack(c)
    BY <1>8, LoopTurn, LoopEnds
  <1>9. CASE CreateTable(c) \/ Reply(c) \/ ReplyAndClose(c)
    BY <1>9, QuietIsCompute, CloseIsAbandon
  <1> QED
    BY <1>2, <1>3, <1>4, <1>5, <1>6, <1>7, <1>8, <1>9 DEF Thread

(* Transactions are atomic and isolated in every instance: the server, with  *)
(* its mutexes and its tables committed and unlocked one by one, implements  *)
(* the store in which a unit of work is published in one step.               *)
THEOREM StoreIsAtomic == Spec => TransactionsAreAtomic
  <1>1. IInv /\ [Next]_vars => [Abstract!Next]_Abstract!vars
    <2> SUFFICES ASSUME IInv, [Next]_vars
                 PROVE  Abstract!Next \/ UNCHANGED Abstract!vars
      OBVIOUS
    <2>1. CASE Next
      BY <2>1, StepRefines DEF Next
    <2>2. CASE UNCHANGED vars
      BY <2>2 DEF vars, Abstract!vars, published, draft, owner, held, access, stack,
                  PublishedAt, DraftAt, OwnerOf, HeldBy, AccessBy, InLoop, Drafted,
                  Kept, CommittedValue
    <2> QED
      BY <2>1, <2>2
  <1> QED
    BY <1>1, InitRefines, Invariance, PTL DEF Spec, TransactionsAreAtomic, Abstract!Spec
=============================================================================
