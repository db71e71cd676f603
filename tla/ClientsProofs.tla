--------------------------- MODULE ClientsProofs ---------------------------
(***************************************************************************)
(* What is proved of the client programs on their server.                  *)
(*                                                                         *)
(* ClientsSpec implements Spec of ClientConnection: the programs are one   *)
(* way to choose its inputs, so that every theorem about the server holds  *)
(* of the composition.  The second part follows the conversation of each   *)
(* client to show that SIGPIPE needs one that was killed; the third, what  *)
(* the requests of a session leave on the server, to show that only one    *)
(* that was killed in its transaction leaves a table locked; the fourth,   *)
(* the values a get_value is sent, to show that each was committed; the    *)
(* last, what each request of set_value and of incr_value -t leaves, to    *)
(* show that the increments add up.                                        *)
(***************************************************************************)
EXTENDS Clients, ConnectionProofs, FiniteSetTheorems

(* The other threads stay where they are. *)
OthersStay(c) ==
    \A d \in Conns \ {c} : pc'[d] = pc[d] /\ keep_going'[d] = keep_going[d]

-----------------------------------------------------------------------------
(* Steps of ClientConnection, as far as a client can tell them apart.        *)

LEMMA AcceptStep ==
    ASSUME TypeOK, NEW c \in Conns, Accept(c)
    PROVE  /\ pc[c] = "unconnected" /\ pc'[c] = "reading"
           /\ OthersStay(c)
           /\ UNCHANGED process
    BY DEF TypeOK, Accept, At, Goto, OthersStay

LEMMA NoRequestStep ==
    ASSUME TypeOK, NEW c \in Conns, NoRequest(c)
    PROVE  /\ pc[c] = "reading" /\ pc'[c] = "replying"
           /\ ~keep_going'[c]
           /\ OthersStay(c)
           /\ UNCHANGED process
    BY DEF TypeOK, NoRequest, RespondLast, At, Goto, OthersStay

LEMMA HandleStep ==
    ASSUME TypeOK, NEW c \in Conns, NEW r, Handle(c, r)
    PROVE  /\ r \in Requests
           /\ pc[c] = "reading"
           /\ OthersStay(c)
           /\ process' # "SIGPIPE"
    <1>1. ASSUME NEW m, Respond(c, m) PROVE OthersStay(c) /\ UNCHANGED process
        BY <1>1 DEF TypeOK, Respond, Goto, OthersStay
    <1>2. ASSUME NEW m, RespondLast(c, m) PROVE OthersStay(c) /\ UNCHANGED process
        BY <1>2 DEF TypeOK, RespondLast, Goto, OthersStay
    <1>3. ASSUME NEW cause, Dies(cause) PROVE OthersStay(c) /\ process' = cause
        BY <1>3 DEF TypeOK, Dies, OthersStay
    <1>4. ASSUME NEW point, Goto(c, point), UNCHANGED keep_going PROVE OthersStay(c)
        BY <1>4 DEF TypeOK, Goto, OthersStay
    <1>5. ASSUME OperationFails(c)
          PROVE  OthersStay(c) /\ process' \in {process, "FailedTransaction"}
        BY <1>1, <1>3, <1>5 DEF OperationFails
    <1>6. ASSUME NEW types, Receive(c, r, types)
          PROVE  r \in Requests /\ pc[c] = "reading" /\ process = "running"
        BY <1>6 DEF Receive, At
    <1>7. CASE Login(c, r)
        BY <1>1, <1>6, <1>7 DEF Login
    <1>8. CASE NotLoggedIn(c, r)
        BY <1>2, <1>6, <1>8 DEF NotLoggedIn
    <1>9. CASE Unexpected(c, r)
        BY <1>2, <1>6, <1>9 DEF Unexpected, Serve
    <1>10. CASE Push(c, r)
        BY <1>1, <1>6, <1>10 DEF Push, Serve
    <1>11. CASE Pop(c, r)
        BY <1>1, <1>5, <1>6, <1>11 DEF Pop, Serve
    <1>12. CASE Top(c, r)
        BY <1>1, <1>5, <1>6, <1>12 DEF Top, Serve
    <1>13. CASE Arithmetic(c, r)
        BY <1>1, <1>3, <1>5, <1>6, <1>13 DEF Arithmetic, Serve
    <1>14. CASE Create(c, r)
        BY <1>2, <1>4, <1>6, <1>14 DEF Create, Serve
    <1>15. CASE FindTable(c, r)
        BY <1>2, <1>4, <1>6, <1>15 DEF FindTable, Serve
    <1>16. CASE Begin(c, r)
        BY <1>1, <1>6, <1>16 DEF Begin, Serve
    <1>17. CASE Commit(c, r)
        BY <1>4, <1>6, <1>17 DEF Commit, Serve
    <1>18. CASE Bye(c, r)
        BY <1>2, <1>6, <1>18 DEF Bye, Serve
    <1> QED
        BY <1>7, <1>8, <1>9, <1>10, <1>11, <1>12, <1>13, <1>14, <1>15, <1>16,
           <1>17, <1>18 DEF Handle

(* A thread at work answers once, and then reads or ends. *)
LEMMA ThreadStep ==
    ASSUME TypeOK, NEW c \in Conns, Thread(c)
    PROVE  /\ pc[c] \notin {"unconnected", "reading", "closed"}
           /\ pc[c] = "replying"
                 => pc'[c] = IF keep_going[c] THEN "reading" ELSE "closed"
           /\ OthersStay(c)
           /\ process' # "SIGPIPE"
    <1>1. ASSUME NEW m, Respond(c, m) PROVE OthersStay(c) /\ UNCHANGED process
        BY <1>1 DEF TypeOK, Respond, Goto, OthersStay
    <1>2. ASSUME NEW point, Goto(c, point), UNCHANGED keep_going
          PROVE  OthersStay(c) /\ pc'[c] = point
        BY <1>2 DEF TypeOK, Goto, OthersStay
    <1>3. ASSUME OperationFails(c)
          PROVE  OthersStay(c) /\ process' \in {process, "FailedTransaction"}
        BY <1>3 DEF TypeOK, OperationFails, Respond, Dies, Goto, OthersStay
    <1>4. ASSUME AfterAccess(c) PROVE OthersStay(c) /\ UNCHANGED process
        BY <1>1, <1>2, <1>4 DEF AfterAccess
    <1>5. ASSUME NEW point, At(c, point) PROVE pc[c] = point /\ process = "running"
        BY <1>5 DEF At
    <1>6. CASE CreateTable(c)
        BY <1>1, <1>5, <1>6 DEF CreateTable
    <1>7. CASE Lock(c) \/ LockHeld(c) \/ Trylock(c)
        BY <1>2, <1>5, <1>7 DEF Lock, LockHeld, Trylock
    <1>8. CASE Get(c) \/ Set(c)
        BY <1>3, <1>4, <1>5, <1>8 DEF Get, Set
    <1>9. CASE AutoCommit(c) \/ Committed(c) \/ RolledBack(c)
        BY <1>1, <1>5, <1>9 DEF AutoCommit, Committed, RolledBack
    <1>10. CASE \E t \in TableId : CommitTable(c, t) \/ RollbackTable(c, t)
        BY <1>5, <1>10 DEF CommitTable, RollbackTable, OthersStay
    <1>11. CASE Reply(c) \/ ReplyAndClose(c)
        BY <1>2, <1>5, <1>11 DEF Reply, ReplyAndClose
    <1> QED
        BY <1>6, <1>7, <1>8, <1>9, <1>10, <1>11 DEF Thread

-----------------------------------------------------------------------------
(* The composition is one way to run the server.                             *)

(* Steps that are inputs of a thread or its own. *)
LEMMA ServerStepIsOne ==
    ASSUME NEW c \in Conns, ServerStep(c)
    PROVE  Input(c) \/ Thread(c)
    <1>1. ASSUME NEW r, Handle(c, r) PROVE Input(c)
        <2>1. r \in Requests
            BY <1>1 DEF Handle, Login, NotLoggedIn, Unexpected, Push, Pop, Top, Arithmetic,
                        Create, FindTable, Begin, Commit, Bye, Serve, Receive
        <2> QED
            BY <1>1, <2>1 DEF Input
    <1> QED
        BY <1>1 DEF ServerStep, Accepted, Arrive, HangUp, Work, Answer, BreakPipe, Input

(* Nothing happens once the process has ended. *)
LEMMA RunningStep ==
    ASSUME NEW c \in Conns, Input(c) \/ Thread(c)
    PROVE  process = "running"
    BY DEF Input, Thread, Accept, AcceptFails, NoRequest, DecodeRunsOff,
           ReplyToDeadPeer, Handle, Login, NotLoggedIn, Unexpected, Push, Pop, Top,
           Arithmetic, Create, FindTable, Begin, Commit, Bye, Serve, Receive,
           CreateTable, Lock, LockHeld, Trylock, Get, Set, AutoCommit, CommitTable,
           RollbackTable, Committed, RolledBack, Reply, ReplyAndClose, At

LEMMA ComposedStep ==
    ASSUME [ClientsNext]_allVars
    PROVE  [Next]_vars
    <1>1. CASE UNCHANGED allVars
        BY <1>1 DEF allVars
    <1>2. ASSUME NEW c \in Conns, ClientStep(c) \/ Kill(c)
          PROVE  UNCHANGED vars
        BY <1>2 DEF ClientStep, Start, Send, ReadAnswer, LoseServer, Kill
    <1>3. ASSUME NEW c \in Conns, ServerStep(c)
          PROVE  Next
        BY <1>3, ServerStepIsOne DEF Next
    <1> QED
        BY <1>1, <1>2, <1>3 DEF ClientsNext

(* Every run of the programs and their server is a run of the server alone,  *)
(* seen without the programs: chat_with_client is used as it was modelled.   *)
THEOREM ClientsRunTheServer == ClientsSpec => Spec
    <1>1. ClientsInit => Init
        BY DEF ClientsInit
    <1>2. [ClientsNext]_allVars => [Next]_vars
        BY ComposedStep
    <1> QED
        BY <1>1, <1>2, PTL DEF ClientsSpec, Spec

-----------------------------------------------------------------------------
(* The conversations.                                                        *)

(* What is under way between a program and its thread while the server runs. *)
Conversation(c) ==
    /\ phase[c] = "idle" => wire[c] = NULL /\ answer[c] = NULL /\ pc[c] = "unconnected"
    /\ phase[c] = "sending"
          => /\ wire[c] = NULL \/ pc[c] = "closed"
             /\ answer[c] = NULL
             /\ pc[c] \in {"unconnected", "reading", "closed"}
    /\ phase[c] = "awaiting"
          => /\ wire[c] # NULL
                   => answer[c] = NULL /\ pc[c] \in {"unconnected", "reading", "closed"}
             /\ answer[c] # NULL => pc[c] \in {"reading", "closed"}
    /\ phase[c] \in {"succeeded", "failed"}
          => /\ pc[c] \in {"reading", "replying", "closed"}
             /\ pc[c] = "reading" => wire[c] = NULL
             /\ pc[c] = "replying" => ~keep_going[c]
    /\ reset[c] /\ phase[c] # "killed" => pc[c] = "closed"

Phases == {"idle", "sending", "awaiting", "succeeded", "failed", "killed"}

ClientsInv ==
    /\ phase \in [Conns -> Phases]
    /\ DOMAIN wire = Conns /\ DOMAIN answer = Conns /\ DOMAIN reset = Conns
    /\ process = "running" => \A c \in Conns : Conversation(c)
    /\ SIGPIPENeedsKill

LEMMA ClientsInvInit ==
    ASSUME ClientsInit
    PROVE  ClientsInv
    BY DEF ClientsInit, Init, ServerInit, ClientsInv, Phases, Conversation, SIGPIPENeedsKill

(* Programs that are neither c's nor touched by its thread.                  *)
LEMMA OthersGoOn ==
    ASSUME NEW c \in Conns, NEW d \in Conns \ {c}, Conversation(d), OthersStay(c),
           phase'[d] = phase[d], wire'[d] = wire[d], answer'[d] = answer[d],
           reset'[d] = reset[d]
    PROVE  Conversation(d)'
    BY DEF Conversation, OthersStay

(* A step of a program leaves its thread alone.                              *)
LEMMA ProgramStep ==
    ASSUME ClientsInv, NEW c \in Conns, ClientStep(c) \/ Kill(c)
    PROVE  ClientsInv'
    <1>1. UNCHANGED vars
        BY DEF ClientStep, Start, Send, ReadAnswer, LoseServer, Kill
    <1>2. UNCHANGED <<process, pc, keep_going>>
        BY <1>1 DEF vars
    <1>3. phase[c] \notin Ended
        BY DEF ClientStep, Start, Send, ReadAnswer, LoseServer, Kill, Ended
    <1>4. PICK p \in Phases : Enter(c, p)
        BY DEF ClientStep, Start, Send, ReadAnswer, LoseServer, Kill, Advance, Phases
    <1>5. phase' \in [Conns -> Phases] /\ phase'[c] = p
            /\ \A d \in Conns \ {c} : phase'[d] = phase[d]
        BY <1>4 DEF ClientsInv, Enter
    <1>6. /\ DOMAIN wire' = Conns /\ DOMAIN answer' = Conns /\ DOMAIN reset' = Conns
          /\ \A d \in Conns \ {c} :
                wire'[d] = wire[d] /\ answer'[d] = answer[d] /\ reset'[d] = reset[d]
        BY DEF ClientsInv, ClientStep, Start, Send, ReadAnswer, LoseServer, Kill
    <1>7. ASSUME process = "running" PROVE Conversation(c)'
        <2>1. Conversation(c)
            BY <1>7 DEF ClientsInv
        <2>2. CASE Start(c)
            BY <1>2, <1>5, <2>1, <2>2 DEF Start, Enter, Conversation, ClientsInv
        <2>3. CASE Send(c)
            BY <1>2, <1>5, <2>1, <2>3 DEF Send, Enter, Conversation, ClientsInv
        <2>4. CASE ReadAnswer(c)
            BY <1>2, <1>5, <2>1, <2>4 DEF ReadAnswer, Advance, Enter, Conversation, ClientsInv
        <2>5. CASE LoseServer(c)
            BY <1>2, <1>5, <1>7, <2>1, <2>5 DEF LoseServer, Advance, Enter, Conversation, ClientsInv
        <2>6. CASE Kill(c)
            BY <1>2, <1>5, <2>1, <2>6 DEF Kill, Enter, Conversation, ClientsInv
        <2> QED
            BY <2>2, <2>3, <2>4, <2>5, <2>6 DEF ClientStep
    <1>8. process' = "running" => \A d \in Conns : Conversation(d)'
        BY <1>2, <1>5, <1>6, <1>7, OthersGoOn DEF ClientsInv, OthersStay
    <1>9. SIGPIPENeedsKill'
        BY <1>2, <1>3, <1>5 DEF ClientsInv, SIGPIPENeedsKill, Ended
    <1> QED
        BY <1>5, <1>6, <1>8, <1>9 DEF ClientsInv

(* Nor does a step of the thread touch the programs.                         *)
LEMMA ServerStepKeeps ==
    ASSUME TypeOK, ClientsInv, NEW c \in Conns, ServerStep(c)
    PROVE  ClientsInv'
    <1>1. process = "running" /\ OthersStay(c)
        <2>1. process = "running"
            BY ServerStepIsOne, RunningStep
        <2>2. ASSUME ReplyToDeadPeer(c) PROVE OthersStay(c)
            BY <2>2 DEF ReplyToDeadPeer, Dies, OthersStay
        <2> QED
            BY <2>1, <2>2, AcceptStep, NoRequestStep, HandleStep, ThreadStep
            DEF ServerStep, Accepted, Arrive, HangUp, Work, Answer, BreakPipe
    <1>2. UNCHANGED phase
        BY DEF ServerStep, Accepted, Arrive, HangUp, Work, Answer, BreakPipe
    <1>3. /\ DOMAIN wire' = Conns /\ DOMAIN answer' = Conns /\ DOMAIN reset' = Conns
          /\ \A d \in Conns \ {c} :
                wire'[d] = wire[d] /\ answer'[d] = answer[d] /\ reset'[d] = reset[d]
        BY DEF ClientsInv, ServerStep, Accepted, Arrive, HangUp, Work, Answer, BreakPipe
    <1>4. Conversation(c) /\ phase[c] \in Phases
        BY <1>1 DEF ClientsInv
    <1>5. /\ Conversation(c)' \/ process' # "running"
          /\ process' # "SIGPIPE" \/ phase[c] = "killed"
        <2>1. CASE Accepted(c)
            BY <1>1, <1>2, <1>4, <2>1, AcceptStep DEF Accepted, Conversation
        <2>2. CASE Arrive(c)
            <3>1. wire[c] # NULL /\ wire'[c] = NULL /\ UNCHANGED <<answer, reset>>
                BY <2>2 DEF Arrive, ClientsInv
            <3>2. pc[c] = "reading" /\ process' # "SIGPIPE"
                BY <1>1, <2>2, HandleStep, NoRequestStep DEF Arrive
            <3>3. phase[c] \in {"awaiting", "killed"}
                BY <1>4, <3>1, <3>2 DEF Conversation, Phases
            <3> QED
                BY <1>2, <1>4, <3>1, <3>2, <3>3 DEF Conversation
        <2>3. CASE HangUp(c)
            BY <1>1, <1>2, <1>4, <2>3, NoRequestStep
            DEF HangUp, Gone, Ended, Conversation
        <2>4. CASE Work(c)
            BY <1>2, <1>4, <2>4, ThreadStep DEF Work, Conversation, Phases
        <2>5. CASE Answer(c)
            BY <1>2, <1>4, <2>5, ThreadStep
            DEF Answer, Gone, Ended, Conversation, Phases, ClientsInv
        <2>6. CASE BreakPipe(c)
            BY <1>4, <2>6 DEF BreakPipe, ReplyToDeadPeer, At, Dies, Conversation
        <2> QED
            BY <2>1, <2>2, <2>3, <2>4, <2>5, <2>6 DEF ServerStep
    <1>6. process' = "running" => \A d \in Conns : Conversation(d)'
        BY <1>1, <1>2, <1>3, <1>5, OthersGoOn DEF ClientsInv
    <1>7. SIGPIPENeedsKill'
        BY <1>2, <1>5 DEF SIGPIPENeedsKill
    <1> QED
        BY <1>2, <1>3, <1>6, <1>7 DEF ClientsInv

(* The conversations hold at every moment of every cast. *)
LEMMA Conversations == ClientsSpec => []ClientsInv
    <1>1. ClientsInit => ClientsInv
        BY ClientsInvInit
    <1>2. TypeOK /\ ClientsInv /\ [ClientsNext]_allVars => ClientsInv'
        <2> SUFFICES ASSUME TypeOK, ClientsInv, [ClientsNext]_allVars
                     PROVE  ClientsInv'
            OBVIOUS
        <2>1. CASE UNCHANGED allVars
            BY <2>1 DEF allVars, vars, clientVars, ClientsInv, Conversation, SIGPIPENeedsKill
        <2>2. CASE ClientsNext
            BY <2>2, ProgramStep, ServerStepKeeps DEF ClientsNext
        <2> QED
            BY <2>1, <2>2
    <1>3. ClientsSpec => []TypeOK
        BY ClientsRunTheServer, TypeCorrect, PTL
    <1> QED
        BY <1>1, <1>2, <1>3, PTL DEF ClientsSpec

(* A program that ends on its own, wherever in its script and whatever the   *)
(* answer, never takes the server with it: before the thread could write to  *)
(* the connection twice it has read the end of file and closed it.           *)
THEOREM EndedClientsAreHarmless == ClientsSpec => []SIGPIPENeedsKill
    <1>1. ClientsInv => SIGPIPENeedsKill
        BY DEF ClientsInv
    <1> QED
        BY <1>1, Conversations, PTL

-----------------------------------------------------------------------------
(* The scripts.                                                              *)

(* incr_value -t. *)
Transactional(p) == p.main = "incr_value" /\ p.useTransaction

(* No script is empty. *)
LEMMA ScriptShape ==
    ASSUME NEW p \in Program
    PROVE  /\ Len(Script(p)) \in Nat /\ DOMAIN Script(p) = 1 .. Len(Script(p))
           /\ 1 \in DOMAIN Script(p)
    <1>1. \/ Script(p) = get_value(p) \/ Script(p) = set_value(p)
          \/ Script(p) = increment(p) \/ Script(p) = increment_in_transaction(p)
        BY DEF Script, incr_value, Program
    <1>2. CASE Script(p) = get_value(p)
        BY <1>2 DEF get_value
    <1>3. CASE Script(p) = set_value(p)
        BY <1>3 DEF set_value
    <1>4. CASE Script(p) = increment(p)
        BY <1>4 DEF increment
    <1>5. CASE Script(p) = increment_in_transaction(p)
        BY <1>5 DEF increment_in_transaction
    <1> QED
        BY <1>1, <1>2, <1>3, <1>4, <1>5

(* Which requests a program sends, all about its own key. *)
LEMMA ScriptRequests ==
    ASSUME NEW p \in Program, NEW i \in DOMAIN Script(p)
    PROVE  LET r == Script(p)[i]
           IN  /\ r.type \in {"LOGIN", "BEGIN", "GET", "PUSH", "TOP", "ADD", "SET",
                              "COMMIT", "BYE"}
               /\ r.type = "LOGIN" <=> i = 1
               /\ r.type = "BYE" <=> i = Len(Script(p))
               /\ r.type \in {"GET", "SET"} => r.table = p.table /\ r.key = p.key
               /\ r.type \in {"BEGIN", "COMMIT"} => Transactional(p)
               /\ r.type = "TOP" => p.main = "get_value"
               /\ p.main = "get_value" => r.type \in {"LOGIN", "GET", "TOP", "BYE"}
               /\ Transactional(p) /\ r.type # "LOGIN" => is_valid(r)
    <1>1. login_request(p).type = "LOGIN"
        BY DEF login_request, Plain, Msg
    <1> USE <1>1, NamesAssumption DEF Program, OnKey, One, Plain, Msg, Transactional,
                                      is_valid, to_string, Absent, EmptyString
    <1>2. CASE p.main = "get_value"
        BY <1>2 DEF Script, get_value
    <1>3. CASE p.main = "set_value"
        BY <1>3 DEF Script, set_value
    <1>4. CASE p.main = "incr_value" /\ ~p.useTransaction
        BY <1>4 DEF Script, incr_value, increment
    <1>5. CASE p.main = "incr_value" /\ p.useTransaction
        BY <1>5 DEF Script, incr_value, increment_in_transaction
    <1> QED
        BY <1>2, <1>3, <1>4, <1>5

(* What a request tells of the one after it. *)
LEMMA ScriptOrder ==
    ASSUME NEW p \in Program, NEW i \in DOMAIN Script(p), i < Len(Script(p))
    PROVE  LET r == Script(p)[i]
               next == Script(p)[i + 1]
           IN  /\ i + 1 \in DOMAIN Script(p)
               /\ next.type # "LOGIN"
               /\ next.type = "SET" => r.type \in {"PUSH", "ADD"}
               /\ next.type = "BEGIN" => r.type = "LOGIN"
               /\ next.type = "BYE" /\ Transactional(p) => r.type = "COMMIT"
    <1>1. login_request(p).type = "LOGIN"
        BY DEF login_request, Plain, Msg
    <1> QED
        BY <1>1
        DEF Script, get_value, set_value, incr_value, increment, increment_in_transaction,
            Program, OnKey, One, Plain, Msg, Transactional, to_string

-----------------------------------------------------------------------------
(***************************************************************************)
(* How far the sessions are: what the requests before the current one have *)
(* left on the server.                                                     *)
(***************************************************************************)

(* What the thread has when it comes to a request of this type. *)
Prepared(c, type) ==
    /\ type = "SET" => ~is_empty(client_stack[c])
    /\ Transactional(program[c]) =>
          /\ type # "LOGIN" => logged_in[c] # "no"
          /\ type \in {"LOGIN", "BEGIN", "BYE"} => ~transaction_mode[c]

(* What it has left when it gives the answer m: either the program goes on   *)
(* with the next request or it ends, with no table locked.                   *)
AfterAnswer(c, m) ==
    IF IsGood(c, m) /\ step[c] < Len(Script(program[c]))
    THEN Prepared(c, Script(program[c])[step[c] + 1].type)
    ELSE locked_tables[c] = {}

(* The thread has not got the current request yet. *)
Unserved(c) ==
    /\ pc[c] \in {"unconnected", "reading"}
    /\ wire[c] # NULL \/ phase[c] \in {"idle", "sending"}

Accessing == {"locking", "working", "finishing", "rolling"}

Session(c) ==
    LET type == CurrentRequest(c).type
        t == find_table(program[c].table)
    IN  /\ step[c] \in DOMAIN Script(program[c])
        /\ pc[c] = "unconnected" => step[c] = 1
        /\ pc[c] # "creating"
        /\ ~Transactional(program[c]) => ~transaction_mode[c]
        /\ cur_table[c] \in {t, NULL} /\ locked_tables[c] \subseteq {t}
        /\ pc[c] = "closed" => locked_tables[c] = {}
        /\ pc[c] \notin {"replying", "closed"} => keep_going[c]
        /\ wire[c] # NULL => pc[c] \in {"unconnected", "reading", "closed"}
        /\ wire[c] # NULL /\ pc[c] # "closed" => wire[c] = CurrentRequest(c)
        /\ Unserved(c) => Prepared(c, type)
        /\ pc[c] \in Accessing \cup {"committing"}
              => /\ request[c] = CurrentRequest(c)
                 /\ Transactional(program[c]) => logged_in[c] # "no"
        /\ pc[c] \in Accessing => type \in {"GET", "SET"}
        /\ pc[c] = "committing" => type = "COMMIT"
        /\ pc[c] \in {"locking", "working"} => Prepared(c, type)
        /\ phase[c] = "awaiting"
              => /\ pc[c] = "replying"
                       => /\ AfterAnswer(c, response[c])
                          /\ ~keep_going[c] => locked_tables[c] = {}
                 /\ pc[c] = "reading" /\ answer[c] # NULL => AfterAnswer(c, answer[c])
        /\ phase[c] \in {"succeeded", "failed"} => locked_tables[c] = {}

SessionInv ==
    /\ program \in Casts
    /\ DOMAIN step = Conns
    /\ process = "running" => \A c \in Conns : Session(c)
    /\ \A c \in Conns, t \in TableId :
          m_mutex[t] = c /\ ~WillUnlock(c, t)
             => phase[c] = "killed" /\ program[c].useTransaction

LEMMA SessionInvInit ==
    ASSUME ClientsInit
    PROVE  SessionInv
    <1>1. SessionInv!1 /\ SessionInv!2
        BY DEF ClientsInit
    <1>2. ASSUME NEW c \in Conns PROVE Session(c)
        <2>1. program[c] \in Program
            BY <1>1, CastsAssumption
        <2>2. 1 \in DOMAIN Script(program[c]) /\ Script(program[c])[1].type = "LOGIN"
            BY <2>1, ScriptShape, ScriptRequests
        <2> QED
            BY <2>2 DEF ClientsInit, Init, Session, Unserved, Prepared, CurrentRequest, Accessing
    <1>3. \A t \in TableId : m_mutex[t] = NULL
        BY DEF ClientsInit, Init, ServerInit
    <1> QED
        BY <1>1, <1>2, <1>3, NamesAssumption DEF SessionInv

(* The programs are the ones that were started.                              *)
LEMMA ProgramsStay ==
    ASSUME SessionInv, NEW c \in Conns
    PROVE  program[c] \in Program
    BY CastsAssumption DEF SessionInv

(* The rest of what the threads of other connections keep. *)
KeepsSession(d) ==
    /\ logged_in'[d] = logged_in[d]
    /\ client_stack'[d] = client_stack[d]
    /\ response'[d] = response[d]
    /\ keep_going'[d] = keep_going[d]

LEMMA SessionIsLocal ==
    ASSUME TypeOK, NEW c \in Conns, Input(c) \/ Thread(c), NEW d \in Conns \ {c}
    PROVE  KeepsSession(d)
    <1> USE DEF store, session, KeepsSession
    <1>1. /\ DOMAIN logged_in = Conns /\ DOMAIN client_stack = Conns
          /\ DOMAIN response = Conns /\ DOMAIN keep_going = Conns
        BY DEF TypeOK
    <1>2. ASSUME NEW m, Respond(c, m) \/ RespondLast(c, m) \/ OperationFails(c)
          PROVE  response'[d] = response[d] /\ keep_going'[d] = keep_going[d]
        BY <1>1, <1>2 DEF Respond, RespondLast, OperationFails, Dies
    <1>3. CASE \/ Accept(c) \/ AcceptFails(c) \/ NoRequest(c)
               \/ DecodeRunsOff(c) \/ ReplyToDeadPeer(c)
        BY <1>1, <1>2, <1>3
           DEF Accept, AcceptFails, NoRequest, DecodeRunsOff, ReplyToDeadPeer, Dies
    <1>4. ASSUME NEW r \in Requests,
                 \/ Login(c, r) \/ NotLoggedIn(c, r) \/ Unexpected(c, r)
                 \/ Begin(c, r) \/ Commit(c, r) \/ Bye(c, r)
                 \/ Create(c, r) \/ FindTable(c, r)
          PROVE  KeepsSession(d)
        BY <1>1, <1>2, <1>4
           DEF Login, NotLoggedIn, Unexpected, Begin, Commit, Bye, Create, FindTable
    <1>5. ASSUME NEW r \in Requests, Push(c, r) \/ Pop(c, r) \/ Top(c, r)
          PROVE  KeepsSession(d)
        BY <1>1, <1>2, <1>5 DEF Push, Pop, Top
    <1>6. ASSUME NEW r \in Requests, Arithmetic(c, r)
          PROVE  KeepsSession(d)
        <2>1. UNCHANGED logged_in
            BY <1>6 DEF Arithmetic
        <2>2. client_stack'[d] = client_stack[d]
            BY <1>1, <1>6 DEF Arithmetic
        <2>3. response'[d] = response[d] /\ keep_going'[d] = keep_going[d]
            BY <1>2, <1>6 DEF Arithmetic, Dies
        <2> QED
            BY <2>1, <2>2, <2>3
    <1>7. CASE CreateTable(c) \/ Committed(c) \/ RolledBack(c) \/ AutoCommit(c)
        BY <1>1, <1>2, <1>7 DEF CreateTable, Committed, RolledBack, AutoCommit
    <1>8. CASE Lock(c) \/ LockHeld(c) \/ Trylock(c)
        BY <1>1, <1>8 DEF Lock, LockHeld, Trylock
    <1>9. CASE Get(c) \/ Set(c)
        <2>1. response'[d] = response[d] /\ keep_going'[d] = keep_going[d]
            BY <1>2, <1>9 DEF Get, Set, AfterAccess
        <2> QED
            BY <1>1, <1>9, <2>1 DEF Get, Set
    <1>10. CASE \E t \in TableId : CommitTable(c, t) \/ RollbackTable(c, t)
        BY <1>1, <1>10 DEF CommitTable, RollbackTable
    <1>11. CASE Reply(c) \/ ReplyAndClose(c)
        BY <1>1, <1>11 DEF Reply, ReplyAndClose, EndOfRequest
    <1> QED
        BY <1>3, <1>4, <1>5, <1>6, <1>7, <1>8, <1>9, <1>10, <1>11 DEF Input, Handle, Thread

(* Sessions other than that of the connection that takes a step.             *)
LEMMA OtherSessions ==
    ASSUME TypeOK, NEW d \in Conns, Session(d), Unmoved(d), KeepsSession(d),
           UNCHANGED <<program, server_tables>>,
           phase'[d] = phase[d], wire'[d] = wire[d], answer'[d] = answer[d],
           step'[d] = step[d]
    PROVE  Session(d)'
    BY DEF Unmoved, KeepsSession, Session, Unserved, Prepared, AfterAnswer, IsGood,
           CurrentRequest, find_table

(* What the steps of a program do to its own session.                        *)
LEMMA ProgramSession ==
    ASSUME SessionInv, ClientsInv, process = "running",
           NEW c \in Conns, ClientStep(c) \/ Kill(c)
    PROVE  Session(c)'
    <1>1. UNCHANGED <<vars, program>>
        BY DEF ClientStep, Start, Send, ReadAnswer, LoseServer, Kill
    <1>2. UNCHANGED <<process, server_tables, pc, logged_in, client_stack, transaction_mode,
                      locked_tables, request, cur_table, response, keep_going>>
        BY <1>1 DEF vars
    <1>3. Session(c) /\ Conversation(c)
        BY DEF SessionInv, ClientsInv
    <1>4. /\ DOMAIN phase = Conns /\ DOMAIN wire = Conns /\ DOMAIN answer = Conns
          /\ DOMAIN step = Conns
        BY DEF SessionInv, ClientsInv
    <1>5. \A type : Prepared(c, type) => Prepared(c, type)'
        BY <1>1, <1>2 DEF Prepared
    <1>6. CASE Start(c) \/ Send(c) \/ Kill(c)
        <2>1. UNCHANGED step
            BY <1>6 DEF Start, Send, Kill
        <2>2. CurrentRequest(c)' = CurrentRequest(c)
            BY <1>1, <2>1 DEF CurrentRequest
        <2> QED
            BY <1>1, <1>2, <1>3, <1>4, <1>5, <1>6, <2>1, <2>2
            DEF Start, Send, Kill, Enter, Session, Unserved, Conversation, find_table, Accessing
    <1>7. CASE ReadAnswer(c)
        <2>1. pc[c] \in {"reading", "closed"} /\ wire[c] = NULL /\ phase[c] = "awaiting"
            BY <1>3, <1>7 DEF ReadAnswer, Conversation
        <2>2. pc[c] = "reading" => AfterAnswer(c, answer[c])
            BY <1>3, <1>7, <2>1 DEF ReadAnswer, Session
        <2>3. answer'[c] = NULL /\ UNCHANGED wire
            BY <1>4, <1>7 DEF ReadAnswer
        <2>4. CASE IsGood(c, answer[c]) /\ step[c] < Len(Script(program[c]))
            <3>1. phase'[c] = "sending" /\ step'[c] = step[c] + 1
                BY <1>4, <1>7, <2>4 DEF ReadAnswer, Advance, Enter
            <3>2. /\ step'[c] \in DOMAIN Script(program[c])
                  /\ step'[c] # 1
                BY <1>3, <2>4, <3>1, ProgramsStay, ScriptShape, ScriptOrder DEF Session
            <3>3. pc[c] = "reading" => Prepared(c, CurrentRequest(c)'.type)
                BY <1>1, <2>2, <2>4, <3>1 DEF AfterAnswer, CurrentRequest
            <3> QED
                BY <1>1, <1>2, <1>3, <1>5, <2>1, <2>3, <3>1, <3>2, <3>3
                DEF Session, Unserved, find_table, Accessing
        <2>5. CASE ~(IsGood(c, answer[c]) /\ step[c] < Len(Script(program[c])))
            <3>1. phase'[c] \in {"succeeded", "failed"} /\ UNCHANGED step
                BY <1>4, <1>7, <2>5 DEF ReadAnswer, Advance, Enter
            <3>2. locked_tables[c] = {}
                BY <1>3, <2>1, <2>2, <2>5 DEF AfterAnswer, Session
            <3> QED
                BY <1>1, <1>2, <1>3, <2>1, <2>3, <3>1, <3>2
                DEF Session, Unserved, find_table, Accessing
        <2> QED
            BY <2>4, <2>5
    <1>8. CASE LoseServer(c)
        <2>1. pc[c] = "closed" /\ answer[c] = NULL
            BY <1>8 DEF LoseServer
        <2>2. phase'[c] # "awaiting" /\ UNCHANGED <<wire, answer>>
            BY <1>4, <1>8 DEF LoseServer, Advance, Enter
        <2>3. step'[c] \in DOMAIN Script(program[c])
            BY <1>3, <1>4, <1>8, ProgramsStay, ScriptShape, ScriptOrder
            DEF LoseServer, Advance, Session
        <2> QED
            BY <1>1, <1>2, <1>3, <2>1, <2>2, <2>3 DEF Session, Unserved, find_table, Accessing
    <1> QED
        BY <1>6, <1>7, <1>8 DEF ClientStep

(* A step of the thread that gives the answer m.                             *)
LEMMA Replying ==
    ASSUME TypeOK, NEW c \in Conns, Session(c), NEW m,
           UNCHANGED <<program, step, phase, server_tables>>,
           wire'[c] = NULL, pc'[c] = "replying", response'[c] = m,
           cur_table'[c] = cur_table[c],
           locked_tables'[c] \subseteq locked_tables[c],
           ~Transactional(program[c]) => ~transaction_mode'[c],
           phase[c] = "awaiting"
              => AfterAnswer(c, m)' /\ (~keep_going'[c] => locked_tables'[c] = {})
    PROVE  Session(c)'
    <1>1. phase[c] = "awaiting" => AfterAnswer(c, response[c])'
        BY DEF AfterAnswer, IsGood, CurrentRequest
    <1> QED
        BY <1>1 DEF Session, Unserved, find_table, Accessing

(* The answers to a request that was served.                                 *)
LEMMA GoodAnswer ==
    ASSUME SessionInv, NEW c \in Conns, Session(c), UNCHANGED <<program, step>>,
           CurrentRequest(c).type # "TOP",
           CurrentRequest(c).type = "BYE" => locked_tables'[c] = {},
           CurrentRequest(c).type \in {"PUSH", "ADD"} => ~is_empty(client_stack'[c]),
           Transactional(program[c]) =>
              /\ logged_in'[c] # "no"
              /\ CurrentRequest(c).type \in {"LOGIN", "COMMIT"} => ~transaction_mode'[c]
    PROVE  AfterAnswer(c, Plain("OK"))'
    <1>1. IsGood(c, Plain("OK"))'
        BY DEF IsGood, CurrentRequest, Plain, Msg, Absent, EmptyString
    <1>2. CASE step[c] < Len(Script(program[c]))
        <2>1. PICK next : next = Script(program[c])[step[c] + 1].type
            OBVIOUS
        <2>2. /\ next # "LOGIN"
              /\ next = "SET" => CurrentRequest(c).type \in {"PUSH", "ADD"}
              /\ next = "BEGIN" => CurrentRequest(c).type = "LOGIN"
              /\ next = "BYE" /\ Transactional(program[c]) => CurrentRequest(c).type = "COMMIT"
            BY <1>2, <2>1, ProgramsStay, ScriptOrder DEF Session, CurrentRequest
        <2>3. Prepared(c, next)'
            BY <2>2 DEF Prepared
        <2> QED
            BY <1>1, <1>2, <2>1, <2>3 DEF AfterAnswer
    <1>3. CASE ~(step[c] < Len(Script(program[c])))
        <2>1. step[c] = Len(Script(program[c]))
            BY <1>3, ProgramsStay, ScriptShape DEF Session
        <2>2. CurrentRequest(c).type = "BYE"
            BY <2>1, ProgramsStay, ScriptRequests DEF Session, CurrentRequest
        <2> QED
            BY <1>3, <2>2 DEF AfterAnswer
    <1> QED
        BY <1>2, <1>3

(* ... and to one that was not, which ends every program but get_value.      *)
LEMMA BadAnswer ==
    ASSUME SessionInv, NEW c \in Conns, Session(c), UNCHANGED <<program, step>>,
           NEW m, m.type \in {"FAILED", "ERROR"}, locked_tables'[c] = {}
    PROVE  AfterAnswer(c, m)'
    <1>1. CASE IsGood(c, m) /\ step[c] < Len(Script(program[c]))
        <2>1. program[c].main = "get_value"
            BY <1>1 DEF IsGood
        <2>2. Script(program[c])[step[c] + 1].type # "SET" /\ ~Transactional(program[c])
            BY <1>1, <2>1, ProgramsStay, ScriptOrder, ScriptRequests
            DEF Session, Transactional
        <2> QED
            BY <1>1, <2>2 DEF AfterAnswer, Prepared, IsGood, CurrentRequest
    <1>2. CASE ~(IsGood(c, m) /\ step[c] < Len(Script(program[c])))
        BY <1>2 DEF AfterAnswer, IsGood, CurrentRequest
    <1> QED
        BY <1>1, <1>2

(* The connection is accepted, or its client is gone or makes no sense.      *)
LEMMA ConnectedSession ==
    ASSUME IInv, SessionInv, ClientsInv, NEW c \in Conns, process = "running",
           \/ Accepted(c) \/ HangUp(c)
           \/ Arrive(c) /\ NoRequest(c) /\ ~is_valid(wire[c])
    PROVE  Session(c)'
    <1>1. TypeOK /\ Session(c) /\ Conversation(c) /\ ControlInv
        BY DEF SessionInv, ClientsInv, IInv
    <1>2. UNCHANGED <<program, phase, step>>
        BY DEF Accepted, HangUp, Arrive
    <1>3. CASE Accepted(c)
        <2>1. pc[c] = "unconnected" /\ pc'[c] = "reading" /\ step[c] = 1
            BY <1>1, <1>3, AcceptStep DEF Accepted, Session
        <2>2. CurrentRequest(c).type = "LOGIN"
            BY <1>1, <2>1, ProgramsStay, ScriptRequests DEF Session, CurrentRequest
        <2>3. UNCHANGED <<wire, answer, server_tables, client_stack, transaction_mode,
                          locked_tables, cur_table, keep_going>>
            BY <1>3 DEF Accepted, Accept, store, transaction
        <2>4. Prepared(c, "LOGIN") => Prepared(c, "LOGIN")'
            BY <1>2, <2>3 DEF Prepared
        <2>5. phase[c] = "awaiting" => answer[c] = NULL
            BY <1>1, <2>1 DEF Conversation
        <2> QED
            BY <1>1, <1>2, <2>1, <2>2, <2>3, <2>4, <2>5
            DEF Session, Unserved, CurrentRequest, find_table, Accessing
    <1>4. CASE NoRequest(c) /\ (HangUp(c) \/ (Arrive(c) /\ ~is_valid(wire[c])))
        <2>1. /\ pc[c] = "reading" /\ pc'[c] = "replying"
              /\ response'[c] = Plain("ERROR")
              /\ UNCHANGED <<server_tables, transaction_mode, locked_tables, cur_table>>
            BY <1>1, <1>4 DEF NoRequest, RespondLast, At, Goto, TypeOK, store, transaction
        <2>2. wire'[c] = NULL
            BY <1>4 DEF HangUp, Arrive, ClientsInv
        <2>3. locked_tables[c] = {} \/ phase[c] = "killed"
            <3>1. CASE HangUp(c)
                BY <1>1, <3>1 DEF HangUp, Gone, Ended, Session
            <3>2. CASE Arrive(c) /\ ~is_valid(wire[c]) /\ Transactional(program[c])
                <4>1. wire[c] = CurrentRequest(c) /\ wire[c] # NULL
                    BY <1>1, <2>1, <3>2 DEF Arrive, Session
                <4>2. CurrentRequest(c).type = "LOGIN"
                    BY <1>1, <3>2, <4>1, ProgramsStay, ScriptRequests
                    DEF Session, CurrentRequest
                <4>3. ~transaction_mode[c]
                    BY <1>1, <2>1, <3>2, <4>1, <4>2 DEF Session, Unserved, Prepared
                <4> QED
                    BY <1>1, <4>3 DEF ControlInv
            <3>3. CASE ~Transactional(program[c])
                BY <1>1, <3>3 DEF ControlInv, Session
            <3> QED
                BY <1>4, <3>1, <3>2, <3>3
        <2>4. locked_tables[c] = {} => AfterAnswer(c, Plain("ERROR"))'
            BY <1>1, <1>2, <2>1, BadAnswer DEF Plain, Msg
        <2> QED
            BY <1>1, <1>2, <2>1, <2>2, <2>3, <2>4, Replying DEF Session
    <1>5. HangUp(c) => NoRequest(c)
        BY DEF HangUp
    <1> QED
        BY <1>3, <1>4, <1>5

(* OK, from a handler or from what follows it.                               *)
LEMMA AnswerOK ==
    ASSUME TypeOK, SessionInv, NEW c \in Conns, Session(c),
           UNCHANGED <<program, step, phase, server_tables>>, wire'[c] = NULL,
           \/ keep_going[c] /\ Respond(c, Plain("OK"))
           \/ locked_tables'[c] = {} /\ RespondLast(c, Plain("OK")),
           cur_table'[c] = cur_table[c],
           locked_tables'[c] \subseteq locked_tables[c],
           ~Transactional(program[c]) => ~transaction_mode'[c],
           CurrentRequest(c).type # "TOP",
           CurrentRequest(c).type = "BYE" => locked_tables'[c] = {},
           CurrentRequest(c).type \in {"PUSH", "ADD"} => ~is_empty(client_stack'[c]),
           Transactional(program[c]) =>
              /\ logged_in'[c] # "no"
              /\ CurrentRequest(c).type \in {"LOGIN", "COMMIT"} => ~transaction_mode'[c]
    PROVE  Session(c)'
    <1>1. pc'[c] = "replying" /\ response'[c] = Plain("OK")
        BY DEF TypeOK, Respond, RespondLast, Goto
    <1>2. keep_going'[c] \/ locked_tables'[c] = {}
        BY DEF Respond
    <1>3. AfterAnswer(c, Plain("OK"))'
        BY GoodAnswer
    <1> QED
        BY <1>1, <1>2, <1>3, Replying

(* FAILED or ERROR. *)
LEMMA AnswerNo ==
    ASSUME TypeOK, SessionInv, NEW c \in Conns, Session(c),
           UNCHANGED <<program, step, phase, server_tables>>, wire'[c] = NULL,
           NEW type \in {"FAILED", "ERROR"},
           Respond(c, Plain(type)) \/ RespondLast(c, Plain(type)),
           cur_table'[c] = cur_table[c],
           locked_tables'[c] = {},
           ~Transactional(program[c]) => ~transaction_mode'[c]
    PROVE  Session(c)'
    <1>1. pc'[c] = "replying" /\ response'[c] = Plain(type)
        BY DEF TypeOK, Respond, RespondLast, Goto
    <1>2. AfterAnswer(c, Plain(type))'
        BY BadAnswer DEF Plain, Msg
    <1> QED
        BY <1>1, <1>2, Replying

(* The thread gets the current request. *)
LEMMA HandledSession ==
    ASSUME IInv, SessionInv, ClientsInv, NEW c \in Conns, process = "running",
           Arrive(c), is_valid(wire[c]), process' = "running"
    PROVE  Session(c)'
    <1>1. TypeOK /\ Session(c) /\ ControlInv
        BY DEF SessionInv, IInv
    <1>2. PICK r : r = wire[c]
        OBVIOUS
    <1>3. Handle(c, r) /\ r \in Requests /\ pc[c] = "reading" /\ r # NULL
        BY <1>1, <1>2, HandleStep DEF Arrive
    <1>4. r = CurrentRequest(c) /\ Prepared(c, r.type)
        BY <1>1, <1>2, <1>3 DEF Session, Unserved
    <1>5. UNCHANGED <<program, step, phase>> /\ wire'[c] = NULL
        BY DEF Arrive, ClientsInv
    <1>6. /\ r.type \in {"LOGIN", "BEGIN", "GET", "PUSH", "TOP", "ADD", "SET", "COMMIT", "BYE"}
          /\ r.type \in {"GET", "SET"} => r.table = program[c].table
          /\ r.type \in {"BEGIN", "COMMIT"} => Transactional(program[c])
          /\ r.type = "TOP" => ~Transactional(program[c])
        BY <1>1, <1>4, ProgramsStay, ScriptRequests
        DEF Session, CurrentRequest, Transactional
    <1>7. ~transaction_mode[c] => locked_tables[c] = {}
        BY <1>1 DEF ControlInv
    <1>8. ~Transactional(program[c]) => ~transaction_mode[c]
        BY <1>1 DEF Session
    <1>9. keep_going[c]
        BY <1>1, <1>3 DEF Session
    <1>10. /\ DOMAIN logged_in = Conns /\ DOMAIN transaction_mode = Conns
           /\ DOMAIN client_stack = Conns /\ DOMAIN cur_table = Conns
           /\ DOMAIN request = Conns /\ DOMAIN pc = Conns /\ DOMAIN response = Conns
        BY <1>1 DEF TypeOK
    <1>11. ASSUME OperationFails(c)
           PROVE  locked_tables[c] = {} /\ Respond(c, Plain("FAILED"))
        BY <1>7, <1>11 DEF OperationFails, Dies
    <1>12. CASE Login(c, r)
        BY <1>1, <1>4, <1>5, <1>8, <1>9, <1>10, <1>12, AnswerOK
        DEF Login, Receive, Prepared, store, transaction
    <1>13. CASE NotLoggedIn(c, r)
        <2>1. locked_tables[c] = {}
            BY <1>4, <1>7, <1>8, <1>13 DEF NotLoggedIn, Receive, Prepared
        <2> QED
            BY <1>1, <1>5, <1>8, <1>13, <2>1, AnswerNo
            DEF NotLoggedIn, store, transaction
    <1>14. CASE Unexpected(c, r) \/ Pop(c, r) \/ Create(c, r)
        BY <1>6, <1>14 DEF Unexpected, Pop, Create, Serve, Receive
    <1>15. CASE Push(c, r)
        <2>1. r.type = "PUSH" /\ logged_in'[c] # "no"
            BY <1>15 DEF Push, Serve, Receive
        <2>2. ~is_empty(client_stack'[c])
            BY <1>1, <1>10, <1>15 DEF Push, push, is_empty, TypeOK, StackState
        <2> QED
            BY <1>1, <1>4, <1>5, <1>8, <1>9, <1>15, <2>1, <2>2, AnswerOK
            DEF Push, store, transaction
    <1>16. CASE Top(c, r)
        <2>1. r.type = "TOP"
            BY <1>16 DEF Top, Serve, Receive
        <2>2. UNCHANGED <<server_tables, transaction_mode, locked_tables, cur_table>>
            BY <1>16 DEF Top, store, transaction
        <2>3. locked_tables[c] = {} /\ ~Transactional(program[c])
            BY <1>6, <1>7, <1>8, <2>1
        <2>4. CASE is_empty(client_stack[c])
            BY <1>1, <1>5, <1>8, <1>11, <1>16, <2>2, <2>3, <2>4, AnswerNo DEF Top
        <2>5. CASE ~is_empty(client_stack[c])
            <3>1. PICK m : Respond(c, m)
                BY <1>16, <2>5 DEF Top
            <3>2. pc'[c] = "replying" /\ response'[c] = m
                BY <1>10, <3>1 DEF Respond, Goto
            <3>3. step[c] < Len(Script(program[c]))
                    => Script(program[c])[step[c] + 1].type # "SET"
                BY <1>1, <1>4, <2>1, ProgramsStay, ScriptOrder DEF Session, CurrentRequest
            <3>4. AfterAnswer(c, m)'
                BY <1>5, <2>2, <2>3, <3>3 DEF AfterAnswer, Prepared
            <3> QED
                BY <1>1, <1>5, <1>8, <2>2, <2>3, <3>2, <3>4, Replying
        <2> QED
            BY <2>4, <2>5
    <1>17. CASE Arithmetic(c, r)
        <2>1. r.type = "ADD" /\ logged_in'[c] # "no"
            BY <1>6, <1>17 DEF Arithmetic, Serve, Receive, ArithmeticTypes
        <2>2. UNCHANGED <<server_tables, transaction_mode, locked_tables, cur_table>>
            BY <1>17 DEF Arithmetic, store, transaction
        <2>3. CASE OperationFails(c)
            BY <1>1, <1>5, <1>8, <1>11, <2>2, <2>3, AnswerNo
        <2>4. CASE ~OperationFails(c)
            <3>1. Respond(c, Plain("OK"))
                BY <1>17, <2>1, <2>4 DEF Arithmetic
            <3>2. after_pop_two(client_stack[c]).total \in Nat
                BY <1>1, PopTwoType DEF TypeOK, StackState
            <3>3. ~is_empty(client_stack'[c])
                BY <1>10, <1>17, <2>1, <2>4, <3>2 DEF Arithmetic, push, is_empty
            <3> QED
                BY <1>1, <1>4, <1>5, <1>8, <1>9, <2>1, <2>2, <3>1, <3>3, AnswerOK
        <2> QED
            BY <2>3, <2>4
    <1>18. CASE FindTable(c, r)
        <2>1. r.type \in {"GET", "SET"} /\ logged_in[c] # "no" /\ request'[c] = r
            BY <1>10, <1>18 DEF FindTable, Serve, Receive
        <2>2. UNCHANGED <<server_tables, logged_in, client_stack, transaction_mode, locked_tables>>
            BY <1>18 DEF FindTable, store, session, transaction
        <2>3. CASE find_table(r.table) = NULL
            <3>1. locked_tables[c] \subseteq {NULL} /\ locked_tables[c] \subseteq TableId
                BY <1>1, <1>6, <2>1, <2>3 DEF Session, TypeOK
            <3>2. locked_tables'[c] = {}
                BY <2>2, <3>1, NamesAssumption
            <3>3. RespondLast(c, Plain("ERROR")) /\ UNCHANGED cur_table
                BY <1>18, <2>3 DEF FindTable
            <3> QED
                BY <1>1, <1>5, <1>8, <2>2, <3>2, <3>3, AnswerNo
        <2>4. CASE find_table(r.table) # NULL
            <3>1. /\ cur_table'[c] = find_table(program[c].table)
                  /\ pc'[c] = "locking" /\ UNCHANGED keep_going
                BY <1>6, <1>10, <1>18, <2>1, <2>4 DEF FindTable, Goto
            <3>2. Prepared(c, r.type)' /\ CurrentRequest(c)' = CurrentRequest(c)
                BY <1>4, <1>5, <2>2 DEF Prepared, CurrentRequest
            <3> QED
                BY <1>1, <1>4, <1>5, <1>9, <2>1, <2>2, <3>1, <3>2
                DEF Session, Unserved, find_table, Accessing
        <2> QED
            BY <2>3, <2>4
    <1>19. CASE Begin(c, r)
        BY <1>1, <1>4, <1>5, <1>6, <1>9, <1>19, AnswerOK
        DEF Begin, Serve, Receive, store, session
    <1>20. CASE Commit(c, r)
        <2>1. r.type = "COMMIT" /\ logged_in[c] # "no" /\ request'[c] = r
            BY <1>10, <1>20 DEF Commit, Serve, Receive
        <2>2. UNCHANGED <<server_tables, logged_in, client_stack, transaction_mode,
                          locked_tables, cur_table, keep_going>>
            BY <1>20 DEF Commit, store, session, transaction
        <2>3. pc'[c] = "committing"
            BY <1>10, <1>20 DEF Commit, Goto
        <2>4. CurrentRequest(c)' = CurrentRequest(c)
            BY <1>5 DEF CurrentRequest
        <2> QED
            BY <1>1, <1>4, <1>5, <1>9, <2>1, <2>2, <2>3, <2>4
            DEF Session, Unserved, find_table, Accessing
    <1>21. CASE Bye(c, r)
        <2>1. r.type = "BYE" /\ logged_in[c] # "no"
            BY <1>21 DEF Bye, Serve, Receive
        <2>2. locked_tables[c] = {}
            BY <1>4, <1>7, <1>8, <2>1 DEF Prepared
        <2> QED
            BY <1>1, <1>4, <1>5, <1>8, <1>21, <2>1, <2>2, AnswerOK
            DEF Bye, store, session, transaction
    <1> QED
        BY <1>3, <1>12, <1>13, <1>14, <1>15, <1>16, <1>17, <1>18, <1>19, <1>20, <1>21
        DEF Handle

(* The thread works on the request and answers it.                           *)
LEMMA ThreadSession ==
    ASSUME IInv, SessionInv, ClientsInv, NEW c \in Conns, process = "running",
           Work(c) \/ Answer(c), process' = "running"
    PROVE  Session(c)'
    <1>1. TypeOK /\ Session(c) /\ ControlInv /\ Conversation(c)
        BY DEF SessionInv, ClientsInv, IInv
    <1>2. /\ Thread(c) /\ pc[c] \notin {"unconnected", "reading", "closed", "creating"}
          /\ UNCHANGED <<program, step, phase, wire>>
        BY <1>1, ThreadStep DEF Work, Answer, Session
    <1>3. wire[c] = NULL /\ CurrentRequest(c)' = CurrentRequest(c)
        BY <1>1, <1>2 DEF Session, CurrentRequest
    <1>4. PICK r : r = CurrentRequest(c)
        OBVIOUS
    <1>5. ~Transactional(program[c]) => ~transaction_mode[c]
        BY <1>1 DEF Session
    <1>6. /\ DOMAIN locked_tables = Conns /\ DOMAIN transaction_mode = Conns
          /\ DOMAIN client_stack = Conns /\ DOMAIN cur_table = Conns
          /\ DOMAIN pc = Conns
        BY <1>1 DEF TypeOK
    (* The steps that get ready for the next one. *)
    <1>7. ASSUME NEW point \in Accessing, Goto(c, point), pc[c] \in Accessing,
                 UNCHANGED <<server_tables, logged_in, transaction_mode, request,
                             cur_table, keep_going>>,
                 locked_tables'[c] \subseteq {find_table(program[c].table)},
                 point \in {"locking", "working"}
                    => pc[c] \in {"locking", "working"} /\ UNCHANGED client_stack
          PROVE  Session(c)'
        <2>1. pc'[c] = point
            BY <1>6, <1>7 DEF Goto
        <2>2. point \in {"locking", "working"} => Prepared(c, CurrentRequest(c).type)'
            BY <1>1, <1>2, <1>3, <1>7 DEF Prepared, Session
        <2>3. phase[c] \notin {"succeeded", "failed"}
            BY <1>1, <1>7 DEF Conversation, Accessing
        <2> QED
            BY <1>1, <1>2, <1>3, <1>7, <2>1, <2>2, <2>3
            DEF Session, Unserved, find_table, Accessing
    <1>8. CASE Lock(c) \/ LockHeld(c)
        <2>1. UNCHANGED <<server_tables, logged_in, client_stack, transaction_mode, request,
                          cur_table, keep_going, locked_tables>>
            BY <1>8 DEF Lock, LockHeld, store, session, transaction
        <2> QED
            BY <1>1, <1>7, <1>8, <2>1 DEF Lock, LockHeld, At, Accessing, Session
    <1>9. CASE Trylock(c)
        <2>1. UNCHANGED <<server_tables, logged_in, client_stack, transaction_mode, request,
                          cur_table, keep_going>>
            BY <1>9 DEF Trylock, session
        <2>2. cur_table[c] = find_table(program[c].table)
            BY <1>1, <1>9, NamesAssumption DEF Trylock, At, Session, ControlInv
        <2>3. locked_tables'[c] \subseteq {find_table(program[c].table)}
            BY <1>1, <1>6, <1>9, <2>2 DEF Trylock, Session
        <2> QED
            BY <1>7, <1>9, <2>1, <2>3 DEF Trylock, At, Accessing
    <1>10. CASE Get(c) \/ Set(c)
        <2>1. /\ pc[c] = "working" /\ r.type \in {"GET", "SET"}
              /\ Transactional(program[c]) => logged_in[c] # "no"
              /\ keep_going[c] /\ request[c] = r
            BY <1>1, <1>4, <1>10 DEF Get, Set, At, Session, Accessing
        <2>2. UNCHANGED <<server_tables, logged_in, transaction_mode, locked_tables, request,
                          cur_table>>
            BY <1>10 DEF Get, Set, transaction
        <2>3. AfterAccess(c)
            BY <1>1, <1>4, <1>10, <2>1 DEF Get, Set, Session, Prepared
        <2>4. CASE Respond(c, Plain("OK"))
            BY <1>1, <1>2, <1>3, <1>4, <1>5, <2>1, <2>2, <2>4, AnswerOK
        <2>5. CASE Goto(c, "finishing") /\ UNCHANGED keep_going
            BY <1>1, <1>7, <2>1, <2>2, <2>5 DEF Accessing, Session
        <2> QED
            BY <2>3, <2>4, <2>5 DEF AfterAccess
    <1>11. CASE AutoCommit(c)
        <2>1. /\ r.type \in {"GET", "SET"} /\ keep_going[c]
              /\ Transactional(program[c]) => logged_in[c] # "no"
            BY <1>1, <1>4, <1>11 DEF AutoCommit, At, Session, Accessing
        <2> QED
            BY <1>1, <1>2, <1>3, <1>4, <1>5, <1>11, <2>1, AnswerOK
            DEF AutoCommit, session, transaction
    <1>12. CASE \E t \in TableId : CommitTable(c, t) \/ RollbackTable(c, t)
        <2>1. UNCHANGED <<server_tables, logged_in, client_stack, transaction_mode, request,
                          cur_table, keep_going, pc>>
            BY <1>12 DEF CommitTable, RollbackTable, session
        <2>2. locked_tables'[c] \subseteq locked_tables[c]
            BY <1>6, <1>12 DEF CommitTable, RollbackTable
        <2>3. pc[c] \in {"committing", "rolling"}
            BY <1>12 DEF CommitTable, RollbackTable, At
        <2> QED
            BY <1>1, <1>2, <1>3, <2>1, <2>2, <2>3 DEF Session, Unserved, find_table, Accessing
    <1>13. CASE Committed(c)
        <2>1. /\ r.type = "COMMIT" /\ keep_going[c]
              /\ Transactional(program[c]) => logged_in[c] # "no"
            BY <1>1, <1>4, <1>13 DEF Committed, At, Session
        <2>2. ~transaction_mode'[c]
            BY <1>6, <1>13 DEF Committed
        <2> QED
            BY <1>1, <1>2, <1>3, <1>4, <1>5, <1>13, <2>1, <2>2, AnswerOK
            DEF Committed, store, session
    <1>14. CASE RolledBack(c)
        <2>1. ~transaction_mode'[c]
            BY <1>6, <1>14 DEF RolledBack
        <2> QED
            BY <1>1, <1>2, <1>3, <1>14, <2>1, AnswerNo DEF RolledBack, store
    <1>15. CASE Reply(c)
        <2>1. /\ pc[c] = "replying" /\ pc'[c] = "reading" /\ keep_going[c]
              /\ UNCHANGED <<server_tables, keep_going, logged_in, client_stack,
                             transaction_mode, locked_tables>>
              /\ cur_table'[c] = NULL
            BY <1>6, <1>15 DEF Reply, EndOfRequest, At, Goto, store, session, transaction
        <2>2. phase[c] \notin {"idle", "sending"}
            BY <1>1, <2>1 DEF Conversation
        <2>3. phase[c] = "awaiting" => answer'[c] = response[c]
            BY <1>15, <2>1 DEF Work, Answer, Gone, Ended, ClientsInv
        <2>4. phase[c] = "awaiting" => AfterAnswer(c, answer[c])'
            BY <1>1, <1>2, <1>3, <2>1, <2>3
            DEF Session, AfterAnswer, IsGood, Prepared
        <2> QED
            BY <1>1, <1>2, <1>3, <2>1, <2>2, <2>4 DEF Session, Unserved, find_table, Accessing
    <1>16. CASE ReplyAndClose(c)
        <2>1. /\ pc[c] = "replying" /\ pc'[c] = "closed"
              /\ UNCHANGED server_tables
              /\ locked_tables'[c] = {} /\ ~transaction_mode'[c] /\ cur_table'[c] = NULL
            BY <1>6, <1>16 DEF ReplyAndClose, EndOfRequest, At, Goto, store
        <2> QED
            BY <1>1, <1>2, <1>3, <2>1 DEF Session, Unserved, Accessing
    <1> QED
        BY <1>2, <1>8, <1>9, <1>10, <1>11, <1>12, <1>13, <1>14, <1>15, <1>16
        DEF Thread, CreateTable, At

-----------------------------------------------------------------------------
(* What the programs leave locked.                                           *)

(* A step that leaves a table locked is the end of a transaction whose       *)
(* program was killed.                                                       *)
LEMMA ProgramsLeak ==
    ASSUME IInv, SessionInv, ClientsInv, NEW c \in Conns, process = "running",
           ServerStep(c), NEW t \in TableId, LeavesLocked(c, t)
    PROVE  phase[c] = "killed" /\ program[c].useTransaction
    <1>1. Session(c) /\ Conversation(c) /\ phase[c] \in Phases /\ ControlInv
        BY DEF SessionInv, ClientsInv, IInv
    <1>2. CASE ReplyAndClose(c) /\ t \in locked_tables[c]
        <2>1. pc[c] = "replying" /\ ~keep_going[c]
            BY <1>2 DEF ReplyAndClose, At
        <2>2. phase[c] = "killed"
            BY <1>1, <1>2, <2>1 DEF Session, Conversation, Phases
        <2>3. transaction_mode[c]
            BY <1>1, <1>2 DEF ControlInv
        <2> QED
            BY <1>1, <2>2, <2>3 DEF Session, Transactional
    <1>3. CASE Set(c) /\ is_empty(client_stack[c])
        BY <1>1, <1>3 DEF Set, At, Session, Prepared, Accessing
    <1> QED
        BY <1>2, <1>3 DEF LeavesLocked

(* No program creates a table. *)
LEMMA DirectoryStays ==
    ASSUME IInv, SessionInv, NEW c \in Conns, ServerStep(c)
    PROVE  UNCHANGED server_tables
    <1>1. (Input(c) \/ Thread(c)) /\ process = "running"
        BY ServerStepIsOne, RunningStep
    <1>2. ~CreateTable(c)
        BY <1>1 DEF SessionInv, Session, CreateTable, At
    <1>3. Quiet(c) => UNCHANGED server_tables
        BY DEF Quiet
    <1>4. CASE Input(c)
        <2>1. \A r \in Requests : Create(c, r) \/ FindTable(c, r) => UNCHANGED server_tables
            BY DEF Create, FindTable, store
        <2> QED
            BY <1>3, <1>4, <2>1, RequestIsQuiet, EndIsQuiet DEF Input, Handle
    <1>5. CASE Thread(c)
        BY <1>2, <1>5 DEF Thread, Lock, LockHeld, Trylock, Get, Set, AutoCommit,
           CommitTable, RollbackTable, Committed, RolledBack, Reply, ReplyAndClose, store
    <1> QED
        BY <1>1, <1>4, <1>5

(* Every step keeps the sessions. *)
LEMMA SessionStep ==
    ASSUME IInv, SessionInv, ClientsInv, [ClientsNext]_allVars
    PROVE  SessionInv'
    <1>1. CASE UNCHANGED allVars
        BY <1>1 DEF allVars, vars, clientVars, SessionInv, Session, Unserved, Prepared,
                    AfterAnswer, IsGood, CurrentRequest, find_table, WillUnlock
    <1>2. ASSUME NEW c \in Conns, ClientStep(c) \/ Kill(c)
          PROVE  SessionInv'
        <2>1. UNCHANGED vars /\ UNCHANGED program /\ DOMAIN step' = Conns
            BY <1>2 DEF SessionInv, ClientStep, Start, Send, ReadAnswer, LoseServer, Kill, Advance
        <2>2. UNCHANGED <<process, m_mutex, locked_tables, pc, cur_table, server_tables>>
            BY <2>1 DEF vars
        <2>3. ASSUME NEW d \in Conns \ {c}
              PROVE  /\ phase'[d] = phase[d] /\ wire'[d] = wire[d]
                     /\ answer'[d] = answer[d] /\ step'[d] = step[d]
            BY <1>2, <2>3 DEF SessionInv, ClientsInv, ClientStep, Start, Send, ReadAnswer,
                              LoseServer, Kill, Advance, Enter
        <2>4. phase[c] # "killed"
            BY <1>2 DEF ClientStep, Start, Send, ReadAnswer, LoseServer, Kill
        <2>5. ASSUME process = "running" PROVE \A d \in Conns : Session(d)'
            <3>1. Session(c)'
                BY <1>2, <2>5, ProgramSession
            <3>2. ASSUME NEW d \in Conns \ {c} PROVE Session(d)'
                <4>1. Unmoved(d) /\ KeepsSession(d)
                    BY <2>1 DEF vars, Unmoved, KeepsSession
                <4> QED
                    BY <2>1, <2>2, <2>3, <2>5, <4>1, OtherSessions DEF SessionInv, IInv
            <3> QED
                BY <3>1, <3>2
        <2>6. ASSUME NEW d \in Conns, NEW t \in TableId, m_mutex'[t] = d, ~WillUnlock(d, t)'
              PROVE  phase'[d] = "killed" /\ program'[d].useTransaction
            <3>1. phase[d] = "killed" /\ program[d].useTransaction
                BY <2>2, <2>6 DEF SessionInv, WillUnlock
            <3> QED
                BY <2>1, <2>3, <2>4, <3>1
        <2> QED
            BY <2>1, <2>2, <2>5, <2>6 DEF SessionInv
    <1>3. ASSUME NEW c \in Conns, ServerStep(c)
          PROVE  SessionInv'
        <2>1. Input(c) \/ Thread(c)
            BY <1>3, ServerStepIsOne
        <2>2. TypeOK /\ process = "running"
            BY <2>1, RunningStep DEF IInv
        <2>3. UNCHANGED <<program, step, phase>>
            BY <1>3 DEF ServerStep, Accepted, Arrive, HangUp, Work, Answer, BreakPipe
        <2>4. UNCHANGED server_tables
            BY <1>3, DirectoryStays
        <2>5. ASSUME process' = "running" PROVE \A d \in Conns : Session(d)'
            <3>1. Session(c)'
                <4>1. ~BreakPipe(c)
                    BY <2>5 DEF BreakPipe, ReplyToDeadPeer, Dies
                <4>2. CASE Arrive(c) /\ is_valid(wire[c])
                    BY <2>2, <2>5, <4>2, HandledSession
                <4>3. CASE Arrive(c) /\ ~is_valid(wire[c])
                    BY <2>2, <4>3, ConnectedSession DEF Arrive
                <4> QED
                    BY <1>3, <2>2, <2>5, <4>1, <4>2, <4>3, ConnectedSession, ThreadSession
                    DEF ServerStep
            <3>2. ASSUME NEW d \in Conns \ {c} PROVE Session(d)'
                <4>1. Unmoved(d) /\ KeepsSession(d)
                    BY <2>1, <2>2, StepIsLocal, SessionIsLocal DEF Local
                <4>2. wire'[d] = wire[d] /\ answer'[d] = answer[d]
                    BY <1>3 DEF ClientsInv, ServerStep, Accepted, Arrive, HangUp, Work,
                                Answer, BreakPipe
                <4> QED
                    BY <2>2, <2>3, <2>4, <4>1, <4>2, OtherSessions DEF SessionInv
            <3> QED
                BY <3>1, <3>2
        <2>6. ASSUME NEW d \in Conns, NEW t \in TableId, m_mutex'[t] = d, ~WillUnlock(d, t)'
              PROVE  phase'[d] = "killed" /\ program'[d].useTransaction
            <3>1. CASE m_mutex[t] = d /\ ~WillUnlock(d, t)
                BY <2>3, <3>1 DEF SessionInv
            <3>2. CASE m_mutex[t] # d \/ WillUnlock(d, t)
                BY <1>3, <2>1, <2>2, <2>3, <2>6, <3>2, NewLeak, ProgramsLeak
            <3> QED
                BY <3>1, <3>2
        <2> QED
            BY <2>3, <2>5, <2>6 DEF SessionInv
    <1> QED
        BY <1>1, <1>2, <1>3 DEF ClientsNext

(* The sessions hold at every moment of every cast. *)
THEOREM Sessions == ClientsSpec => [](IInv /\ ClientsInv /\ SessionInv)
    <1>1. ClientsInit => SessionInv
        BY SessionInvInit
    <1>2. IInv /\ SessionInv /\ ClientsInv /\ [ClientsNext]_allVars => SessionInv'
        BY SessionStep
    <1>3. ClientsSpec => []IInv
        BY ClientsRunTheServer, Invariance, PTL
    <1> QED
        BY <1>1, <1>2, <1>3, Conversations, PTL DEF ClientsSpec

(* Among these programs only one that is killed inside its transaction can   *)
(* leave a table locked for ever: whatever the answers, a program that ends  *)
(* on its own has let the server release what it took.                       *)
THEOREM TransactionsLetGo == ClientsSpec => []OnlyKilledLeaveLocks
    <1>1. SessionInv => OnlyKilledLeaveLocks
        BY DEF SessionInv, OnlyKilledLeaveLocks, Leaked
    <1> QED
        BY <1>1, Sessions, PTL

(* Unless a program was killed inside its transaction, whoever waits in      *)
(* Table::lock waits for a thread that will unlock the table and itself      *)
(* waits for nobody.                                                         *)
THEOREM ClientsDoNotDeadlock == ClientsSpec => []WaitersAreServed
    <1>1. IInv /\ WaitersHoldOnlyLeaked /\ OnlyKilledLeaveLocks => WaitersAreServed
        <2> SUFFICES ASSUME IInv, WaitersHoldOnlyLeaked, OnlyKilledLeaveLocks,
                            ~ \E k \in Conns : phase[k] = "killed" /\ program[k].useTransaction,
                            NEW c \in Conns, Waiting(c)
                     PROVE  \E d \in Conns : /\ m_mutex[cur_table[c]] = d
                                            /\ WillUnlock(d, cur_table[c])
                                            /\ ~Waiting(d)
            BY DEF WaitersAreServed
        <2>1. cur_table[c] \in TableId
            BY DEF IInv, TypeOK, ControlInv, Waiting
        <2>2. PICK d \in Conns : m_mutex[cur_table[c]] = d
            BY <2>1 DEF IInv, TypeOK, ServerTypeOK, Waiting, CanLock
        <2>3. ~Leaked(cur_table[c])
            BY <2>1 DEF OnlyKilledLeaveLocks
        <2>4. WillUnlock(d, cur_table[c])
            BY <2>2, <2>3 DEF Leaked
        <2>5. ~Waiting(d)
            BY <2>1, <2>2, <2>3 DEF WaitersHoldOnlyLeaked
        <2> QED
            BY <2>2, <2>4, <2>5
    <1>2. ClientsSpec => []WaitersHoldOnlyLeaked
        BY ClientsRunTheServer, NoHoldAndWait, PTL
    <1> QED
        BY <1>1, <1>2, TransactionsLetGo, Sessions, PTL

-----------------------------------------------------------------------------
(***************************************************************************)
(* What get_value is told.                                                 *)
(***************************************************************************)

(* A table locked for a single GET or SET starts without pending changes.    *)
FreshLook(c) ==
    pc[c] = "working" /\ ~transaction_mode[c] => Clean(tables[cur_table[c]])

(* Whatever a get_value has been sent, or can still be, was once committed   *)
(* while it ran.  Nobody else is sent a value.                               *)
Told(c) ==
    /\ program[c].main = "get_value" /\ phase[c] \in {"sending", "awaiting"}
          => Shown(c) \in seen[c]
    /\ program[c].main = "get_value" /\ ~Gone(c)
          => \A i \in DOMAIN client_stack[c].stk : client_stack[c].stk[i] \in seen[c]
    /\ response[c].type = "DATA"
          => program[c].main = "get_value" /\ (Gone(c) \/ response[c].value \in seen[c])
    /\ answer[c] # NULL /\ answer[c].type = "DATA" => answer[c].value \in seen[c]
    /\ printed[c] # Absent => printed[c] \in seen[c]

ReaderInv ==
    /\ DOMAIN printed = Conns
    /\ \A c \in Conns : FreshLook(c) /\ Told(c)

LEMMA ReaderInvInit ==
    ASSUME ClientsInit
    PROVE  ReaderInv
    <1>1. DOMAIN NewStack.stk = {}
        BY DEF NewStack
    <1> QED
        BY <1>1 DEF ClientsInit, Init, ReaderInv, FreshLook, Told, NoMessage, Plain, Msg

(* What was seen is not forgotten, and what is shown now is added. *)
LEMMA Observed ==
    ASSUME Observe, NEW d \in Conns
    PROVE  /\ seen[d] \subseteq seen'[d]
           /\ program[d].main = "get_value" /\ ~Gone(d) /\ phase'[d] # "idle"
                 => Shown(d)' \in seen'[d]
    BY DEF Observe

(* Nobody else touches a table between the lock and the access. *)
LEMMA FreshLookStep ==
    ASSUME IInv, NEW c \in Conns, Input(c) \/ Thread(c), NEW d \in Conns, FreshLook(d)
    PROVE  FreshLook(d)'
    <1> SUFFICES ASSUME pc'[d] = "working", ~transaction_mode'[d]
                 PROVE  Clean(tables'[cur_table'[d]])
        BY DEF FreshLook, Clean
    <1>1. TypeOK /\ ControlInv /\ Local(c)
        BY StepIsLocal DEF IInv
    <1>2. CASE d # c
        <2>1. /\ pc[d] = "working" /\ ~transaction_mode[d]
              /\ cur_table'[d] = cur_table[d] /\ cur_table[d] \in TableId
            BY <1>1, <1>2 DEF Local, Unmoved, ControlInv
        <2>2. m_mutex[cur_table[d]] = d
            BY <2>1 DEF IInv, LocksAreHeld, WillUnlock
        <2>3. tables'[cur_table[d]] = tables[cur_table[d]]
            BY <1>2, <2>1, <2>2, TableChange
        <2> QED
            BY <2>1, <2>3 DEF FreshLook
    <1>3. CASE d = c
        <2>1. ~Quiet(c)
            BY <1>3 DEF Quiet, Critical
        <2>2. ~\E r \in Requests : Create(c, r) \/ FindTable(c, r)
            BY <1>1, <1>3 DEF Create, FindTable, RespondLast, Goto, Serve, Receive, At, TypeOK
        <2>3. Thread(c)
            BY <2>1, <2>2, RequestIsQuiet, EndIsQuiet DEF Input, Handle
        <2>4. ~CreateTable(c) /\ ~AutoCommit(c)
            BY <1>1, <1>3 DEF CreateTable, AutoCommit, Respond, Goto, TypeOK
        <2>5. ~LockHeld(c) /\ ~Trylock(c)
            BY <1>3 DEF LockHeld, Trylock, transaction
        <2>6. ~Get(c) /\ ~Set(c)
            BY <1>1, <1>3 DEF Get, Set, AfterAccess, OperationFails, Respond, Goto,
                              transaction, TypeOK
        <2>7. ~\E t \in TableId : CommitTable(c, t) \/ RollbackTable(c, t)
            BY <1>3 DEF CommitTable, RollbackTable, At
        <2>8. Lock(c)
            BY <2>1, <2>3, <2>4, <2>5, <2>6, <2>7, EndIsQuiet DEF Thread
        <2>9. UNCHANGED <<tables, cur_table>> /\ m_mutex[cur_table[c]] = NULL
            BY <2>8 DEF Lock, CanLock
        <2>10. cur_table[c] \in TableId
            BY <1>1, <2>8 DEF Lock, At, ControlInv
        <2> QED
            BY <1>3, <2>9, <2>10 DEF IInv, UnlockedTablesAreClean
    <1> QED
        BY <1>2, <1>3

(* A GET outside a transaction reads the committed value. *)
LEMMA GetReadsShown ==
    ASSUME IInv, SessionInv, NEW c \in Conns, process = "running", Get(c),
           program[c].main = "get_value", FreshLook(c)
    PROVE  get(tables[cur_table[c]], request[c].key) = Shown(c)
    <1>1. /\ Session(c) /\ ControlInv /\ pc[c] = "working" /\ request[c].type = "GET"
          /\ program[c] \in Program
        BY ProgramsStay DEF SessionInv, IInv, Get, At
    <1>2. Clean(tables[cur_table[c]])
        BY <1>1 DEF FreshLook, Session, Transactional
    <1>3. /\ cur_table[c] = find_table(program[c].table) /\ find_table(program[c].table) # NULL
          /\ request[c].key \in Keys
        BY <1>1, NamesAssumption DEF Session, ControlInv
    <1>4. request[c] = CurrentRequest(c) /\ step[c] \in DOMAIN Script(program[c])
        BY <1>1 DEF Session, Accessing
    <1>5. request[c].key = program[c].key
        BY <1>1, <1>4, ScriptRequests DEF CurrentRequest
    <1>6. tables[cur_table[c]].tempMap[request[c].key] = Absent
        BY <1>2, <1>3 DEF Clean, EmptyMap
    <1> QED
        BY <1>3, <1>5, <1>6 DEF get, Shown, CommittedValue

(* What a get_value's stack becomes. *)
LEMMA ReaderStack ==
    ASSUME IInv, SessionInv, ClientsInv, NEW c \in Conns, process = "running",
           ServerStep(c), program[c].main = "get_value", FreshLook(c)
    PROVE  \/ client_stack'[c] \in {client_stack[c], NewStack}
           \/ client_stack'[c] = push(client_stack[c], Shown(c)) /\ pc[c] = "working"
    <1>1. TypeOK /\ Session(c) /\ program[c] \in Program
        BY ProgramsStay DEF SessionInv, IInv
    <1>2. DOMAIN client_stack = Conns
        BY <1>1 DEF TypeOK
    <1>3. CurrentRequest(c).type \in {"LOGIN", "GET", "TOP", "BYE"}
        BY <1>1, ScriptRequests DEF CurrentRequest, Session
    <1>4. CASE Accepted(c) \/ HangUp(c) \/ BreakPipe(c)
        BY <1>4 DEF Accepted, Accept, HangUp, NoRequest, BreakPipe, ReplyToDeadPeer, session
    <1>5. CASE Arrive(c)
        <2>1. PICK r : r = wire[c]
            OBVIOUS
        <2>2. CASE NoRequest(c)
            BY <2>2 DEF NoRequest, session
        <2>3. CASE Handle(c, r)
            <3>1. r.type \in {"LOGIN", "GET", "TOP", "BYE"}
                BY <1>1, <1>3, <1>5, <2>1, <2>3, HandleStep DEF Arrive, Session
            <3>2. ~Push(c, r) /\ ~Pop(c, r) /\ ~Arithmetic(c, r)
                BY <3>1 DEF Push, Pop, Arithmetic, Serve, Receive, ArithmeticTypes
            <3> QED
                BY <2>3, <3>2 DEF Handle, Login, NotLoggedIn, Unexpected, Top, Create,
                                  FindTable, Begin, Commit, Bye, session
        <2> QED
            BY <1>5, <2>1, <2>2, <2>3 DEF Arrive
    <1>6. CASE Work(c) \/ Answer(c)
        <2>1. CASE Get(c)
            <3>1. client_stack'[c] = push(client_stack[c], get(tables[cur_table[c]], request[c].key))
                BY <1>2, <2>1 DEF Get
            <3> QED
                BY <2>1, <3>1, GetReadsShown DEF Get, At
        <2>2. ~Set(c)
            BY <1>1, <1>3 DEF Set, At, Session, Accessing
        <2>3. CASE ReplyAndClose(c)
            BY <1>2, <2>3 DEF ReplyAndClose
        <2> QED
            BY <1>6, <2>1, <2>2, <2>3
            DEF Work, Answer, Thread, CreateTable, Lock, LockHeld, Trylock, AutoCommit,
                CommitTable, RollbackTable, Committed, RolledBack, Reply, session
    <1> QED
        BY <1>4, <1>5, <1>6 DEF ServerStep

(* ... and its elements come from what was seen. *)
LEMMA StackIsSeen ==
    ASSUME IInv, SessionInv, ClientsInv, ReaderInv, NEW c \in Conns, process = "running",
           ServerStep(c), program[c].main = "get_value", ~Gone(c)
    PROVE  \A i \in DOMAIN client_stack'[c].stk : client_stack'[c].stk[i] \in seen'[c]
    <1>1. Told(c) /\ FreshLook(c) /\ Conversation(c) /\ phase[c] \in Phases
        BY DEF ReaderInv, ClientsInv
    <1>2. seen[c] \subseteq seen'[c]
        BY Observed DEF ServerStep
    <1>3. PICK s : s = client_stack[c].stk
        OBVIOUS
    <1>4. s \in Seq(String) /\ \A i \in DOMAIN s : s[i] \in seen[c]
        BY <1>1, <1>3 DEF IInv, TypeOK, StackState, Told
    <1>5. CASE client_stack'[c] \in {client_stack[c], NewStack}
        <2>1. DOMAIN NewStack.stk = {}
            BY DEF NewStack
        <2> QED
            BY <1>2, <1>3, <1>4, <1>5, <2>1
    <1>6. CASE client_stack'[c] = push(client_stack[c], Shown(c)) /\ pc[c] = "working"
        <2>1. PICK v : v = Shown(c)
            OBVIOUS
        <2>2. v \in seen[c]
            <3>1. phase[c] \in {"sending", "awaiting"}
                BY <1>1, <1>6 DEF Conversation, Gone, Ended, Phases
            <3> QED
                BY <1>1, <2>1, <3>1 DEF Told
        <2>3. client_stack'[c].stk = <<v>> \o s
            BY <1>3, <1>6, <2>1 DEF push
        <2>4. ASSUME NEW i \in DOMAIN (<<v>> \o s)
              PROVE  (<<v>> \o s)[i] = v \/ \E j \in DOMAIN s : (<<v>> \o s)[i] = s[j]
            BY <1>4, <2>4
        <2> QED
            BY <1>2, <1>4, <2>2, <2>3, <2>4
    <1> QED
        BY <1>1, <1>5, <1>6, ReaderStack

(* DATA is sent to get_value alone, and tells it what was seen. *)
LEMMA ResponseIsSeen ==
    ASSUME IInv, SessionInv, ClientsInv, ReaderInv, NEW c \in Conns, process = "running",
           ServerStep(c), response'[c].type = "DATA"
    PROVE  program[c].main = "get_value" /\ (Gone(c) \/ response'[c].value \in seen'[c])
    <1>1. /\ TypeOK /\ Session(c) /\ program[c] \in Program /\ Told(c)
        BY ProgramsStay DEF SessionInv, IInv, ReaderInv
    <1>2. seen[c] \subseteq seen'[c]
        BY Observed DEF ServerStep
    <1>3. DOMAIN response = Conns /\ DOMAIN pc = Conns
        BY <1>1 DEF TypeOK
    <1>4. CASE response'[c] = response[c]
        BY <1>1, <1>2, <1>4 DEF Told
    <1>5. ASSUME NEW type \in {"OK", "FAILED", "ERROR", "NONE"}
          PROVE  response'[c] # Plain(type)
        BY <1>5 DEF Plain, Msg
    <1>6. ASSUME NEW m, Respond(c, m) \/ RespondLast(c, m)
          PROVE  response'[c] = m
        BY <1>3, <1>6 DEF Respond, RespondLast
    <1>7. ASSUME NEW type \in {"OK", "FAILED", "ERROR"}
          PROVE  ~Respond(c, Plain(type)) /\ ~RespondLast(c, Plain(type))
        BY <1>5, <1>6
    <1>8. ASSUME OperationFails(c)
          PROVE  response'[c] = response[c]
        BY <1>7, <1>8 DEF OperationFails, Dies
    <1>9. CASE Accepted(c) \/ HangUp(c) \/ BreakPipe(c)
        BY <1>4, <1>7, <1>9
        DEF Accepted, Accept, HangUp, NoRequest, BreakPipe, ReplyToDeadPeer, Dies
    <1>10. CASE Arrive(c)
        <2>1. PICK r : r = wire[c]
            OBVIOUS
        <2>2. CASE NoRequest(c)
            BY <1>7, <2>2 DEF NoRequest
        <2>3. CASE Top(c, r)
            <3>1. CASE is_empty(client_stack[c])
                BY <1>4, <1>8, <2>3, <3>1 DEF Top
            <3>2. CASE ~is_empty(client_stack[c])
                <4>1. r = CurrentRequest(c) /\ r.type = "TOP"
                    BY <1>1, <1>10, <2>1, <2>3 DEF Arrive, Top, Serve, Receive, At, Session
                <4>2. program[c].main = "get_value"
                    BY <1>1, <4>1, ScriptRequests DEF CurrentRequest, Session
                <4>3. response'[c].value = Head(client_stack[c].stk)
                    BY <1>6, <2>3, <3>2 DEF Top, Msg, get_top
                <4>4. 1 \in DOMAIN client_stack[c].stk
                    BY <1>1, <3>2 DEF TypeOK, StackState, is_empty
                <4> QED
                    BY <1>1, <1>2, <4>2, <4>3, <4>4 DEF Told
            <3> QED
                BY <3>1, <3>2
        <2>4. CASE Handle(c, r) /\ ~Top(c, r)
            BY <1>4, <1>7, <1>8, <2>4
            DEF Handle, Login, NotLoggedIn, Unexpected, Push, Pop, Arithmetic, Create,
                FindTable, Begin, Commit, Bye, Dies
        <2> QED
            BY <1>10, <2>1, <2>2, <2>3, <2>4 DEF Arrive
    <1>11. CASE Work(c) \/ Answer(c)
        <2>1. CASE Reply(c) \/ ReplyAndClose(c)
            BY <1>3, <1>5, <2>1 DEF Reply, ReplyAndClose, EndOfRequest, NoMessage
        <2> QED
            BY <1>4, <1>7, <1>8, <1>11, <2>1
            DEF Work, Answer, Thread, CreateTable, Lock, LockHeld, Trylock, Get, Set,
                AfterAccess, AutoCommit, CommitTable, RollbackTable, Committed, RolledBack
    <1> QED
        BY <1>9, <1>10, <1>11 DEF ServerStep

(* Connections whose program and thread do nothing, and whatever a program   *)
(* does besides reading an answer.                                           *)
LEMMA StillTold ==
    ASSUME NEW d \in Conns, Told(d), Observe, UNCHANGED program,
           phase'[d] = phase[d] \/ Gone(d)' \/ phase'[d] \in {"sending", "awaiting"},
           phase[d] # "idle" => phase'[d] # "idle",
           Gone(d) => Gone(d)',
           client_stack'[d] = client_stack[d], response'[d] = response[d],
           answer'[d] \in {answer[d], NULL},
           printed'[d] = printed[d] \/ printed'[d] \in seen[d]
    PROVE  Told(d)'
    <1>1. seen[d] \subseteq seen'[d]
        BY Observed
    <1>2. program[d].main = "get_value" /\ phase'[d] \in {"sending", "awaiting"}
            => Shown(d)' \in seen'[d]
        <2>1. phase'[d] \in {"sending", "awaiting"} => ~Gone(d)
            BY DEF Gone, Ended
        <2> QED
            BY <2>1, Observed
    <1>3. (program[d].main = "get_value" /\ ~Gone(d))'
            => \A i \in DOMAIN client_stack'[d].stk : client_stack'[d].stk[i] \in seen'[d]
        BY <1>1 DEF Told
    <1> QED
        BY <1>1, <1>2, <1>3 DEF Told

(* Every step keeps it. *)
LEMMA ReaderStep ==
    ASSUME IInv, SessionInv, ClientsInv, ReaderInv, [ClientsNext]_allVars
    PROVE  ReaderInv'
    <1>1. CASE UNCHANGED allVars
        BY <1>1 DEF allVars, vars, clientVars, ReaderInv, FreshLook, Told, Gone, Shown,
                    CommittedValue, find_table, Clean
    <1>2. ASSUME NEW c \in Conns, ClientStep(c) \/ (Kill(c) /\ Observe)
          PROVE  ReaderInv'
        <2>1. UNCHANGED vars /\ UNCHANGED program /\ Observe /\ DOMAIN printed' = Conns
            BY <1>2 DEF ReaderInv, ClientStep, Start, Send, ReadAnswer, LoseServer, Kill
        <2>2. UNCHANGED <<pc, transaction_mode, tables, cur_table, client_stack, response>>
            BY <2>1 DEF vars
        <2>3. ASSUME NEW d \in Conns PROVE FreshLook(d)'
            BY <2>2 DEF ReaderInv, FreshLook, Clean
        <2>4. ASSUME NEW d \in Conns PROVE Told(d)'
            <3>1. Told(d)
                BY DEF ReaderInv
            <3>2. /\ phase'[d] = phase[d] \/ Gone(d)' \/ phase'[d] \in {"sending", "awaiting"}
                  /\ phase[d] # "idle" => phase'[d] # "idle"
                  /\ Gone(d) => Gone(d)'
                BY <1>2 DEF ClientsInv, ClientStep, Start, Send, ReadAnswer, LoseServer,
                            Kill, Advance, Enter, Gone, Ended
            <3>3. answer'[d] \in {answer[d], NULL}
                BY <1>2 DEF ClientsInv, ClientStep, Start, Send, ReadAnswer, LoseServer, Kill
            <3>4. printed'[d] = printed[d] \/ printed'[d] \in seen[d]
                BY <1>2, <3>1 DEF ReaderInv, Told, ClientStep, Start, Send, ReadAnswer,
                                  LoseServer, Kill
            <3> QED
                BY <2>1, <2>2, <3>1, <3>2, <3>3, <3>4, StillTold
        <2> QED
            BY <2>1, <2>3, <2>4 DEF ReaderInv
    <1>3. ASSUME NEW c \in Conns, ServerStep(c)
          PROVE  ReaderInv'
        <2>1. (Input(c) \/ Thread(c)) /\ TypeOK /\ process = "running"
            BY <1>3, ServerStepIsOne, RunningStep DEF IInv
        <2>2. UNCHANGED <<program, phase, printed>> /\ Observe
            BY <1>3 DEF ServerStep, Accepted, Arrive, HangUp, Work, Answer, BreakPipe
        <2>3. ASSUME NEW d \in Conns PROVE FreshLook(d)'
            BY <2>1, FreshLookStep DEF ReaderInv
        <2>4. ASSUME NEW d \in Conns \ {c} PROVE Told(d)'
            <3>1. answer'[d] = answer[d]
                BY <1>3 DEF ClientsInv, ServerStep, Accepted, Arrive, HangUp, Work,
                            Answer, BreakPipe
            <3>2. KeepsSession(d) /\ Told(d)
                BY <2>1, SessionIsLocal DEF ReaderInv
            <3> QED
                BY <2>2, <3>1, <3>2, StillTold DEF KeepsSession, Gone
        <2>5. Told(c)'
            <3>1. Told(c)
                BY DEF ReaderInv
            <3>2. phase[c] # "idle"
                BY <1>3, <2>1, ThreadStep DEF ClientsInv, Conversation, ServerStep, Accepted,
                       Arrive, HangUp, Gone, Ended, Work, Answer, BreakPipe, ReplyToDeadPeer, At
            <3>3. seen[c] \subseteq seen'[c]
                BY <2>2, Observed
            <3>4. program[c].main = "get_value" /\ phase[c] \in {"sending", "awaiting"}
                    => Shown(c)' \in seen'[c]
                BY <2>2, <3>2, Observed DEF Gone, Ended
            <3>5. program[c].main = "get_value" /\ ~Gone(c)
                    => \A i \in DOMAIN client_stack'[c].stk : client_stack'[c].stk[i] \in seen'[c]
                BY <1>3, <2>1, StackIsSeen
            <3>6. response'[c].type = "DATA"
                    => program[c].main = "get_value" /\ (Gone(c) \/ response'[c].value \in seen'[c])
                BY <1>3, <2>1, ResponseIsSeen
            <3>7. answer'[c] = answer[c] \/ (answer'[c] = response[c] /\ ~Gone(c))
                BY <1>3 DEF ClientsInv, ServerStep, Accepted, Arrive, HangUp, Work,
                            Answer, BreakPipe
            <3>8. answer'[c] # NULL /\ answer'[c].type = "DATA" => answer'[c].value \in seen'[c]
                BY <3>1, <3>3, <3>7 DEF Told
            <3>9. printed'[c] # Absent => printed'[c] \in seen'[c]
                BY <2>2, <3>1, <3>3 DEF Told
            <3> QED
                BY <2>2, <3>4, <3>5, <3>6, <3>8, <3>9 DEF Told, Gone
        <2> QED
            BY <2>2, <2>3, <2>4, <2>5 DEF ReaderInv
    <1> QED
        BY <1>1, <1>2, <1>3 DEF ClientsNext

(* What get_value prints was, at some moment while it ran, the committed     *)
(* value of its key: the table's lock keeps every open transaction out       *)
(* between the lock and the read, whatever the programs are.                 *)
THEOREM ReadersSeeCommitted == ClientsSpec => []PrintsWhatWasCommitted
    <1>1. ClientsInit => ReaderInv
        BY ReaderInvInit
    <1>2. IInv /\ ClientsInv /\ SessionInv /\ ReaderInv /\ [ClientsNext]_allVars => ReaderInv'
        BY ReaderStep
    <1>3. ReaderInv => PrintsWhatWasCommitted
        BY DEF ReaderInv, Told, PrintsWhatWasCommitted
    <1> QED
        BY <1>1, <1>2, <1>3, Sessions, PTL DEF ClientsSpec

-----------------------------------------------------------------------------
(***************************************************************************)
(* What the increments add up to.                                          *)
(***************************************************************************)

(* Who else writes to the key that a set_value of a number sets does so with *)
(* incr_value -t, and starts when the set_value has ended.                   *)
Orderly(cast) ==
    \A c, d \in Conns :
        /\ cast[c].main = "set_value" /\ cast[c].value.kind = "num"
        /\ cast[d].main # "get_value" /\ d # c
        /\ cast[d].table = cast[c].table /\ cast[d].key = cast[c].key
           => Transactional(cast[d]) /\ c \in cast[d].after

(* An incr_value -t holds the table from its GET to its COMMIT, so when it   *)
(* does not any more it has committed.                                       *)
HasApplied(c) ==
    \/ step[c] = 8
    \/ step[c] = 7 /\ m_mutex[find_table(program[c].table)] # c

Applied(p) == {c \in Increments(p) : HasApplied(c)}

(* The key of a set_value holds its number and one for each of them. *)
Settled(c) ==
    LET p == program[c]
    IN  /\ find_table(p.table) # NULL
        /\ tables[find_table(p.table)].theMap[p.key]
              = to_string(p.value.n + Cardinality(Applied(p)))

(* What the first i requests of a set_value have left. *)
LeftBySetting(c, i) ==
    /\ i \in 0 .. 1 => client_stack[c].stk = << >>
    /\ i = 2 => client_stack[c].stk = <<program[c].value>>
    /\ i \in 3 .. 4 => Settled(c)

(* ... of an incr_value -t.  Nobody else changes what the key holds from its *)
(* GET to its COMMIT.                                                        *)
LeftByIncrement(c, i) ==
    LET t == find_table(program[c].table)
        k == program[c].key
        stack == client_stack[c].stk
    IN  /\ i \in 0 .. 2 => stack = << >>
        /\ i \in 2 .. 6 => transaction_mode[c]
        /\ i \in 3 .. 6 => t \in locked_tables[c]
        /\ i \in 0 .. 5 /\ t \in locked_tables[c] => tables[t].tempMap[k] = Absent
        /\ i = 3 => stack = <<tables[t].theMap[k]>>
        /\ i = 4 => stack = <<One.value, tables[t].theMap[k]>>
        /\ i = 5 => stack = <<to_string(tables[t].theMap[k].n + 1)>>
        /\ i = 6 => tables[t].tempMap[k] = to_string(tables[t].theMap[k].n + 1)
        /\ i \in 7 .. 8 => t # NULL /\ m_mutex[t] # c

(* The programs that count: set_value of a number and incr_value -t. *)
Sets(p) == p.main = "set_value" /\ p.value.kind = "num"

Left(c, i) ==
    /\ Sets(program[c]) => LeftBySetting(c, i)
    /\ Transactional(program[c]) => LeftByIncrement(c, i)

(* The request at its step has still to be served, or is being served. *)
Before(c) ==
    \/ phase[c] \in {"idle", "sending"}
    \/ /\ process = "running"
       /\ \/ wire[c] # NULL /\ pc[c] \in {"unconnected", "reading"}
          \/ pc[c] \in {"locking", "working"}
          \/ pc[c] = "committing" /\ locked_tables[c] # {}

(* It has been served, and the program will go on. *)
Replied(c) ==
    /\ process = "running" /\ pc[c] = "replying"
    /\ phase[c] = "awaiting" /\ IsGood(c, response[c])

After(c) ==
    \/ process = "running" /\ pc[c] = "committing" /\ locked_tables[c] = {}
    \/ Replied(c)
    \/ phase[c] = "awaiting" /\ answer[c] # NULL /\ IsGood(c, answer[c])
    \/ phase[c] = "succeeded"

(* The requests before its step, and the one at it as well, have left their   *)
(* traces.                                                                    *)
LeftBefore(c) == \A i \in 0 .. 8 : step[c] = i + 1 => Left(c, i)

LeftAfter(c) == \A i \in 0 .. 8 : step[c] = i => Left(c, i)

Progress(c) ==
    LET p == program[c]
    IN  /\ Before(c) => LeftBefore(c)
        /\ After(c) => LeftAfter(c)
        /\ pc[c] = "finishing"
              => /\ ~Transactional(p)
                 /\ Sets(p) => tables[find_table(p.table)].tempMap[p.key] = p.value
        /\ (Replied(c) /\ ~keep_going[c]) \/ phase[c] = "succeeded"
              => step[c] = Len(Script(p))
        /\ phase[c] \in {"idle", "sending"} => answer[c] = NULL

(* Pending changes are those of the program that holds the table. *)
PendingIsOwn ==
    \A t \in TableId, k \in Keys :
        tables[t].tempMap[k] # Absent
           => \E c \in Conns :
                 /\ m_mutex[t] = c /\ program[c].main # "get_value"
                 /\ t = find_table(program[c].table) /\ k = program[c].key

Counts(c) == Sets(program[c]) \/ Transactional(program[c])

(* Two names never denote one Table object. *)
Directory ==
    \A m, n \in Names : find_table(m) # NULL /\ find_table(m) = find_table(n) => m = n

CountInv ==
    /\ Directory
    /\ PendingIsOwn
    /\ \A c \in Conns :
          /\ phase[c] = "idle" => step[c] = 1
          /\ phase[c] # "idle" => \A d \in program[c].after : Gone(d)
          /\ Counts(c) => step[c] \in DOMAIN Script(program[c]) /\ Progress(c)

-----------------------------------------------------------------------------
(* The scripts of the programs that count. *)

LEMMA SettingScript ==
    ASSUME NEW p \in Program, Sets(p)
    PROVE  /\ Len(Script(p)) = 4
           /\ Script(p)[1].type = "LOGIN"
           /\ Script(p)[2].type = "PUSH" /\ Script(p)[2].value = p.value
           /\ Script(p)[3].type = "SET" /\ Script(p)[4].type = "BYE"
           /\ p.value \in String /\ p.value = to_string(p.value.n) /\ ~Transactional(p)
    <1>1. login_request(p).type = "LOGIN"
        BY DEF login_request, Plain, Msg
    <1>2. p.value \in String /\ p.value = to_string(p.value.n)
        BY DEF Sets, Program, Absent, String, to_string
    <1> QED
        BY <1>1, <1>2 DEF Sets, Script, set_value, OnKey, Plain, Msg, Transactional

LEMMA IncrementScript ==
    ASSUME NEW p \in Program, Transactional(p)
    PROVE  /\ Len(Script(p)) = 8
           /\ Script(p)[1].type = "LOGIN" /\ Script(p)[2].type = "BEGIN"
           /\ Script(p)[3].type = "GET"
           /\ Script(p)[4].type = "PUSH" /\ Script(p)[4].value = One.value
           /\ Script(p)[5].type = "ADD" /\ Script(p)[6].type = "SET"
           /\ Script(p)[7].type = "COMMIT" /\ Script(p)[8].type = "BYE"
           /\ StoringStep(p) = 7 /\ ~Sets(p)
    <1>1. login_request(p).type = "LOGIN"
        BY DEF login_request, Plain, Msg
    <1>2. Script(p) = increment_in_transaction(p) /\ incr_value(p) = increment_in_transaction(p)
        BY DEF Script, incr_value, Transactional
    <1>3. PICK s : s = increment_in_transaction(p)
        OBVIOUS
    <1>4. /\ Len(s) = 8 /\ DOMAIN s = 1 .. 8
          /\ s[1].type = "LOGIN" /\ s[2].type = "BEGIN" /\ s[3].type = "GET"
          /\ s[4].type = "PUSH" /\ s[4].value = One.value
          /\ s[5].type = "ADD" /\ s[6].type = "SET"
          /\ s[7].type = "COMMIT" /\ s[8].type = "BYE"
        BY <1>1, <1>3 DEF increment_in_transaction, OnKey, One, Plain, Msg
    <1>5. StoringStep(p) = CHOOSE i \in DOMAIN s : s[i].type = "COMMIT"
        BY <1>2, <1>3 DEF StoringStep, Transactional
    <1>6. \A i \in DOMAIN s : s[i].type = "COMMIT" <=> i = 7
        BY <1>4
    <1>7. StoringStep(p) = 7
        BY <1>4, <1>5, <1>6
    <1> QED
        BY <1>2, <1>3, <1>4, <1>7 DEF Sets, Transactional

-----------------------------------------------------------------------------
(* What the step of one thread does to the tables of the others.             *)

(* Who holds a table keeps it, and what is in it, while others take steps;   *)
(* who does not hold it is not given it.                                     *)
LEMMA OthersKeep ==
    ASSUME IInv, NEW c \in Conns, Input(c) \/ Thread(c), NEW d \in Conns \ {c},
           NEW t \in TableId
    PROVE  /\ m_mutex'[t] = d <=> m_mutex[t] = d
           /\ m_mutex[t] = d => tables'[t] = tables[t]
    <1>1. d # NULL
        BY NamesAssumption
    <1>2. m_mutex[t] = d => m_mutex'[t] = d /\ tables'[t] = tables[t]
        BY <1>1, MutexChange, TableChange
    <1>3. ASSUME m_mutex'[t] = d, m_mutex[t] # d PROVE FALSE
        <2>1. WillUnlock(d, t)'
            BY <1>3, TakenIsAnsweredFor
        <2>2. Unmoved(d)
            BY StepIsLocal DEF IInv, Local
        <2>3. WillUnlock(d, t)
            BY <2>1, <2>2 DEF WillUnlock, Unmoved
        <2> QED
            BY <1>3, <2>3 DEF IInv, LocksAreHeld
    <1> QED
        BY <1>2, <1>3

(* A thread that serves neither GET nor SET locks and unlocks nothing, but   *)
(* for what it commits.                                                      *)
LEMMA OnlyAccessLocks ==
    ASSUME IInv, SessionInv, NEW c \in Conns, ServerStep(c), NEW t \in TableId,
           CurrentRequest(c).type \notin {"GET", "SET"}
    PROVE  m_mutex'[t] = m_mutex[t] \/ CommitTable(c, t)
    <1>1. (Input(c) \/ Thread(c)) /\ process = "running"
        BY ServerStepIsOne, RunningStep
    <1>2. TypeOK /\ Session(c)
        BY <1>1 DEF SessionInv, IInv
    <1>3. pc[c] \notin Accessing \cup {"creating"}
        BY <1>2 DEF Session
    <1>4. Quiet(c) => UNCHANGED m_mutex
        BY DEF Quiet
    <1>5. CASE Input(c)
        <2>1. \A r \in Requests : Create(c, r) \/ FindTable(c, r) => UNCHANGED m_mutex
            BY DEF Create, FindTable, store
        <2> QED
            BY <1>4, <1>5, <2>1, RequestIsQuiet, EndIsQuiet DEF Input, Handle
    <1>6. CASE Thread(c)
        <2>1. CASE \E u \in TableId : CommitTable(c, u)
            BY <1>2, <2>1 DEF CommitTable, unlock, TypeOK, ServerTypeOK
        <2>2. CASE ~\E u \in TableId : CommitTable(c, u)
            BY <1>3, <1>4, <1>6, <2>2, EndIsQuiet
            DEF Thread, Accessing, At, CreateTable, Lock, LockHeld, Trylock, Get, Set, AutoCommit,
                RollbackTable
        <2> QED
            BY <2>1, <2>2
    <1> QED
        BY <1>1, <1>5, <1>6

(* What a thread that has come to commit does to a table. *)
LEMMA CommitChange ==
    ASSUME IInv, NEW c \in Conns, Input(c) \/ Thread(c), NEW t \in TableId,
           tables'[t] # tables[t], pc[c] \in {"finishing", "committing"}
    PROVE  /\ (AutoCommit(c) /\ t = cur_table[c]) \/ CommitTable(c, t)
           /\ tables'[t] = commit_changes(tables[t])
    <1>1. TypeOK
        BY DEF IInv
    <1>2. CASE Input(c)
        <2>1. \A r \in Requests : Create(c, r) \/ FindTable(c, r) => UNCHANGED tables
            BY DEF Create, FindTable, store
        <2>2. Quiet(c) => UNCHANGED tables
            BY DEF Quiet
        <2> QED
            BY <1>2, <2>1, <2>2, RequestIsQuiet, EndIsQuiet DEF Input, Handle
    <1>3. CASE Thread(c)
        <2>1. AutoCommit(c) \/ \E u \in TableId : CommitTable(c, u)
            BY <1>3
            DEF Thread, CreateTable, Lock, LockHeld, Trylock, Get, Set, RollbackTable, At,
                Committed, RolledBack, Reply, ReplyAndClose, store
        <2> QED
            BY <1>1, <2>1 DEF AutoCommit, CommitTable, TypeOK, ServerTypeOK
    <1> QED
        BY <1>2, <1>3

(* A value is committed by a SET of its own or by COMMIT, from what was      *)
(* pending; otherwise the committed values stay.                             *)
LEMMA CommittedChange ==
    ASSUME IInv, NEW c \in Conns, Input(c) \/ Thread(c), NEW t \in TableId, NEW k \in Keys,
           tables[t].theMap[k] # Absent, tables'[t].theMap[k] # tables[t].theMap[k]
    PROVE  /\ m_mutex[t] = c
           /\ (AutoCommit(c) /\ t = cur_table[c]) \/ CommitTable(c, t)
           /\ tables[t].tempMap[k] # Absent
           /\ tables'[t].theMap[k] = tables[t].tempMap[k]
    <1>1. TypeOK /\ tables[t] \in TableState /\ DOMAIN tables = TableId
        BY DEF IInv, TypeOK, ServerTypeOK
    <1>2. m_mutex[t] = c
        BY TableChange
    <1>3. ASSUME pc[c] = "working", t = cur_table[c], Get(c) \/ Set(c)
          PROVE  FALSE
        <2>1. PICK j, v : tables'[t] \in {tables[t], get_effect(tables[t], j), set(tables[t], j, v)}
            BY <1>1, <1>3 DEF Get, Set
        <2> QED
            BY <1>1, <2>1 DEF get_effect, has_key, set, TableState, Map
    <1>4. ~RollbackTable(c, t)
        BY <1>1 DEF RollbackTable, rollback_changes, TableState
    <1>5. pc[c] \in {"finishing", "committing"}
        BY <1>3, <1>4, TableChange
    <1>6. /\ (AutoCommit(c) /\ t = cur_table[c]) \/ CommitTable(c, t)
          /\ tables'[t] = commit_changes(tables[t])
        BY <1>1, <1>5, CommitChange
    <1> QED
        BY <1>2, <1>6 DEF commit_changes, Overlay

-----------------------------------------------------------------------------
(* What is settled stays settled.                                            *)

(* The request a program is at tells how far it is. *)
LEMMA IncrementSteps ==
    ASSUME SessionInv, NEW c \in Conns, Session(c), Transactional(program[c])
    PROVE  /\ step[c] \in 1 .. 8
           /\ CurrentRequest(c).type = "GET" <=> step[c] = 3
           /\ CurrentRequest(c).type = "SET" <=> step[c] = 6
           /\ CurrentRequest(c).type = "COMMIT" <=> step[c] = 7
    <1>1. program[c] \in Program
        BY ProgramsStay
    <1>2. PICK s : s = Script(program[c])
        OBVIOUS
    <1>3. step[c] \in 1 .. 8
        BY <1>1, ScriptShape, IncrementScript DEF Session
    <1> QED
        BY <1>1, <1>2, <1>3, IncrementScript DEF CurrentRequest

(* Only a COMMIT makes an increment count. *)
LEMMA AppliedStays ==
    ASSUME IInv, SessionInv, NEW c \in Conns, ServerStep(c), NEW d \in Conns,
           Transactional(program[d]), find_table(program[d].table) # NULL,
           ~CommitTable(c, find_table(program[d].table))
    PROVE  HasApplied(d)' <=> HasApplied(d)
    <1>1. (Input(c) \/ Thread(c)) /\ process = "running"
        BY ServerStepIsOne, RunningStep
    <1>2. UNCHANGED <<program, step, server_tables>>
        BY DirectoryStays DEF ServerStep, Accepted, Arrive, HangUp, Work, Answer, BreakPipe
    <1>3. PICK t \in TableId : t = find_table(program[d].table)
        BY ProgramsStay DEF Program, IInv, TypeOK, ServerTypeOK, find_table
    <1>4. find_table(program[d].table)' = t
        BY <1>2, <1>3 DEF find_table
    <1>5. step[d] = 7 => (m_mutex'[t] = d <=> m_mutex[t] = d)
        <2>1. CASE d # c
            BY <1>1, <2>1, OthersKeep
        <2>2. CASE d = c
            BY <1>1, <1>3, <2>2, IncrementSteps, OnlyAccessLocks DEF SessionInv
        <2> QED
            BY <2>1, <2>2
    <1>6. HasApplied(d)' <=> (step[d] = 8 \/ (step[d] = 7 /\ m_mutex'[t] # d))
        BY <1>2, <1>3, <1>4 DEF HasApplied, find_table
    <1> QED
        BY <1>3, <1>5, <1>6 DEF HasApplied

(* A table is released by COMMIT once the new value is pending, and the      *)
(* release makes the increment count.                                        *)
LEMMA CommitCounts ==
    ASSUME IInv, SessionInv, CountInv, NEW c \in Conns, ServerStep(c),
           NEW t \in TableId, CommitTable(c, t)
    PROVE  /\ Transactional(program[c]) /\ t = find_table(program[c].table)
           /\ tables[t].tempMap[program[c].key]
                 = to_string(tables[t].theMap[program[c].key].n + 1)
           /\ tables'[t] = commit_changes(tables[t])
           /\ m_mutex[t] = c /\ m_mutex'[t] = NULL
           /\ locked_tables'[c] = {}
           /\ step[c] = 7 /\ ~HasApplied(c) /\ HasApplied(c)'
    <1>1. /\ process = "running" /\ pc[c] = "committing" /\ t \in locked_tables[c]
          /\ TypeOK /\ Session(c) /\ program[c] \in Program
        BY ProgramsStay DEF CommitTable, At, SessionInv, IInv
    <1>2. t = find_table(program[c].table)
        BY <1>1 DEF Session
    <1>3. Transactional(program[c]) /\ step[c] = 7
        <2>1. CurrentRequest(c).type = "COMMIT" /\ step[c] \in DOMAIN Script(program[c])
            BY <1>1 DEF Session
        <2>2. Transactional(program[c])
            BY <1>1, <2>1, ScriptRequests DEF CurrentRequest
        <2> QED
            BY <1>1, <2>1, <2>2, IncrementSteps
    <1>4. LeftByIncrement(c, 6)
        BY <1>1, <1>3 DEF CountInv, Counts, Progress, Before, LeftBefore, Left
    <1>5. /\ tables'[t] = commit_changes(tables[t])
          /\ m_mutex'[t] = NULL
          /\ locked_tables'[c] = locked_tables[c] \ {t}
        BY <1>1 DEF CommitTable, unlock, TypeOK, ServerTypeOK
    <1>6. m_mutex[t] = c
        BY <1>1 DEF IInv, LocksAreHeld, WillUnlock
    <1>7. locked_tables'[c] = {}
        BY <1>1, <1>2, <1>5 DEF Session
    <1>8. UNCHANGED <<program, step, server_tables>>
        BY DirectoryStays DEF ServerStep, Accepted, Arrive, HangUp, Work, Answer, BreakPipe
    <1>9. find_table(program[c].table)' = t
        BY <1>2, <1>8 DEF find_table
    <1>10. ~HasApplied(c)
        BY <1>2, <1>3, <1>6 DEF HasApplied
    <1>11. HasApplied(c)'
        BY <1>3, <1>5, <1>8, <1>9, NamesAssumption DEF HasApplied
    <1>12. tables[t].tempMap[program[c].key] = to_string(tables[t].theMap[program[c].key].n + 1)
        BY <1>2, <1>4 DEF LeftByIncrement
    <1> QED
        BY <1>2, <1>3, <1>5, <1>6, <1>7, <1>10, <1>11, <1>12

(* Those who write to the key a number was set for. *)
LEMMA Rivals ==
    ASSUME Orderly(program), NEW e \in Conns, Sets(program[e]), NEW d \in Conns,
           program[d].table = program[e].table, program[d].key = program[e].key
    PROVE  /\ program[d].main # "get_value"
                 => d = e \/ (Transactional(program[d]) /\ e \in program[d].after)
           /\ d \in Increments(program[e]) => d # e
    BY DEF Orderly, Sets, Increments

LEMMA SettledStays ==
    ASSUME IInv, ClientsInv, SessionInv, CountInv, Orderly(program), IsFiniteSet(Conns),
           NEW c \in Conns, ServerStep(c),
           NEW e \in Conns, Sets(program[e]), Settled(e), pc[e] # "finishing"
    PROVE  Settled(e)'
    <1>1. (Input(c) \/ Thread(c)) /\ process = "running"
        BY ServerStepIsOne, RunningStep
    <1>2. UNCHANGED <<program, step, server_tables>>
        BY DirectoryStays DEF ServerStep, Accepted, Arrive, HangUp, Work, Answer, BreakPipe
    <1>3. PICK p \in Program : p = program[e]
        BY ProgramsStay
    <1>4. PICK t \in TableId : t = find_table(p.table)
        BY <1>3 DEF Settled, Program, IInv, TypeOK, ServerTypeOK, find_table
    <1>5. PICK k \in Keys : k = p.key
        BY <1>3 DEF Program
    <1>6. find_table(program[e].table)' = t /\ t # NULL /\ p.table \in Names
        BY <1>2, <1>3, <1>4, NamesAssumption DEF find_table, Program
    <1>7. /\ IsFiniteSet(Applied(p)) /\ Cardinality(Applied(p)) \in Nat
          /\ p.value.n \in Int
        <2>1. Applied(p) \subseteq Conns
            BY DEF Applied, Increments
        <2> QED
            BY <1>3, <2>1, FS_Subset, FS_CardinalityType, SettingScript DEF String
    <1>8. tables[t].theMap[k] = to_string(p.value.n + Cardinality(Applied(p)))
        BY <1>3, <1>4, <1>5 DEF Settled
    <1>9. tables[t].theMap[k] # Absent
        BY <1>8 DEF to_string, Absent
    <1>10. PICK A : A = Applied(p)
        OBVIOUS
    <1>11. PICK B : B = {d \in Conns : d \in Increments(p) /\ HasApplied(d)'}
        OBVIOUS
    <1>12. Applied(program[e])' = B
        BY <1>2, <1>3, <1>11 DEF Applied, Increments
    <1>13. SUFFICES tables'[t].theMap[k] = to_string(p.value.n + Cardinality(B))
        BY <1>2, <1>3, <1>4, <1>5, <1>6, <1>12 DEF Settled
    <1>14. \A d \in Increments(p) :
              /\ d \in Conns /\ Transactional(program[d])
              /\ find_table(program[d].table) = t
        BY <1>3, <1>4, Rivals DEF Increments
    <1>15. CASE CommitTable(c, t)
        <2>1. /\ Transactional(program[c]) /\ t = find_table(program[c].table)
              /\ tables[t].tempMap[program[c].key]
                    = to_string(tables[t].theMap[program[c].key].n + 1)
              /\ tables'[t] = commit_changes(tables[t])
              /\ m_mutex[t] = c
              /\ ~HasApplied(c) /\ HasApplied(c)'
            BY <1>15, CommitCounts
        <2>2. program[c].table = p.table
            BY <1>4, <1>6, <2>1, ProgramsStay DEF CountInv, Directory, Program
        <2>3. \A d \in Increments(p) \ {c} : HasApplied(d)' <=> HasApplied(d)
            <3>1. ASSUME NEW d \in Increments(p) \ {c} PROVE HasApplied(d)' <=> HasApplied(d)
                <4>1. m_mutex'[t] = d <=> m_mutex[t] = d
                    BY <1>1, <1>14, <3>1, OthersKeep
                <4>2. find_table(program[d].table)' = t /\ find_table(program[d].table) = t
                    BY <1>2, <1>14, <3>1 DEF find_table
                <4> QED
                    BY <1>2, <4>1, <4>2 DEF HasApplied
            <3> QED
                BY <3>1
        <2>4. CASE program[c].key = k
            <3>1. c \in Increments(p)
                BY <1>5, <2>1, <2>2, <2>4 DEF Increments, Transactional
            <3>2. B = A \cup {c} /\ c \notin A
                BY <1>10, <1>11, <1>14, <2>1, <2>3, <3>1 DEF Applied
            <3>3. Cardinality(B) = Cardinality(A) + 1
                BY <1>7, <1>10, <3>2, FS_AddElement
            <3>4. tables'[t].theMap[k] = to_string(tables[t].theMap[k].n + 1)
                <4>1. k \in Keys /\ tables'[t].theMap = Overlay(tables[t])
                    BY <1>5, <2>1 DEF commit_changes
                <4>2. /\ tables[t].tempMap[k] = to_string(tables[t].theMap[k].n + 1)
                      /\ tables[t].tempMap[k] # Absent
                    BY <2>1, <2>4 DEF to_string, Absent
                <4> QED
                    BY <4>1, <4>2 DEF Overlay
            <3>5. tables[t].theMap[k].n = p.value.n + Cardinality(A)
                BY <1>8, <1>10 DEF to_string
            <3>6. tables[t].theMap[k].n + 1 = p.value.n + Cardinality(B)
                BY <1>7, <1>10, <3>3, <3>5
            <3> QED
                BY <3>4, <3>6
        <2>5. CASE program[c].key # k
            <3>1. B = A
                BY <1>5, <1>10, <1>11, <1>14, <2>3, <2>5 DEF Applied, Increments
            <3>2. tables[t].tempMap[k] = Absent
                BY <2>1, <2>5 DEF CountInv, PendingIsOwn
            <3>3. tables'[t].theMap[k] = tables[t].theMap[k]
                <4>1. k \in Keys /\ tables'[t].theMap = Overlay(tables[t])
                    BY <1>5, <2>1 DEF commit_changes
                <4> QED
                    BY <3>2, <4>1 DEF Overlay
            <3> QED
                BY <1>8, <1>10, <3>1, <3>3
        <2> QED
            BY <2>4, <2>5
    <1>16. CASE ~CommitTable(c, t)
        <2>1. B = A
            <3>1. \A d \in Increments(p) : HasApplied(d)' <=> HasApplied(d)
                BY <1>6, <1>14, <1>16, AppliedStays
            <3> QED
                BY <1>10, <1>11, <1>14, <3>1 DEF Applied
        <2>2. ASSUME tables'[t].theMap[k] # tables[t].theMap[k]
              PROVE  FALSE
            <3>1. AutoCommit(c) /\ t = cur_table[c] /\ m_mutex[t] = c /\ tables[t].tempMap[k] # Absent
                BY <1>1, <1>9, <1>16, <2>2, CommittedChange
            <3>2. /\ program[c].main # "get_value" /\ k = program[c].key
                  /\ t = find_table(program[c].table)
                BY <3>1 DEF CountInv, PendingIsOwn
            <3>3. program[c].table = p.table
                BY <1>4, <1>6, <3>2, ProgramsStay DEF CountInv, Directory, Program
            <3>4. c = e \/ Transactional(program[c])
                BY <1>3, <1>5, <3>2, <3>3, Rivals
            <3>5. pc[c] = "finishing"
                BY <3>1 DEF AutoCommit, At
            <3> QED
                BY <3>4, <3>5 DEF CountInv, Counts, Progress
        <2> QED
            BY <1>8, <1>10, <2>1, <2>2
    <1> QED
        BY <1>15, <1>16

-----------------------------------------------------------------------------
(* What the requests of a program have left stays while others are served.   *)

(* What a program has left stays when neither its session nor the Table it    *)
(* names changes.                                                             *)
LEMMA LeftIsKept ==
    ASSUME NEW c \in Conns, NEW i \in 0 .. 8, Left(c, i), UNCHANGED <<program, server_tables>>,
           NEW t, t = find_table(program[c].table), NEW stack, stack = client_stack[c].stk,
           Sets(program[c]) /\ i \in 3 .. 4 => Settled(c)',
           Sets(program[c]) => client_stack'[c].stk = stack \/ i = 4,
           Transactional(program[c]) /\ i \in 0 .. 6
              => /\ client_stack'[c].stk = stack
                 /\ transaction_mode'[c] = transaction_mode[c]
                 /\ locked_tables'[c] = locked_tables[c] /\ tables'[t] = tables[t],
           Transactional(program[c]) /\ i \in 7 .. 8 => (m_mutex'[t] = c <=> m_mutex[t] = c)
    PROVE  Left(c, i)'
    <1>1. find_table(program[c].table)' = t
        BY DEF find_table
    <1>2. ASSUME Sets(program[c]), ~Transactional(program[c]) PROVE LeftBySetting(c, i)'
        BY <1>2 DEF Left, LeftBySetting
    <1>3. ASSUME Transactional(program[c]) PROVE LeftByIncrement(c, i)'
        <2>1. LeftByIncrement(c, i)
            BY <1>3 DEF Left
        <2>2. CASE i \in 0 .. 2
            BY <1>1, <1>3, <2>1, <2>2 DEF LeftByIncrement
        <2>3. CASE i \in 3 .. 6
            BY <1>1, <1>3, <2>1, <2>3 DEF LeftByIncrement
        <2>4. CASE i \in 7 .. 8
            BY <1>1, <1>3, <2>1, <2>4 DEF LeftByIncrement
        <2> QED
            BY <2>2, <2>3, <2>4
    <1>4. Sets(program[c]) => ~Transactional(program[c])
        BY DEF Sets, Transactional
    <1> QED
        BY <1>2, <1>3, <1>4 DEF Left

(* A program that waits for its turn, or has had it, is not about to commit  *)
(* a SET of its own.                                                         *)
LEMMA NotFinishing ==
    ASSUME ClientsInv, NEW c \in Conns, Before(c) \/ After(c), process = "running"
    PROVE  pc[c] # "finishing"
    BY DEF ClientsInv, Conversation, Before, After, Replied

LEMMA LeftStays ==
    ASSUME IInv, ClientsInv, SessionInv, CountInv, Orderly(program), IsFiniteSet(Conns),
           NEW c \in Conns, ServerStep(c), NEW d \in Conns \ {c}, NEW i \in 0 .. 8,
           Left(d, i), pc[d] # "finishing"
    PROVE  Left(d, i)'
    <1>1. (Input(c) \/ Thread(c)) /\ process = "running" /\ TypeOK
        BY ServerStepIsOne, RunningStep DEF IInv
    <1>2. UNCHANGED <<program, step, server_tables>>
        BY DirectoryStays DEF ServerStep, Accepted, Arrive, HangUp, Work, Answer, BreakPipe
    <1>3. Unmoved(d) /\ KeepsSession(d)
        BY <1>1, StepIsLocal, SessionIsLocal DEF Local
    <1>4. ASSUME Sets(program[d]) PROVE LeftBySetting(d, i)'
        <2>1. LeftBySetting(d, i)
            BY <1>4 DEF Left
        <2>2. i \in 3 .. 4 => Settled(d)'
            BY <1>4, <2>1, SettledStays DEF LeftBySetting
        <2> QED
            BY <1>2, <1>3, <2>1, <2>2 DEF LeftBySetting, KeepsSession
    <1>5. ASSUME Transactional(program[d]) PROVE LeftByIncrement(d, i)'
        <2>1. LeftByIncrement(d, i)
            BY <1>5 DEF Left
        <2>2. PICK t : t = find_table(program[d].table)
            OBVIOUS
        <2>3. find_table(program[d].table)' = t
            BY <1>2, <2>2 DEF find_table
        <2>4. t # NULL => t \in TableId
            BY <1>1, <2>2, ProgramsStay DEF Program, TypeOK, ServerTypeOK, find_table
        <2>5. t \in locked_tables[d] => tables'[t] = tables[t]
            BY <1>1, OthersKeep DEF IInv, LocksAreHeld, WillUnlock, TypeOK
        <2>6. t # NULL => (m_mutex'[t] = d <=> m_mutex[t] = d)
            BY <1>1, <2>4, OthersKeep
        <2> QED
            BY <1>2, <1>3, <2>1, <2>2, <2>3, <2>5, <2>6 DEF LeftByIncrement, Unmoved, KeepsSession
    <1> QED
        BY <1>2, <1>4, <1>5 DEF Left

LEMMA OthersProgress ==
    ASSUME IInv, ClientsInv, SessionInv, CountInv, Orderly(program), IsFiniteSet(Conns),
           NEW c \in Conns, ServerStep(c), NEW d \in Conns \ {c}, Progress(d)
    PROVE  Progress(d)'
    <1>1. (Input(c) \/ Thread(c)) /\ process = "running" /\ TypeOK
        BY ServerStepIsOne, RunningStep DEF IInv
    <1>2. UNCHANGED <<program, phase, step, server_tables>>
        BY DirectoryStays DEF ServerStep, Accepted, Arrive, HangUp, Work, Answer, BreakPipe
    <1>3. wire'[d] = wire[d] /\ answer'[d] = answer[d]
        BY DEF ClientsInv, ServerStep, Accepted, Arrive, HangUp, Work, Answer, BreakPipe
    <1>4. Unmoved(d) /\ KeepsSession(d)
        BY <1>1, StepIsLocal, SessionIsLocal DEF Local
    <1>5. \A m : IsGood(d, m)' <=> IsGood(d, m)
        BY <1>2 DEF IsGood, CurrentRequest
    <1>6. /\ Before(d)' => Before(d)
          /\ Replied(d)' => Replied(d)
          /\ After(d)' => After(d)
        BY <1>1, <1>2, <1>3, <1>4, <1>5 DEF Before, Replied, After, Unmoved, KeepsSession
    <1>7. /\ Before(d)' => LeftBefore(d)'
          /\ After(d)' => LeftAfter(d)'
        <2>1. ASSUME NEW i \in 0 .. 8, Left(d, i), Before(d) \/ After(d) PROVE Left(d, i)'
            BY <1>1, <2>1, LeftStays, NotFinishing
        <2> QED
            BY <1>2, <1>6, <2>1 DEF LeftBefore, LeftAfter, Progress
    <1>8. ASSUME pc'[d] = "finishing", Sets(program[d])
          PROVE  tables'[find_table(program[d].table)].tempMap[program[d].key] = program[d].value
        <2>1. pc[d] = "finishing"
            BY <1>4, <1>8 DEF Unmoved
        <2>2. PICK t \in TableId : t = cur_table[d]
            BY <2>1 DEF IInv, ControlInv
        <2>3. t = find_table(program[d].table)
            BY <1>1, <2>2, NamesAssumption DEF SessionInv, Session
        <2>4. m_mutex[t] = d
            BY <2>1, <2>2 DEF IInv, LocksAreHeld, WillUnlock
        <2>5. tables'[t] = tables[t]
            BY <1>1, <2>4, OthersKeep
        <2> QED
            BY <1>8, <2>1, <2>3, <2>5 DEF Progress
    <1>9. find_table(program[d].table)' = find_table(program[d].table)
        BY <1>2 DEF find_table
    <1>10. (Replied(d) /\ ~keep_going[d])' => Replied(d) /\ ~keep_going[d]
        BY <1>4, <1>6 DEF KeepsSession
    <1> QED
        BY <1>2, <1>3, <1>4, <1>7, <1>8, <1>9, <1>10 DEF Progress, Unmoved

-----------------------------------------------------------------------------
(* What becomes of a request that is being served.                           *)

(* The thread gives up, answers that it did or nobody that waits, goes on    *)
(* working, or has done it.                                                  *)
Outcome(c) ==
    LET p == program[c]
    IN  \/ process # "running" /\ pc[c] # "finishing"
        \/ pc[c] = "rolling"
        \/ pc[c] = "replying" /\ (response[c].type # "OK" \/ phase[c] = "killed")
        \/ /\ pc[c] = "replying" /\ LeftAfter(c)
           /\ keep_going[c] \/ step[c] = Len(Script(p))
        \/ pc[c] \in {"locking", "working"} /\ LeftBefore(c)
        \/ pc[c] = "committing" /\ locked_tables[c] # {} /\ LeftBefore(c)
        \/ pc[c] = "committing" /\ locked_tables[c] = {} /\ LeftAfter(c)
        \/ /\ pc[c] = "finishing" /\ ~Transactional(p)
           /\ Sets(p) => tables[find_table(p.table)].tempMap[p.key] = p.value

(* No answer but OK lets a program that counts go on. *)
LEMMA OnlyOKIsGood ==
    ASSUME SessionInv, NEW c \in Conns, Counts(c), step[c] \in DOMAIN Script(program[c]),
           NEW m, IsGood(c, m)
    PROVE  m.type = "OK"
    <1>1. program[c].main # "get_value"
        BY DEF Counts, Sets, Transactional
    <1>2. CurrentRequest(c).type # "TOP"
        BY <1>1, ProgramsStay, ScriptRequests DEF CurrentRequest
    <1> QED
        BY <1>1, <1>2 DEF IsGood

LEMMA OutcomeSuffices ==
    ASSUME SessionInv, NEW c \in Conns, Counts(c), step[c] \in DOMAIN Script(program[c]),
           UNCHANGED <<program, phase, step>>,
           phase[c] \in {"awaiting", "killed"}, wire'[c] = NULL,
           phase[c] = "awaiting" => answer'[c] = NULL,
           Outcome(c)'
    PROVE  Progress(c)'
    <1>1. IsGood(c, response[c])' => response'[c].type = "OK"
        <2>1. IsGood(c, response[c])' <=> IsGood(c, response'[c])
            BY DEF IsGood, CurrentRequest
        <2> QED
            BY <2>1, OnlyOKIsGood
    <1>2. Before(c)' => LeftBefore(c)'
        BY DEF Outcome, Before
    <1>3. After(c)' => LeftAfter(c)'
        BY <1>1 DEF Outcome, After, Replied
    <1>4. pc'[c] = "finishing"
             => /\ ~Transactional(program'[c])
                /\ Sets(program'[c])
                     => (tables[find_table(program[c].table)].tempMap[program[c].key] = program[c].value)'
        BY DEF Outcome
    <1>5. (Replied(c) /\ ~keep_going[c])' => step'[c] = Len(Script(program'[c]))
        BY <1>1 DEF Outcome, Replied
    <1> QED
        BY <1>2, <1>3, <1>4, <1>5 DEF Progress

(* The other answers. *)
LEMMA NotServed ==
    ASSUME TypeOK, NEW c \in Conns,
           \/ OperationFails(c) /\ pc[c] = "reading"
           \/ Respond(c, Plain("FAILED"))
           \/ RespondLast(c, Plain("ERROR"))
    PROVE  Outcome(c)'
    BY DEF TypeOK, OperationFails, Respond, RespondLast, Dies, Goto, Plain, Msg, Outcome

(* What a program has asked for when it waits for the thread to read it. *)
LEMMA Asked ==
    ASSUME IInv, ClientsInv, SessionInv, CountInv,
           NEW c \in Conns, process = "running", Counts(c), pc[c] = "reading", wire[c] # NULL
    PROVE  /\ phase[c] \in {"awaiting", "killed"}
           /\ phase[c] = "awaiting" => answer[c] = NULL
           /\ wire[c] = CurrentRequest(c)
           /\ LeftBefore(c)
    <1>1. Session(c) /\ Conversation(c) /\ phase[c] \in Phases
        BY DEF SessionInv, ClientsInv
    <1>2. Before(c)
        BY DEF Before
    <1> QED
        BY <1>1, <1>2 DEF Session, Conversation, Phases, CountInv, Progress

(* What the script of a program that counts asks for at each step. *)
LEMMA CountedRequest ==
    ASSUME SessionInv, NEW c \in Conns, step[c] \in DOMAIN Script(program[c]),
           NEW r, r = CurrentRequest(c)
    PROVE  /\ Sets(program[c])
                 => /\ ~Transactional(program[c]) /\ Len(Script(program[c])) = 4
                    /\ step[c] \in 1 .. 4
                    /\ r.type = "LOGIN" <=> step[c] = 1
                    /\ r.type = "PUSH" <=> step[c] = 2
                    /\ r.type = "SET" <=> step[c] = 3
                    /\ r.type = "BYE" <=> step[c] = 4
                    /\ r.type = "PUSH" => r.value = program[c].value
           /\ Transactional(program[c])
                 => /\ ~Sets(program[c]) /\ Len(Script(program[c])) = 8
                    /\ step[c] \in 1 .. 8
                    /\ r.type = "LOGIN" <=> step[c] = 1
                    /\ r.type = "BEGIN" <=> step[c] = 2
                    /\ r.type = "GET" <=> step[c] = 3
                    /\ r.type = "PUSH" <=> step[c] = 4
                    /\ r.type = "ADD" <=> step[c] = 5
                    /\ r.type = "SET" <=> step[c] = 6
                    /\ r.type = "COMMIT" <=> step[c] = 7
                    /\ r.type = "BYE" <=> step[c] = 8
                    /\ r.type = "PUSH" => r.value = One.value
    <1>1. program[c] \in Program
        BY ProgramsStay
    <1>2. PICK s : s = Script(program[c])
        OBVIOUS
    <1>3. ASSUME Sets(program[c]) PROVE step[c] \in 1 .. 4
        BY <1>1, <1>3, ScriptShape, SettingScript
    <1>4. ASSUME Transactional(program[c]) PROVE step[c] \in 1 .. 8
        BY <1>1, <1>4, ScriptShape, IncrementScript
    <1>5. ASSUME Sets(program[c])
          PROVE  /\ ~Transactional(program[c]) /\ Len(s) = 4
                 /\ s[1].type = "LOGIN" /\ s[2].type = "PUSH" /\ s[2].value = program[c].value
                 /\ s[3].type = "SET" /\ s[4].type = "BYE"
        BY <1>1, <1>2, <1>5, SettingScript
    <1>6. ASSUME Transactional(program[c])
          PROVE  /\ ~Sets(program[c]) /\ Len(s) = 8
                 /\ s[1].type = "LOGIN" /\ s[2].type = "BEGIN" /\ s[3].type = "GET"
                 /\ s[4].type = "PUSH" /\ s[4].value = One.value
                 /\ s[5].type = "ADD" /\ s[6].type = "SET"
                 /\ s[7].type = "COMMIT" /\ s[8].type = "BYE"
        BY <1>1, <1>2, <1>6, IncrementScript
    <1>7. r = s[step[c]]
        BY <1>2 DEF CurrentRequest
    <1>8. CASE Sets(program[c])
        BY <1>2, <1>3, <1>5, <1>7, <1>8
    <1>9. CASE Transactional(program[c])
        BY <1>2, <1>4, <1>6, <1>7, <1>9
    <1> QED
        BY <1>8, <1>9

LEMMA TwoPushed == \A a, b : <<a>> \o <<b>> = <<a, b>>
    <1> SUFFICES ASSUME NEW a, NEW b PROVE <<a>> \o <<b>> = <<a, b>>
        OBVIOUS
    <1>1. PICK s, t : s = <<a>> /\ t = <<b>>
        OBVIOUS
    <1>2. /\ s \in Seq({a, b}) /\ Len(s) = 1 /\ s[1] = a
          /\ t \in Seq({a, b}) /\ Len(t) = 1 /\ t[1] = b
        BY <1>1
    <1>3. PICK u : u = s \o t
        OBVIOUS
    <1>4. /\ u \in Seq({a, b}) /\ Len(u) = 2
          /\ \A i \in 1 .. 2 : u[i] = IF i <= 1 THEN s[i] ELSE t[i - 1]
        BY <1>2, <1>3, ConcatProperties
    <1>5. u[1] = a /\ u[2] = b
        BY <1>2, <1>4
    <1>6. PICK v : v = <<a, b>>
        OBVIOUS
    <1>7. v \in Seq({a, b}) /\ Len(v) = 2 /\ v[1] = a /\ v[2] = b
        BY <1>6
    <1>8. u = v
        BY <1>4, <1>5, <1>7, SeqEqual
    <1> QED
        BY <1>1, <1>3, <1>6, <1>8

(* A request that leaves the store alone adds to what the earlier ones left  *)
(* what it does to the stack and to the mode.                                *)
LEMMA LeftGrows ==
    ASSUME IInv, SessionInv, NEW c \in Conns, NEW i \in 1 .. 8, Counts(c),
           Left(c, i - 1),
           UNCHANGED <<program, step, server_tables, tables, m_mutex>>,
           locked_tables'[c] = locked_tables[c],
           NEW stack, stack = client_stack[c].stk,
           NEW stack1, stack1 = client_stack'[c].stk,
           NEW held, held = tables[find_table(program[c].table)].theMap[program[c].key],
           Sets(program[c]) =>
              \/ i = 1 /\ stack1 = stack
              \/ i = 2 /\ stack1 = <<program[c].value>> \o stack
              \/ i = 4 /\ Settled(c)',
           Transactional(program[c]) =>
              \/ i \in {1, 8} /\ stack1 = stack
              \/ i = 2 /\ stack1 = stack /\ transaction_mode'[c]
              \/ i = 4 /\ stack1 = <<One.value>> \o stack /\ transaction_mode'[c]
              \/ i = 5 /\ stack1 = <<to_string(held.n + 1)>> /\ transaction_mode'[c]
    PROVE  Left(c, i)'
    <1>1. find_table(program[c].table)' = find_table(program[c].table)
        BY DEF find_table
    <1>2. ASSUME Sets(program[c]) PROVE LeftBySetting(c, i)'
        <2>1. LeftBySetting(c, i - 1)
            BY <1>2 DEF Left
        <2>2. CASE i = 4
            BY <1>2, <2>2 DEF LeftBySetting
        <2>3. CASE i # 4
            <3>1. stack = << >>
                BY <1>2, <2>1, <2>3 DEF LeftBySetting
            <3>2. <<program[c].value>> \o << >> = <<program[c].value>>
                OBVIOUS
            <3> QED
                BY <1>2, <2>3, <3>1, <3>2 DEF LeftBySetting
        <2> QED
            BY <2>2, <2>3
    <1>3. ASSUME Transactional(program[c]) PROVE LeftByIncrement(c, i)'
        <2>1. LeftByIncrement(c, i - 1)
            BY <1>3 DEF Left
        <2>2. CASE i = 4
            <3>1. stack = <<held>>
                BY <2>1, <2>2 DEF LeftByIncrement
            <3>2. <<One.value>> \o <<held>> = <<One.value, held>>
                BY TwoPushed
            <3>3. stack1 = <<One.value, held>> /\ transaction_mode'[c]
                BY <1>3, <2>2, <3>1, <3>2
            <3>4. /\ find_table(program[c].table) \in locked_tables[c]
                  /\ tables[find_table(program[c].table)].tempMap[program[c].key] = Absent
                BY <2>1, <2>2 DEF LeftByIncrement
            <3> QED
                BY <1>1, <2>2, <3>3, <3>4 DEF LeftByIncrement
        <2>3. CASE i = 5
            <3>1. stack1 = <<to_string(held.n + 1)>> /\ transaction_mode'[c]
                BY <1>3, <2>3
            <3> QED
                BY <1>1, <2>1, <2>3, <3>1 DEF LeftByIncrement
        <2>4. CASE i = 1
            BY <1>1, <1>3, <2>1, <2>4 DEF LeftByIncrement
        <2>5. CASE i = 2
            BY <1>1, <1>3, <2>1, <2>5 DEF LeftByIncrement
        <2>6. CASE i = 8
            BY <1>1, <1>3, <2>1, <2>6 DEF LeftByIncrement
        <2> QED
            BY <1>3, <2>2, <2>3, <2>4, <2>5, <2>6
    <1> QED
        BY <1>2, <1>3 DEF Left

(* ADD of two elements leaves nothing below its result. *)
LEMMA TwoPopped ==
    ASSUME NEW s \in StackState, NEW a, NEW b, s.stk = <<a, b>>
    PROVE  /\ after_pop_two(s).stk = << >> /\ b \in String
           /\ operation("ADD", val1(s), val2(s)) = a.n + b.n
    <1>1. PICK u : u = s.stk
        OBVIOUS
    <1>2. /\ u \in Seq(String) /\ Len(u) = 2 /\ u[1] = a /\ u[2] = b
          /\ s.total = 2
        <2>1. u \in Seq(String) /\ s.total = Len(u)
            BY <1>1 DEF StackState
        <2> QED
            BY <1>1, <2>1
    <1>3. PICK v : v = Tail(u)
        OBVIOUS
    <1>4. Head(u) = a /\ v = <<b>>
        BY <1>1, <1>3
    <1>5. Head(v) = b /\ Tail(v) = << >>
        BY <1>4
    <1>6. ~is_empty(s) /\ ~is_empty(pop(s)) /\ pop(s).stk = v
        BY <1>1, <1>2, <1>3 DEF is_empty, pop
    <1>7. after_pop_two(s).stk = << >>
        BY <1>5, <1>6 DEF after_pop_two, pop
    <1>8. val1(s) = a.n /\ val2(s) = b.n
        BY <1>1, <1>4, <1>5, <1>6 DEF val1, val2, stoi, get_top
    <1> QED
        BY <1>2, <1>7, <1>8 DEF operation

(* A request the thread has read. *)
LEMMA HandledOutcome ==
    ASSUME IInv, ClientsInv, SessionInv, CountInv, Orderly(program), IsFiniteSet(Conns),
           NEW c \in Conns, ServerStep(c), Arrive(c), is_valid(wire[c]), Counts(c)
    PROVE  Outcome(c)'
    <1>1. (Input(c) \/ Thread(c)) /\ process = "running"
        BY ServerStepIsOne, RunningStep
    <1>2. /\ TypeOK /\ Session(c) /\ step[c] \in DOMAIN Script(program[c])
          /\ DOMAIN pc = Conns /\ DOMAIN client_stack = Conns /\ DOMAIN transaction_mode = Conns
          /\ DOMAIN response = Conns
        BY <1>1 DEF SessionInv, IInv, CountInv, TypeOK
    <1>3. PICK r : r = CurrentRequest(c)
        OBVIOUS
    <1>4. wire[c] # NULL /\ pc[c] = "reading" /\ wire[c] = r /\ Handle(c, r)
        BY <1>1, <1>2, <1>3, HandleStep, Asked DEF Arrive
    <1>5. LeftBefore(c) /\ keep_going[c]
        BY <1>1, <1>2, <1>4, Asked DEF Session
    <1>6. UNCHANGED <<program, phase, step, server_tables>>
        BY DirectoryStays DEF Arrive
    <1>7. UNCHANGED <<tables, m_mutex, locked_tables>>
        BY <1>4 DEF Handle, Login, NotLoggedIn, Unexpected, Push, Pop, Top, Arithmetic, Create,
                    FindTable, Begin, Commit, Bye, store, transaction
    <1>8. PICK i \in 1 .. 8 : i = step[c]
        BY <1>2, CountedRequest DEF Counts
    <1>9. i - 1 \in 0 .. 8 /\ Left(c, i - 1)
        BY <1>5, <1>8 DEF LeftBefore
    <1>10. PICK stack : stack = client_stack[c].stk
        OBVIOUS
    <1>11. PICK stack1 : stack1 = client_stack'[c].stk
        OBVIOUS
    <1>12. PICK held : held = tables[find_table(program[c].table)].theMap[program[c].key]
        OBVIOUS
    (* What a request that is answered with OK has to show. *)
    <1>13. ASSUME Left(c, i)',
                  \/ Respond(c, Plain("OK"))
                  \/ RespondLast(c, Plain("OK")) /\ step[c] = Len(Script(program[c]))
           PROVE  Outcome(c)'
        <2>1. pc'[c] = "replying"
            BY <1>2, <1>13 DEF Respond, RespondLast, Goto
        <2>2. LeftAfter(c)'
            BY <1>6, <1>8, <1>13 DEF LeftAfter
        <2>3. keep_going'[c] \/ step'[c] = Len(Script(program'[c]))
            BY <1>5, <1>6, <1>13 DEF Respond
        <2> QED
            BY <2>1, <2>2, <2>3 DEF Outcome
    (* ... and one that has to wait for what follows. *)
    <1>14. ASSUME client_stack'[c] = client_stack[c], transaction_mode'[c] = transaction_mode[c],
                  pc[c] # "finishing", i # 4 \/ Transactional(program[c])
           PROVE  LeftBefore(c)'
        <2>1. find_table(program[c].table)' = find_table(program[c].table)
            BY <1>6 DEF find_table
        <2>2. Left(c, i - 1)'
            <3>1. Sets(program[c]) => i # 4 /\ i < 5
                BY <1>2, <1>3, <1>8, <1>14, CountedRequest DEF Sets, Transactional
            <3> QED
                BY <1>6, <1>7, <1>9, <1>14, <3>1, LeftIsKept
        <2> QED
            BY <1>6, <1>8, <2>2 DEF LeftBefore
    <1>15. CASE Login(c, r)
        <2>1. /\ r.type = "LOGIN" /\ Respond(c, Plain("OK"))
              /\ UNCHANGED <<client_stack, transaction_mode>>
            BY <1>15 DEF Login, Receive, transaction
        <2>2. i = 1 /\ stack1 = stack
            BY <1>2, <1>3, <1>8, <1>10, <1>11, <2>1, CountedRequest DEF Counts
        <2>3. Left(c, i)'
            BY <1>6, <1>7, <1>9, <1>10, <1>11, <1>12, <2>2, LeftGrows
        <2> QED
            BY <1>13, <2>1, <2>3
    <1>16. CASE NotLoggedIn(c, r)
        BY <1>2, <1>16, NotServed DEF NotLoggedIn
    <1>17. CASE Push(c, r)
        <2>1. /\ r.type = "PUSH" /\ Respond(c, Plain("OK")) /\ UNCHANGED transaction_mode
              /\ client_stack'[c] = push(client_stack[c], r.value)
            BY <1>2, <1>17 DEF Push, Serve, Receive, transaction
        <2>2. stack1 = <<r.value>> \o stack
            BY <1>10, <1>11, <2>1 DEF push
        <2>3. Sets(program[c]) => i = 2 /\ stack1 = <<program[c].value>> \o stack
            BY <1>2, <1>3, <1>8, <2>1, <2>2, CountedRequest
        <2>4. Transactional(program[c])
                => i = 4 /\ stack1 = <<One.value>> \o stack /\ transaction_mode'[c]
            <3>1. Transactional(program[c]) => i = 4 /\ r.value = One.value
                BY <1>2, <1>3, <1>8, <2>1, CountedRequest
            <3> QED
                BY <1>9, <2>1, <2>2, <3>1 DEF Left, LeftByIncrement
        <2>5. Left(c, i)'
            BY <1>6, <1>7, <1>9, <1>10, <1>11, <1>12, <2>3, <2>4, LeftGrows
        <2> QED
            BY <1>13, <2>1, <2>5
    <1>18. CASE Arithmetic(c, r)
        <2>1. r.type = "ADD" /\ Transactional(program[c]) /\ i = 5 /\ ~Sets(program[c])
            BY <1>2, <1>3, <1>8, <1>18, CountedRequest, ProgramsStay, ScriptRequests
            DEF Arithmetic, Serve, Receive, ArithmeticTypes, Counts, CurrentRequest
        <2>2. CASE OperationFails(c)
            BY <1>2, <1>4, <2>2, NotServed
        <2>3. CASE ~OperationFails(c)
            <3>1. PICK s \in StackState : s = client_stack[c]
                BY <1>2 DEF TypeOK
            <3>2. s.stk = <<One.value, held>> /\ transaction_mode[c]
                BY <1>9, <1>12, <2>1, <3>1 DEF Left, LeftByIncrement
            <3>3. PICK v : v = to_string(operation("ADD", val1(s), val2(s)))
                OBVIOUS
            <3>4. /\ client_stack'[c] = push(after_pop_two(s), v)
                  /\ Respond(c, Plain("OK")) /\ UNCHANGED transaction_mode
                BY <1>2, <1>18, <2>1, <2>3, <3>1, <3>3 DEF Arithmetic, transaction
            <3>5. after_pop_two(s).stk = << >> /\ v = to_string(held.n + 1)
                <4>1. One.value.n = 1
                    BY DEF One, Msg, to_string
                <4>2. /\ after_pop_two(s).stk = << >> /\ held \in String
                      /\ operation("ADD", val1(s), val2(s)) = One.value.n + held.n
                    BY <3>2, TwoPopped
                <4>3. 1 + held.n = held.n + 1
                    BY <4>2 DEF String
                <4> QED
                    BY <3>3, <4>1, <4>2, <4>3
            <3>6. <<v>> \o << >> = <<v>>
                OBVIOUS
            <3>7. stack1 = <<to_string(held.n + 1)>>
                BY <1>11, <3>4, <3>5, <3>6 DEF push
            <3>8. Left(c, i)'
                BY <1>6, <1>7, <1>9, <1>10, <1>11, <1>12, <2>1, <3>2, <3>4, <3>7, LeftGrows
            <3> QED
                BY <1>13, <3>4, <3>8
        <2> QED
            BY <2>2, <2>3
    <1>19. CASE FindTable(c, r)
        <2>1. CASE find_table(r.table) = NULL
            BY <1>2, <1>19, <2>1, NotServed DEF FindTable
        <2>2. CASE find_table(r.table) # NULL
            <3>1. /\ pc'[c] = "locking" /\ r.type \in {"GET", "SET"}
                  /\ UNCHANGED <<client_stack, transaction_mode>>
                BY <1>2, <1>19, <2>2 DEF FindTable, Goto, Serve, Receive, session, transaction
            <3>2. i # 4 \/ Transactional(program[c])
                BY <1>2, <1>3, <1>8, <3>1, CountedRequest DEF Counts
            <3> QED
                BY <1>4, <1>14, <3>1, <3>2 DEF Outcome
        <2> QED
            BY <2>1, <2>2
    <1>20. CASE Begin(c, r)
        <2>1. /\ r.type = "BEGIN" /\ Respond(c, Plain("OK")) /\ transaction_mode'[c]
              /\ UNCHANGED client_stack
            BY <1>2, <1>20 DEF Begin, Serve, Receive, session
        <2>2. i = 2 /\ stack1 = stack /\ Transactional(program[c]) /\ ~Sets(program[c])
            BY <1>2, <1>3, <1>8, <1>10, <1>11, <2>1, CountedRequest DEF Counts
        <2>3. Left(c, i)'
            BY <1>6, <1>7, <1>9, <1>10, <1>11, <1>12, <2>1, <2>2, LeftGrows
        <2> QED
            BY <1>13, <2>1, <2>3
    <1>21. CASE Commit(c, r)
        <2>1. /\ r.type = "COMMIT" /\ pc'[c] = "committing"
              /\ UNCHANGED <<client_stack, transaction_mode>>
            BY <1>2, <1>21 DEF Commit, Goto, Serve, Receive, session, transaction
        <2>2. i = 7 /\ Transactional(program[c])
            BY <1>2, <1>3, <1>8, <2>1, CountedRequest DEF Counts
        <2>3. locked_tables'[c] # {}
            BY <1>7, <1>9, <2>2 DEF Left, LeftByIncrement
        <2> QED
            BY <1>4, <1>14, <2>1, <2>2, <2>3 DEF Outcome
    <1>22. CASE Bye(c, r)
        <2>1. /\ r.type = "BYE" /\ RespondLast(c, Plain("OK"))
              /\ UNCHANGED <<client_stack, transaction_mode>>
            BY <1>22 DEF Bye, Serve, Receive, session, transaction
        <2>2. /\ Sets(program[c]) => i = 4 /\ ~Transactional(program[c])
              /\ Transactional(program[c]) => i = 8 /\ stack1 = stack
              /\ step[c] = Len(Script(program[c]))
            BY <1>2, <1>3, <1>8, <1>10, <1>11, <2>1, CountedRequest DEF Counts
        <2>3. Sets(program[c]) => Settled(c)'
            BY <1>4, <1>9, <2>2, SettledStays DEF Left, LeftBySetting
        <2>4. Left(c, i)'
            BY <1>6, <1>7, <1>9, <1>10, <1>11, <1>12, <2>2, <2>3, LeftGrows
        <2> QED
            BY <1>13, <2>1, <2>2, <2>4
    <1>23. CASE Unexpected(c, r) \/ Pop(c, r) \/ Top(c, r) \/ Create(c, r)
        BY <1>2, <1>3, <1>23, CountedRequest, ProgramsStay, ScriptRequests
        DEF Unexpected, Pop, Top, Create, Serve, Receive, Counts, CurrentRequest, Sets,
            Transactional
    <1> QED
        BY <1>4, <1>15, <1>16, <1>17, <1>18, <1>19, <1>20, <1>21, <1>22, <1>23 DEF Handle

(* What a thread at work knows. *)
LEMMA AtWork ==
    ASSUME IInv, ClientsInv, SessionInv, CountInv, NEW c \in Conns, ServerStep(c), Counts(c),
           pc[c] \in Accessing \cup {"committing"}
    PROVE  /\ TypeOK /\ ControlInv /\ Session(c) /\ step[c] \in DOMAIN Script(program[c])
           /\ keep_going[c] /\ request[c] = CurrentRequest(c)
           /\ pc[c] \in {"locking", "working", "finishing"}
                 => /\ cur_table[c] \in TableId
                    /\ cur_table[c] = find_table(program[c].table)
                    /\ request[c].type \in {"GET", "SET"} /\ request[c].key = program[c].key
           /\ program[c].key \in Keys
           /\ UNCHANGED <<program, phase, step, server_tables>>
           /\ phase[c] \in {"awaiting", "killed"}
           /\ wire[c] = NULL
           /\ phase[c] = "awaiting" => answer[c] = NULL
           /\ pc[c] \in {"locking", "working"} => LeftBefore(c)
    <1>1. (Input(c) \/ Thread(c)) /\ process = "running"
        BY ServerStepIsOne, RunningStep
    <1>2. /\ TypeOK /\ ControlInv /\ Session(c) /\ Conversation(c) /\ phase[c] \in Phases
          /\ step[c] \in DOMAIN Script(program[c]) /\ program[c] \in Program
        BY <1>1, ProgramsStay DEF SessionInv, IInv, CountInv, ClientsInv
    <1>3. UNCHANGED <<program, phase, step, server_tables>>
        BY DirectoryStays DEF ServerStep, Accepted, Arrive, HangUp, Work, Answer, BreakPipe
    <1>4. /\ keep_going[c] /\ request[c] = CurrentRequest(c) /\ wire[c] = NULL
          /\ pc[c] \in Accessing => CurrentRequest(c).type \in {"GET", "SET"}
        BY <1>2 DEF Session, Accessing
    <1>5. pc[c] \in {"locking", "working", "finishing"}
             => cur_table[c] \in TableId /\ cur_table[c] = find_table(program[c].table)
        BY <1>2, NamesAssumption DEF Session, ControlInv
    <1>6. CurrentRequest(c).type \in {"GET", "SET"} => CurrentRequest(c).key = program[c].key
        BY <1>2, ScriptRequests DEF CurrentRequest
    <1>7. phase[c] \in {"awaiting", "killed"} /\ (phase[c] = "awaiting" => answer[c] = NULL)
        BY <1>2 DEF Conversation, Phases, Accessing
    <1>8. pc[c] \in {"locking", "working"} => LeftBefore(c)
        BY <1>1 DEF CountInv, Progress, Before
    <1> QED
        BY <1>2, <1>3, <1>4, <1>5, <1>6, <1>7, <1>8 DEF Accessing, Program

LEMMA LockOutcome ==
    ASSUME IInv, ClientsInv, SessionInv, CountInv, NEW c \in Conns, ServerStep(c), Counts(c),
           Lock(c) \/ LockHeld(c) \/ Trylock(c)
    PROVE  Outcome(c)'
    <1>1. pc[c] = "locking"
        BY DEF Lock, LockHeld, Trylock, At
    <1>2. /\ TypeOK /\ Session(c) /\ step[c] \in DOMAIN Script(program[c])
          /\ request[c] = CurrentRequest(c) /\ request[c].type \in {"GET", "SET"}
          /\ UNCHANGED <<program, step, server_tables>>
          /\ program[c].key \in Keys
          /\ LeftBefore(c)
        BY <1>1, AtWork DEF Accessing
    <1>3. PICK t \in TableId : t = cur_table[c] /\ t = find_table(program[c].table)
        BY <1>1, AtWork DEF Accessing
    <1>4. find_table(program[c].table)' = t
        BY <1>2, <1>3 DEF find_table
    <1>5. PICK i \in 1 .. 8 : i = step[c]
        BY <1>2, CountedRequest DEF Counts
    <1>6. i - 1 \in 0 .. 8 /\ Left(c, i - 1)
        BY <1>2, <1>5 DEF LeftBefore
    <1>7. /\ Sets(program[c]) => i = 3 /\ ~Transactional(program[c])
          /\ Transactional(program[c]) => i \in {3, 6} /\ transaction_mode[c]
        <2>1. /\ Sets(program[c]) => i = 3 /\ ~Transactional(program[c])
              /\ Transactional(program[c]) => i \in {3, 6}
            BY <1>2, <1>5, CountedRequest
        <2> QED
            BY <1>6, <2>1 DEF Left, LeftByIncrement
    <1>8. UNCHANGED <<tables, client_stack, transaction_mode>>
        BY DEF Lock, LockHeld, Trylock, store, session, transaction
    <1>9. pc'[c] = IF Trylock(c) /\ ~CanLock(t) THEN "rolling" ELSE "working"
        BY <1>2, <1>3 DEF Lock, LockHeld, Trylock, Goto, TypeOK
    <1>10. CASE Trylock(c) /\ ~CanLock(t)
        BY <1>9, <1>10 DEF Outcome
    <1>11. CASE Trylock(c) /\ CanLock(t)
        <2>1. /\ t \notin locked_tables[c]
              /\ tables[t].tempMap[program[c].key] = Absent
            BY <1>2, <1>3, <1>11
            DEF Trylock, CanLock, IInv, UnlockedTablesAreClean, Clean, EmptyMap
        <2>2. Transactional(program[c]) => i = 3
            BY <1>3, <1>6, <1>7, <2>1 DEF Left, LeftByIncrement
        <2>3. Left(c, i - 1)'
            <3>1. Sets(program[c]) => LeftBySetting(c, i - 1)'
                BY <1>2, <1>6, <1>7, <1>8 DEF Left, LeftBySetting
            <3>2. Transactional(program[c]) => LeftByIncrement(c, i - 1)'
                <4>1. ASSUME Transactional(program[c]) PROVE LeftByIncrement(c, 2)
                    BY <1>6, <2>2, <4>1 DEF Left
                <4>2. Transactional(program[c]) => LeftByIncrement(c, 2)'
                    BY <1>2, <1>3, <1>4, <1>8, <2>1, <4>1 DEF LeftByIncrement
                <4> QED
                    BY <2>2, <4>2
            <3> QED
                BY <1>2, <3>1, <3>2 DEF Left
        <2> QED
            BY <1>2, <1>5, <1>9, <1>11, <2>3 DEF Outcome, LeftBefore
    <1>12. CASE Lock(c) \/ LockHeld(c)
        <2>1. UNCHANGED locked_tables /\ pc'[c] = "working"
            BY <1>9, <1>12, <1>2 DEF Lock, LockHeld, Trylock, Goto, TypeOK, transaction
        <2>2. Left(c, i - 1)'
            BY <1>2, <1>6, <1>7, <1>8, <2>1, LeftIsKept
        <2> QED
            BY <1>2, <1>5, <2>1, <2>2 DEF Outcome, LeftBefore
    <1> QED
        BY <1>10, <1>11, <1>12

LEMMA GetOutcome ==
    ASSUME IInv, ClientsInv, SessionInv, CountInv, NEW c \in Conns, ServerStep(c), Counts(c),
           Get(c)
    PROVE  Outcome(c)'
    <1>1. pc[c] = "working" /\ request[c].type = "GET" /\ AfterAccess(c)
        BY DEF Get, At
    <1>2. /\ TypeOK /\ ControlInv /\ Session(c) /\ step[c] \in DOMAIN Script(program[c])
          /\ request[c] = CurrentRequest(c) /\ request[c].key = program[c].key
          /\ UNCHANGED <<program, step, server_tables>>
          /\ LeftBefore(c) /\ keep_going[c]
        BY <1>1, AtWork DEF Accessing
    <1>3. PICK t \in TableId : t = cur_table[c] /\ t = find_table(program[c].table)
        BY <1>1, AtWork DEF Accessing
    <1>4. PICK k \in Keys : k = program[c].key
        BY <1>1, AtWork DEF Accessing
    <1>5. find_table(program[c].table)' = t
        BY <1>2, <1>3 DEF find_table
    <1>6. step[c] = 3 /\ Transactional(program[c]) /\ ~Sets(program[c])
        BY <1>1, <1>2, CountedRequest DEF Counts
    <1>7. client_stack[c].stk = << >> /\ transaction_mode[c]
        BY <1>2, <1>6 DEF LeftBefore, Left, LeftByIncrement
    <1>8. t \in locked_tables[c] /\ tables[t].tempMap[k] = Absent
        <2>1. t \in locked_tables[c]
            BY <1>1, <1>2, <1>3, <1>7 DEF ControlInv
        <2> QED
            BY <1>2, <1>3, <1>4, <1>6, <2>1 DEF LeftBefore, Left, LeftByIncrement
    <1>9. UNCHANGED <<transaction_mode, locked_tables>>
        BY DEF Get, transaction
    <1>10. PICK tb \in TableState : tb = tables[t]
        BY <1>2 DEF TypeOK, ServerTypeOK
    <1>11. PICK new : new = get_effect(tb, k)
        OBVIOUS
    <1>12. tables'[t] = new /\ client_stack'[c] = push(client_stack[c], get(tb, k))
        BY <1>2, <1>3, <1>4, <1>10, <1>11 DEF Get, TypeOK, ServerTypeOK
    <1>13. get(tb, k) = new.theMap[k] /\ new.tempMap[k] = Absent
        BY <1>8, <1>10, <1>11 DEF get, get_effect, has_key, TableState, Map
    <1>14. PICK v : v = get(tb, k)
        OBVIOUS
    <1>15. client_stack'[c].stk = <<v>>
        <2>1. <<v>> \o << >> = <<v>>
            OBVIOUS
        <2> QED
            BY <1>7, <1>12, <1>14, <2>1 DEF push
    <1>16. LeftAfter(c)'
        <2>1. v = new.theMap[k]
            BY <1>13, <1>14
        <2>2. LeftByIncrement(c, 3)'
            BY <1>2, <1>4, <1>5, <1>7, <1>8, <1>9, <1>12, <1>13, <1>15, <2>1
            DEF LeftByIncrement
        <2> QED
            BY <1>2, <1>6, <2>2 DEF LeftAfter, Left
    <1>17. pc'[c] = "replying" /\ keep_going'[c]
        BY <1>1, <1>2, <1>7 DEF AfterAccess, Respond, Goto, TypeOK
    <1> QED
        BY <1>16, <1>17 DEF Outcome

LEMMA SetOutcome ==
    ASSUME IInv, ClientsInv, SessionInv, CountInv, NEW c \in Conns, ServerStep(c), Counts(c),
           Set(c)
    PROVE  Outcome(c)'
    <1>1. pc[c] = "working" /\ request[c].type = "SET"
        BY DEF Set, At
    <1>2. /\ TypeOK /\ ControlInv /\ Session(c) /\ step[c] \in DOMAIN Script(program[c])
          /\ request[c] = CurrentRequest(c) /\ request[c].key = program[c].key
          /\ UNCHANGED <<program, step, server_tables>>
          /\ LeftBefore(c) /\ keep_going[c]
        BY <1>1, AtWork DEF Accessing
    <1>3. PICK t \in TableId : t = cur_table[c] /\ t = find_table(program[c].table)
        BY <1>1, AtWork DEF Accessing
    <1>4. PICK k \in Keys : k = program[c].key
        BY <1>1, AtWork DEF Accessing
    <1>5. find_table(program[c].table)' = t
        BY <1>2, <1>3 DEF find_table
    <1>6. /\ Sets(program[c]) => step[c] = 3 /\ ~Transactional(program[c])
          /\ Transactional(program[c]) => step[c] = 6 /\ ~Sets(program[c])
        BY <1>1, <1>2, CountedRequest
    <1>7. UNCHANGED <<transaction_mode, locked_tables>>
        BY DEF Set, transaction
    <1>8. PICK tb \in TableState : tb = tables[t]
        BY <1>2 DEF TypeOK, ServerTypeOK
    <1>9. PICK v : v = get_top(client_stack[c])
        OBVIOUS
    <1>10. tables'[t] = set(tb, k, v) /\ AfterAccess(c)
        <2>1. ~is_empty(client_stack[c])
            BY <1>1, <1>2 DEF Session, Prepared
        <2> QED
            BY <1>2, <1>3, <1>4, <1>8, <1>9, <2>1 DEF Set, TypeOK, ServerTypeOK
    <1>11. tables'[t].tempMap[k] = v /\ tables'[t].theMap = tb.theMap
        BY <1>8, <1>10 DEF set, TableState, Map
    <1>12. CASE Sets(program[c])
        <2>1. ~transaction_mode[c]
            BY <1>2, <1>6, <1>12 DEF Session
        <2>2. pc'[c] = "finishing"
            BY <1>2, <1>10, <2>1 DEF AfterAccess, Goto, TypeOK
        <2>3. client_stack[c].stk = <<program[c].value>>
            BY <1>2, <1>6, <1>12 DEF LeftBefore, Left, LeftBySetting
        <2>4. v = program[c].value
            BY <1>9, <2>3 DEF get_top
        <2>5. /\ program'[c] = program[c]
              /\ tables'[find_table(program[c].table)'].tempMap[program[c].key] = program[c].value
            BY <1>2, <1>4, <1>5, <1>11, <2>4
        <2>6. ~Transactional(program'[c])
            BY <1>2, <1>6, <1>12
        <2> QED
            BY <2>2, <2>5, <2>6 DEF Outcome
    <1>13. CASE Transactional(program[c])
        <2>1. /\ transaction_mode[c] /\ t \in locked_tables[c]
              /\ client_stack[c].stk = <<to_string(tb.theMap[k].n + 1)>>
            BY <1>2, <1>3, <1>4, <1>6, <1>8, <1>13 DEF LeftBefore, Left, LeftByIncrement
        <2>2. v = to_string(tb.theMap[k].n + 1)
            BY <1>9, <2>1 DEF get_top
        <2>3. pc'[c] = "replying" /\ keep_going'[c]
            BY <1>2, <1>10, <2>1 DEF AfterAccess, Respond, Goto, TypeOK
        <2>4. LeftByIncrement(c, 6)'
            BY <1>2, <1>4, <1>5, <1>7, <1>11, <2>1, <2>2 DEF LeftByIncrement
        <2>5. LeftAfter(c)'
            BY <1>2, <1>6, <1>13, <2>4 DEF LeftAfter, Left
        <2> QED
            BY <2>3, <2>5 DEF Outcome
    <1> QED
        BY <1>12, <1>13 DEF Counts

(* The set_value stores its number before any increment starts. *)
LEMMA AutoCommitOutcome ==
    ASSUME IInv, ClientsInv, SessionInv, CountInv, Orderly(program), NEW c \in Conns,
           ServerStep(c), Counts(c), AutoCommit(c)
    PROVE  Outcome(c)'
    <1>1. pc[c] = "finishing" /\ process = "running"
        BY DEF AutoCommit, At
    <1>2. /\ TypeOK /\ Session(c) /\ step[c] \in DOMAIN Script(program[c])
          /\ request[c] = CurrentRequest(c) /\ request[c].type \in {"GET", "SET"}
          /\ UNCHANGED <<program, phase, step, server_tables>>
          /\ phase[c] \in {"awaiting", "killed"} /\ keep_going[c]
        BY <1>1, AtWork DEF Accessing
    <1>3. PICK t \in TableId : t = cur_table[c] /\ t = find_table(program[c].table)
        BY <1>1, AtWork DEF Accessing
    <1>4. PICK p \in Program : p = program[c]
        BY ProgramsStay
    <1>5. PICK k \in Keys : k = p.key
        BY DEF Program
    <1>6. Sets(p) /\ ~Transactional(p) /\ tables[t].tempMap[k] = p.value
        BY <1>1, <1>3, <1>4, <1>5 DEF CountInv, Progress, Counts
    <1>7. step[c] = 3
        BY <1>2, <1>4, <1>6, CountedRequest
    <1>8. find_table(program[c].table)' = t /\ t # NULL
        BY <1>2, <1>3, NamesAssumption DEF find_table
    <1>9. tables'[t].theMap[k] = p.value
        <2>1. tables'[t] = commit_changes(tables[t])
            BY <1>2, <1>3 DEF AutoCommit, TypeOK, ServerTypeOK
        <2>2. p.value # Absent
            BY <1>4, <1>6 DEF Sets, Absent
        <2> QED
            BY <1>6, <2>1, <2>2 DEF commit_changes, Overlay
    <1>10. pc'[c] = "replying" /\ response'[c] = Plain("OK") /\ keep_going'[c]
        BY <1>2 DEF AutoCommit, Respond, Goto, TypeOK
    <1>11. ASSUME phase[c] = "awaiting"
           PROVE  LeftAfter(c)'
        <2>1. ~Gone(c)
            BY <1>11 DEF Gone, Ended
        <2>2. ASSUME NEW d \in Increments(p)
              PROVE  step[d] = 1
            <3>1. /\ d \in Conns /\ program[d].main = "incr_value"
                  /\ program[d].table = p.table /\ program[d].key = p.key
                BY DEF Increments
            <3>2. c \in program[d].after
                BY <1>4, <1>6, <3>1, Rivals DEF Sets
            <3> QED
                BY <2>1, <3>1, <3>2 DEF CountInv
        <2>3. Applied(program[c])' = {}
            BY <1>2, <1>4, <2>2 DEF Applied, Increments, HasApplied
        <2>4. Cardinality(Applied(program[c])') = 0
            BY <2>3, FS_EmptySet
        <2>5. p.value.n \in Int /\ p.value = to_string(p.value.n)
            BY <1>6, SettingScript DEF String
        <2>6. p.value = to_string(p.value.n + Cardinality(Applied(program[c])'))
            BY <2>4, <2>5
        <2>7. Settled(c)'
            BY <1>2, <1>4, <1>5, <1>8, <1>9, <2>6 DEF Settled
        <2> QED
            BY <1>2, <1>4, <1>6, <1>7, <2>7 DEF LeftAfter, Left, LeftBySetting
    <1> QED
        BY <1>2, <1>10, <1>11 DEF Outcome

LEMMA CommitOutcome ==
    ASSUME IInv, ClientsInv, SessionInv, CountInv, NEW c \in Conns, ServerStep(c), Counts(c),
           (\E t \in TableId : CommitTable(c, t)) \/ Committed(c)
    PROVE  Outcome(c)'
    <1>1. pc[c] = "committing" /\ process = "running"
        BY DEF CommitTable, Committed, At
    <1>2. /\ TypeOK /\ Session(c) /\ step[c] \in DOMAIN Script(program[c])
          /\ UNCHANGED <<program, phase, step, server_tables>> /\ keep_going[c]
        BY <1>1, AtWork
    <1>3. find_table(program[c].table)' = find_table(program[c].table)
        BY <1>2 DEF find_table
    <1>4. Transactional(program[c]) /\ step[c] = 7 /\ ~Sets(program[c])
        <2>1. CurrentRequest(c).type = "COMMIT"
            BY <1>1, <1>2 DEF Session
        <2> QED
            BY <1>2, <2>1, CountedRequest DEF Counts
    <1>5. CASE \E t \in TableId : CommitTable(c, t)
        <2>1. PICK t \in TableId : CommitTable(c, t)
            BY <1>5
        <2>2. /\ t = find_table(program[c].table) /\ m_mutex'[t] = NULL
              /\ locked_tables'[c] = {}
            BY <2>1, CommitCounts
        <2>3. LeftByIncrement(c, 7)'
            BY <1>2, <1>3, <2>2, NamesAssumption DEF LeftByIncrement
        <2>4. LeftAfter(c)'
            BY <1>2, <1>4, <2>3 DEF LeftAfter, Left
        <2>5. pc'[c] = "committing"
            BY <1>1, <2>1 DEF CommitTable
        <2> QED
            BY <2>2, <2>4, <2>5 DEF Outcome
    <1>6. CASE Committed(c)
        <2>1. /\ locked_tables[c] = {} /\ UNCHANGED m_mutex
              /\ pc'[c] = "replying" /\ keep_going'[c]
            BY <1>2, <1>6 DEF Committed, Respond, Goto, TypeOK, store
        <2>2. LeftByIncrement(c, 7)
            BY <1>1, <1>4, <2>1 DEF CountInv, Progress, After, LeftAfter, Left
        <2>3. LeftByIncrement(c, 7)'
            BY <1>2, <1>3, <2>1, <2>2 DEF LeftByIncrement
        <2>4. LeftAfter(c)'
            BY <1>2, <1>4, <2>3 DEF LeftAfter, Left
        <2> QED
            BY <2>1, <2>4 DEF Outcome
    <1> QED
        BY <1>5, <1>6

LEMMA RollbackOutcome ==
    ASSUME TypeOK, NEW c \in Conns,
           (\E t \in TableId : RollbackTable(c, t)) \/ RolledBack(c)
    PROVE  Outcome(c)'
    <1>1. CASE \E t \in TableId : RollbackTable(c, t)
        BY <1>1 DEF RollbackTable, At, Outcome
    <1>2. CASE RolledBack(c)
        BY <1>2, NotServed DEF RolledBack
    <1> QED
        BY <1>1, <1>2

-----------------------------------------------------------------------------
(* Every step keeps the programs' progress.                                  *)

(* The program is sent the answer, or none is waited for any more.           *)
LEMMA AnswerProgress ==
    ASSUME IInv, ClientsInv, SessionInv, CountInv, Orderly(program), IsFiniteSet(Conns),
           NEW c \in Conns, ServerStep(c), Answer(c), Counts(c)
    PROVE  Progress(c)'
    <1>1. /\ pc[c] = "replying" /\ process = "running"
          /\ Reply(c) \/ ReplyAndClose(c)
        <2>1. pc[c] = "replying" /\ Thread(c)
            BY DEF Answer
        <2> QED
            BY <2>1 DEF Thread, CreateTable, Lock, LockHeld, Trylock, Get, Set, AutoCommit,
                        CommitTable, RollbackTable, Committed, RolledBack, Reply,
                        ReplyAndClose, At
    <1>2. /\ TypeOK /\ Session(c) /\ Conversation(c) /\ Progress(c)
          /\ step[c] \in DOMAIN Script(program[c])
        BY <1>1 DEF IInv, SessionInv, ClientsInv, CountInv
    <1>3. /\ UNCHANGED <<program, phase, step, wire, server_tables, tables, m_mutex, process>>
          /\ wire[c] = NULL
        BY <1>1, <1>2 DEF Answer, Reply, ReplyAndClose, store, Session
    <1>4. pc'[c] \in {"reading", "closed"}
        BY <1>1, <1>2 DEF Reply, ReplyAndClose, Goto, TypeOK
    <1>5. phase[c] \notin {"idle", "sending"}
        BY <1>1, <1>2, <1>3 DEF Conversation
    <1>6. phase[c] = "awaiting" => answer'[c] = response[c]
        BY DEF Answer, Gone, Ended, ClientsInv
    <1>7. ~Before(c)'
        BY <1>3, <1>4, <1>5 DEF Before
    <1>8. ASSUME After(c)' PROVE Replied(c) \/ phase[c] = "succeeded"
        <2>1. \A m : IsGood(c, m)' <=> IsGood(c, m)
            BY <1>3 DEF IsGood, CurrentRequest
        <2> QED
            BY <1>1, <1>3, <1>4, <1>6, <1>8, <2>1 DEF After, Replied
    <1>9. ASSUME After(c)' PROVE LeftAfter(c)'
        <2>1. LeftAfter(c)
            BY <1>2, <1>8, <1>9 DEF After, Progress
        <2>2. PICK i \in 1 .. 8 : i = step[c]
            BY <1>2, CountedRequest DEF Counts
        <2>3. Left(c, i)
            BY <2>1, <2>2 DEF LeftAfter
        <2>4. find_table(program[c].table)' = find_table(program[c].table)
            BY <1>3 DEF find_table
        <2>5. Sets(program[c]) /\ i \in 3 .. 4 => Settled(c)'
            BY <1>1, <2>3, SettledStays DEF Left, LeftBySetting
        <2>6. CASE Reply(c)
            <3>1. UNCHANGED <<client_stack, transaction_mode, locked_tables>>
                BY <2>6 DEF Reply, session, transaction
            <3>2. Left(c, i)'
                BY <1>3, <2>2, <2>3, <2>5, <3>1, LeftIsKept
            <3> QED
                BY <1>3, <2>2, <3>2 DEF LeftAfter
        <2>7. CASE ReplyAndClose(c)
            <3>1. i = Len(Script(program[c]))
                BY <1>2, <1>8, <1>9, <2>2, <2>7 DEF ReplyAndClose, Progress
            <3>2. /\ Sets(program[c]) => i = 4
                  /\ Transactional(program[c]) => i = 8
                BY <1>2, <3>1, CountedRequest
            <3>3. Left(c, i)'
                <4>1. Counts(c)
                    OBVIOUS
                <4> QED
                    BY <1>3, <2>2, <2>3, <2>5, <3>2, <4>1, LeftIsKept DEF Counts, Sets, Transactional
            <3> QED
                BY <1>3, <2>2, <3>3 DEF LeftAfter
        <2> QED
            BY <1>1, <2>6, <2>7
    <1>10. phase'[c] = "succeeded" => step'[c] = Len(Script(program'[c]))
        BY <1>2, <1>3 DEF Progress
    <1>11. ~Replied(c)'
        BY <1>4 DEF Replied
    <1> QED
        BY <1>3, <1>4, <1>5, <1>7, <1>9, <1>10, <1>11 DEF Progress

(* The connection is accepted, or ends without a request. *)
LEMMA ConnectionProgress ==
    ASSUME IInv, ClientsInv, SessionInv, CountInv, Orderly(program), IsFiniteSet(Conns),
           NEW c \in Conns, ServerStep(c), Counts(c), Accepted(c) \/ HangUp(c)
    PROVE  Progress(c)'
    <1>1. process = "running" /\ pc[c] \in {"unconnected", "reading"}
        BY DEF Accepted, Accept, HangUp, NoRequest, At
    <1>2. /\ TypeOK /\ Session(c) /\ Conversation(c) /\ Progress(c)
          /\ step[c] \in DOMAIN Script(program[c])
        BY <1>1 DEF IInv, SessionInv, ClientsInv, CountInv
    <1>3. UNCHANGED <<program, phase, step, wire, answer, server_tables, tables, m_mutex, process,
                      client_stack, transaction_mode, locked_tables>>
        BY DEF Accepted, Accept, HangUp, NoRequest, RespondLast, store, session, transaction
    <1>4. /\ Accepted(c) => pc'[c] = "reading"
          /\ HangUp(c) => /\ pc'[c] = "replying" /\ response'[c].type = "ERROR"
                          /\ wire[c] = NULL
        BY <1>2 DEF Accepted, Accept, HangUp, NoRequest, RespondLast, Goto, TypeOK, Plain, Msg
    <1>5. Before(c)' => Before(c)
        BY <1>1, <1>3, <1>4 DEF Before
    <1>6. /\ \A m : IsGood(c, m)' <=> IsGood(c, m)
          /\ IsGood(c, response'[c]) => response'[c].type = "OK"
        BY <1>2, <1>3, OnlyOKIsGood DEF IsGood, CurrentRequest
    <1>7. (After(c)' => After(c)) /\ ~Replied(c)'
        BY <1>1, <1>3, <1>4, <1>6 DEF After, Replied
    <1>8. find_table(program[c].table)' = find_table(program[c].table)
        BY <1>3 DEF find_table
    <1>9. ASSUME NEW i \in 0 .. 8, Left(c, i) PROVE Left(c, i)'
        <2>1. Sets(program[c]) /\ i \in 3 .. 4 => Settled(c)'
            BY <1>1, <1>9, SettledStays DEF Left, LeftBySetting
        <2> QED
            BY <1>3, <1>9, <2>1, LeftIsKept
    <1>10. (Before(c)' => LeftBefore(c)') /\ (After(c)' => LeftAfter(c)')
        BY <1>2, <1>3, <1>5, <1>7, <1>9 DEF Progress, LeftBefore, LeftAfter
    <1> QED
        BY <1>2, <1>3, <1>4, <1>7, <1>10 DEF Progress

LEMMA ServerProgress ==
    ASSUME IInv, ClientsInv, SessionInv, CountInv, Orderly(program), IsFiniteSet(Conns),
           NEW c \in Conns, ServerStep(c), Counts(c)
    PROVE  Progress(c)'
    <1>1. process = "running" /\ (Input(c) \/ Thread(c))
        BY ServerStepIsOne, RunningStep
    <1>2. /\ TypeOK /\ Session(c) /\ Conversation(c)
          /\ step[c] \in DOMAIN Script(program[c])
        BY <1>1 DEF IInv, SessionInv, ClientsInv, CountInv
    <1>3. UNCHANGED <<program, phase, step>>
        BY DEF ServerStep, Accepted, Arrive, HangUp, Work, Answer, BreakPipe
    <1>4. CASE Arrive(c)
        <2>1. wire[c] # NULL /\ wire'[c] = NULL /\ answer'[c] = answer[c]
            BY <1>4 DEF Arrive, ClientsInv
        <2>2. pc[c] = "reading"
            BY <1>2, <1>4, HandleStep, NoRequestStep DEF Arrive
        <2>3. Outcome(c)'
            <3>1. CASE is_valid(wire[c])
                BY <1>4, <3>1, HandledOutcome
            <3>2. CASE ~is_valid(wire[c])
                BY <1>2, <1>4, <3>2, NotServed DEF Arrive, NoRequest
            <3> QED
                BY <3>1, <3>2
        <2> QED
            BY <1>1, <1>2, <1>3, <2>1, <2>2, <2>3, Asked, OutcomeSuffices
    <1>5. CASE Work(c)
        <2>1. Thread(c) /\ pc[c] # "replying" /\ UNCHANGED <<wire, answer>>
            BY <1>5 DEF Work
        <2>2. pc[c] \in Accessing \cup {"committing"} /\ ~CreateTable(c)
              /\ ~Reply(c) /\ ~ReplyAndClose(c)
            BY <1>2, <2>1
            DEF Thread, CreateTable, Lock, LockHeld, Trylock, Get, Set, AutoCommit, CommitTable,
                RollbackTable, Committed, RolledBack, Reply, ReplyAndClose, At, Session, Accessing
        <2>3. Outcome(c)'
            BY <1>2, <2>1, <2>2, LockOutcome, GetOutcome, SetOutcome, AutoCommitOutcome,
               CommitOutcome, RollbackOutcome
            DEF Thread
        <2>4. /\ phase[c] \in {"awaiting", "killed"}
              /\ wire[c] = NULL
              /\ phase[c] = "awaiting" => answer[c] = NULL
            BY <2>2, AtWork
        <2> QED
            BY <1>2, <1>3, <2>1, <2>3, <2>4, OutcomeSuffices
    <1>6. CASE BreakPipe(c)
        <2>1. /\ pc[c] = "replying" /\ process' # "running" /\ pc' = pc
              /\ UNCHANGED <<wire, answer>> /\ reset[c]
            BY <1>6 DEF BreakPipe, ReplyToDeadPeer, At, Dies
        <2>2. phase[c] = "killed" /\ wire[c] = NULL
            BY <1>2, <2>1 DEF Conversation, Session
        <2>3. Outcome(c)'
            BY <2>1 DEF Outcome
        <2> QED
            BY <1>2, <1>3, <2>1, <2>2, <2>3, OutcomeSuffices
    <1> QED
        BY <1>4, <1>5, <1>6, ConnectionProgress, AnswerProgress DEF ServerStep

(* Pending changes stay those of the holder. *)
LEMMA PendingStays ==
    ASSUME IInv, IInv', SessionInv, CountInv, NEW c \in Conns, ServerStep(c)
    PROVE  PendingIsOwn'
    <1>1. (Input(c) \/ Thread(c)) /\ process = "running"
        BY ServerStepIsOne, RunningStep
    <1>2. UNCHANGED <<program, server_tables>>
        BY DirectoryStays DEF ServerStep, Accepted, Arrive, HangUp, Work, Answer, BreakPipe
    <1>3. SUFFICES ASSUME NEW t \in TableId, NEW k \in Keys, tables'[t].tempMap[k] # Absent
                   PROVE  \E d \in Conns :
                             /\ m_mutex'[t] = d /\ program[d].main # "get_value"
                             /\ t = find_table(program[d].table) /\ k = program[d].key
        BY <1>2 DEF PendingIsOwn, find_table
    <1>4. /\ TypeOK /\ TypeOK' /\ tables[t] \in TableState /\ Session(c)
          /\ program[c] \in Program
        BY <1>1, ProgramsStay DEF IInv, TypeOK, ServerTypeOK, SessionInv
    <1>5. m_mutex'[t] # NULL
        BY <1>3 DEF IInv, UnlockedTablesAreClean, Clean, EmptyMap
    <1>6. ASSUME NEW d \in Conns, m_mutex[t] = d PROVE m_mutex'[t] = d
        <2>1. PICK e \in Conns : m_mutex'[t] = e
            BY <1>4, <1>5 DEF TypeOK, ServerTypeOK
        <2>2. ASSUME e # d PROVE FALSE
            <3>1. d = c
                BY <1>1, <1>6, <2>1, <2>2, OthersKeep
            <3>2. e = c
                BY <1>1, <1>6, <2>1, <2>2, OthersKeep
            <3> QED
                BY <2>2, <3>1, <3>2
        <2> QED
            BY <2>1, <2>2
    <1>7. CASE tables[t].tempMap[k] # Absent
        BY <1>6, <1>7 DEF CountInv, PendingIsOwn
    <1>8. CASE tables[t].tempMap[k] = Absent
        <2>1. tables'[t] # tables[t]
            BY <1>3, <1>8
        <2>2. m_mutex[t] = c
            BY <1>1, <2>1, TableChange
        <2>3. Set(c) /\ t = cur_table[c] /\ k = request[c].key
            <3>1. ~RollbackTable(c, t)
                BY <1>3, <1>4 DEF RollbackTable, rollback_changes, EmptyMap, TypeOK,
                                  ServerTypeOK, TableState
            <3>2. pc[c] \notin {"finishing", "committing"}
                BY <1>1, <1>3, <1>4, <2>1, CommitChange, CommitType DEF Clean, EmptyMap
            <3>3. (Get(c) \/ Set(c)) /\ t = cur_table[c]
                BY <1>1, <2>1, <3>1, <3>2, TableChange
            <3>4. ~Get(c)
                BY <1>3, <1>4, <1>8, <3>3 DEF Get, get_effect, TypeOK, ServerTypeOK, TableState
            <3>5. ASSUME k # request[c].key PROVE FALSE
                <4>1. PICK v : tables'[t] = set(tables[t], request[c].key, v)
                    BY <1>4, <2>1, <3>3, <3>4 DEF Set, TypeOK, ServerTypeOK
                <4> QED
                    BY <1>3, <1>4, <1>8, <3>5, <4>1 DEF set, TableState, Map
            <3> QED
                BY <3>3, <3>4, <3>5
        <2>4. pc[c] = "working" /\ request[c].type = "SET"
            BY <2>3 DEF Set, At
        <2>5. /\ t = find_table(program[c].table)
              /\ request[c] = CurrentRequest(c) /\ step[c] \in DOMAIN Script(program[c])
            BY <1>4, <2>3, <2>4, NamesAssumption DEF Session, Accessing
        <2>6. k = program[c].key /\ program[c].main # "get_value"
            BY <1>4, <2>3, <2>4, <2>5, ScriptRequests DEF CurrentRequest
        <2> QED
            BY <1>6, <2>2, <2>5, <2>6
    <1> QED
        BY <1>7, <1>8

-----------------------------------------------------------------------------
(* Steps of the programs.  They leave the server alone, and what counts as    *)
(* applied.                                                                   *)

LEMMA ProgramsMove ==
    ASSUME ClientsInv, SessionInv, NEW c \in Conns, ClientStep(c) \/ Kill(c)
    PROVE  /\ UNCHANGED vars /\ UNCHANGED program
           /\ \A d \in Conns \ {c} : /\ phase'[d] = phase[d] /\ step'[d] = step[d]
                                     /\ wire'[d] = wire[d] /\ answer'[d] = answer[d]
           /\ \/ step'[c] = step[c]
              \/ /\ phase[c] = "awaiting" /\ answer[c] # NULL /\ IsGood(c, answer[c])
                 /\ step[c] < Len(Script(program[c])) /\ step'[c] = step[c] + 1
              \/ program[c].main = "get_value"
    <1>1. DOMAIN step = Conns /\ DOMAIN phase = Conns /\ DOMAIN wire = Conns
            /\ DOMAIN answer = Conns
        BY DEF SessionInv, ClientsInv
    <1>2. CASE Start(c) \/ Send(c) \/ Kill(c)
        BY <1>1, <1>2 DEF Start, Send, Kill, Enter
    <1>3. CASE ReadAnswer(c)
        BY <1>1, <1>3 DEF ReadAnswer, Advance, Enter
    <1>4. CASE LoseServer(c)
        BY <1>1, <1>4 DEF LoseServer, Advance, Enter
    <1> QED
        BY <1>2, <1>3, <1>4 DEF ClientStep

LEMMA AppliedUnmoved ==
    ASSUME IInv, ClientsInv, SessionInv, CountInv, NEW c \in Conns, ClientStep(c) \/ Kill(c),
           NEW d \in Conns, Transactional(program[d])
    PROVE  HasApplied(d)' <=> HasApplied(d)
    <1>1. UNCHANGED vars /\ UNCHANGED program
        BY ProgramsMove
    <1>2. UNCHANGED <<server_tables, m_mutex>>
        BY <1>1 DEF vars
    <1>3. PICK t : t = find_table(program[d].table)
        OBVIOUS
    <1>4. find_table(program[d].table)' = t
        BY <1>1, <1>2, <1>3 DEF find_table
    <1>5. CASE step'[d] = step[d]
        BY <1>1, <1>2, <1>3, <1>4, <1>5 DEF HasApplied
    <1>6. CASE step'[d] # step[d]
        <2>1. /\ d = c /\ phase[d] = "awaiting" /\ answer[d] # NULL /\ IsGood(d, answer[d])
              /\ step[d] < Len(Script(program[d])) /\ step'[d] = step[d] + 1
            BY <1>6, ProgramsMove DEF Transactional
        <2>2. step[d] \in 1 .. 7
            <3>1. step[d] \in DOMAIN Script(program[d]) /\ program[d] \in Program
                BY ProgramsStay DEF CountInv, Counts
            <3>2. Len(Script(program[d])) = 8
                BY <3>1, IncrementScript
            <3>3. DOMAIN Script(program[d]) = 1 .. 8
                BY <3>1, <3>2, ScriptShape
            <3> QED
                BY <2>1, <3>1, <3>2, <3>3
        <2>3. ASSUME NEW i \in 0 .. 8, step[d] = i PROVE LeftByIncrement(d, i)
            <3>1. Progress(d) /\ After(d)
                BY <2>1 DEF CountInv, Counts, After
            <3> QED
                BY <2>3, <3>1 DEF Progress, LeftAfter, Left
        <2>4. CASE step[d] = 6
            <3>1. t \in locked_tables[d]
                BY <1>3, <2>3, <2>4 DEF LeftByIncrement
            <3>2. m_mutex[t] = d
                BY <3>1 DEF IInv, LocksAreHeld, WillUnlock, TypeOK
            <3> QED
                BY <1>2, <1>3, <1>4, <2>1, <2>4, <3>2 DEF HasApplied
        <2>5. CASE step[d] = 7
            BY <1>2, <1>3, <1>4, <2>1, <2>3, <2>5 DEF HasApplied, LeftByIncrement
        <2>6. CASE step[d] \in 1 .. 5
            BY <2>1, <2>6 DEF HasApplied
        <2> QED
            BY <2>2, <2>4, <2>5, <2>6
    <1> QED
        BY <1>5, <1>6

LEMMA LeftUnmoved ==
    ASSUME IInv, ClientsInv, SessionInv, CountInv, Orderly(program),
           NEW c \in Conns, ClientStep(c) \/ Kill(c),
           NEW d \in Conns, NEW i \in 0 .. 8, Left(d, i)
    PROVE  Left(d, i)'
    <1>1. UNCHANGED vars /\ UNCHANGED program
        BY ProgramsMove
    <1>2. UNCHANGED <<server_tables, m_mutex, tables, client_stack, transaction_mode,
                      locked_tables>>
        BY <1>1 DEF vars
    <1>3. find_table(program[d].table)' = find_table(program[d].table)
        BY <1>1, <1>2 DEF find_table
    <1>4. ASSUME Sets(program[d]) PROVE LeftBySetting(d, i)'
        <2>1. PICK p : p = program[d]
            OBVIOUS
        <2>2. ASSUME NEW e \in Increments(p) PROVE HasApplied(e)' <=> HasApplied(e)
            <3>1. e \in Conns /\ Transactional(program[e])
                BY <1>4, <2>1, Rivals DEF Increments
            <3> QED
                BY <3>1, AppliedUnmoved
        <2>3. PICK B : B = {e \in Increments(p) : HasApplied(e)'}
            OBVIOUS
        <2>4. B = Applied(p)
            BY <2>2, <2>3 DEF Applied
        <2>5. Applied(program[d])' = B
            BY <1>1, <2>1, <2>3 DEF Applied, Increments
        <2>6. Settled(d) => Settled(d)'
            BY <1>1, <1>2, <1>3, <2>1, <2>4, <2>5 DEF Settled
        <2> QED
            BY <1>1, <1>2, <1>4, <2>6 DEF Left, LeftBySetting
    <1>5. ASSUME Transactional(program[d]) PROVE LeftByIncrement(d, i)'
        BY <1>1, <1>2, <1>3, <1>5 DEF Left, LeftByIncrement
    <1> QED
        BY <1>1, <1>4, <1>5 DEF Left

LEMMA ProgramProgress ==
    ASSUME IInv, ClientsInv, SessionInv, CountInv, Orderly(program),
           NEW c \in Conns, ClientStep(c) \/ Kill(c), Counts(c)
    PROVE  step'[c] \in DOMAIN Script(program[c]) /\ Progress(c)'
    <1>1. UNCHANGED vars /\ UNCHANGED program
        BY ProgramsMove
    <1>2. UNCHANGED <<process, pc, locked_tables, response, keep_going, tables, server_tables>>
        BY <1>1 DEF vars
    <1>3. /\ DOMAIN step = Conns /\ DOMAIN phase = Conns /\ DOMAIN wire = Conns
          /\ DOMAIN answer = Conns
        BY DEF SessionInv, ClientsInv
    <1>4. /\ step[c] \in DOMAIN Script(program[c]) /\ Progress(c)
          /\ program[c] \in Program /\ program[c].main # "get_value"
        BY ProgramsStay DEF CountInv, Counts, Sets, Transactional
    <1>5. PICK n \in Nat : n = Len(Script(program[c])) /\ DOMAIN Script(program[c]) = 1 .. n
        BY <1>4, ScriptShape
    <1>6. Script(program'[c]) = Script(program[c]) /\ program'[c] = program[c]
        BY <1>1
    <1>7. process = "running" => Conversation(c)
        BY DEF ClientsInv
    <1>8. \A i \in 0 .. 8 : Left(c, i) => Left(c, i)'
        BY LeftUnmoved
    <1>9. pc'[c] = "finishing"
            => /\ ~Transactional(program'[c])
               /\ Sets(program'[c]) =>
                     tables'[find_table(program[c].table)'].tempMap[program'[c].key] = program'[c].value
        BY <1>1, <1>2, <1>4 DEF Progress, find_table
    <1>10. ASSUME UNCHANGED step, Before(c)' => Before(c), After(c)' => After(c)
           PROVE  /\ Before(c)' => LeftBefore(c)'
                  /\ After(c)' => LeftAfter(c)'
        BY <1>4, <1>8, <1>10 DEF Progress, LeftBefore, LeftAfter
    <1>11. SUFFICES
              /\ step'[c] \in 1 .. n
              /\ Before(c)' => LeftBefore(c)'
              /\ After(c)' => LeftAfter(c)'
              /\ (Replied(c)' /\ ~keep_going'[c]) \/ phase'[c] = "succeeded" => step'[c] = n
              /\ phase'[c] \in {"idle", "sending"} => answer'[c] = NULL
        BY <1>5, <1>6, <1>9 DEF Progress
    <1>12. CASE Start(c)
        <2>1. /\ phase[c] = "idle" /\ phase'[c] = "sending" /\ UNCHANGED <<step, wire, answer>>
            BY <1>3, <1>12 DEF Start, Enter
        <2>2. Before(c) /\ ~Replied(c)' /\ (After(c)' => After(c))
            BY <1>2, <2>1 DEF Before, After, Replied
        <2> QED
            BY <1>4, <1>5, <1>10, <2>1, <2>2 DEF Progress
    <1>13. CASE Send(c)
        <2>1. /\ phase[c] = "sending" /\ phase'[c] = "awaiting" /\ UNCHANGED <<step, answer>>
            BY <1>3, <1>13 DEF Send, Enter
        <2>2. answer'[c] = NULL
            BY <1>4, <2>1 DEF Progress
        <2>3. Before(c) /\ ~Replied(c)' /\ (After(c)' => After(c))
            BY <1>2, <1>7, <2>1, <2>2 DEF Before, After, Replied, Conversation
        <2> QED
            BY <1>4, <1>5, <1>10, <2>1, <2>2, <2>3
    <1>14. CASE ReadAnswer(c)
        <2>1. /\ phase[c] = "awaiting" /\ answer[c] # NULL /\ answer'[c] = NULL
              /\ UNCHANGED wire
            BY <1>3, <1>14 DEF ReadAnswer
        <2>2. process = "running" => pc[c] \in {"reading", "closed"} /\ wire[c] = NULL
            BY <1>7, <2>1 DEF Conversation
        <2>3. CASE IsGood(c, answer[c]) /\ step[c] < n /\ step' = [step EXCEPT ![c] = @ + 1]
                     /\ Enter(c, "sending")
            <3>1. step'[c] = step[c] + 1 /\ phase'[c] = "sending"
                BY <1>3, <2>3 DEF Enter
            <3>2. LeftAfter(c)
                BY <1>4, <2>1, <2>3 DEF Progress, After
            <3>3. LeftBefore(c)'
                BY <1>4, <1>5, <1>8, <3>1, <3>2 DEF LeftBefore, LeftAfter
            <3>4. ~After(c)' /\ ~Replied(c)'
                BY <1>2, <2>2, <3>1 DEF After, Replied
            <3> QED
                BY <1>4, <1>5, <2>1, <2>3, <3>1, <3>3, <3>4
        <2>4. CASE IsGood(c, answer[c]) /\ step[c] = n /\ UNCHANGED step /\ Enter(c, "succeeded")
            <3>1. phase'[c] = "succeeded"
                BY <1>3, <2>4 DEF Enter
            <3>2. After(c) /\ ~Before(c)' /\ ~Replied(c)'
                BY <1>2, <2>1, <2>2, <2>4, <3>1 DEF After, Before, Replied
            <3> QED
                BY <1>4, <1>5, <1>10, <2>4, <3>1, <3>2
        <2>5. CASE UNCHANGED step /\ Enter(c, "failed")
            <3>1. phase'[c] = "failed"
                BY <1>3, <2>5 DEF Enter
            <3>2. (Before(c)' => Before(c)) /\ (After(c)' => After(c)) /\ ~Replied(c)'
                BY <1>2, <2>1, <3>1 DEF After, Before, Replied
            <3> QED
                BY <1>4, <1>5, <1>10, <2>5, <3>1, <3>2
        <2> QED
            BY <1>5, <1>14, <2>3, <2>4, <2>5 DEF ReadAnswer, Advance
    <1>15. CASE LoseServer(c)
        <2>1. phase'[c] = "failed" /\ UNCHANGED <<step, wire, answer>>
            BY <1>3, <1>4, <1>15 DEF LoseServer, Enter
        <2>2. (Before(c)' => Before(c)) /\ (After(c)' => After(c)) /\ ~Replied(c)'
            BY <1>2, <2>1 DEF After, Before, Replied
        <2> QED
            BY <1>4, <1>5, <1>10, <2>1, <2>2
    <1>16. CASE Kill(c)
        <2>1. phase'[c] = "killed" /\ UNCHANGED <<step, wire>>
            BY <1>3, <1>16 DEF Kill, Enter
        <2>2. (Before(c)' => Before(c)) /\ (After(c)' => After(c)) /\ ~Replied(c)'
            BY <1>2, <2>1 DEF After, Before, Replied
        <2> QED
            BY <1>4, <1>5, <1>10, <2>1, <2>2
    <1> QED
        BY <1>12, <1>13, <1>14, <1>15, <1>16 DEF ClientStep

-----------------------------------------------------------------------------
(* Every step keeps it. *)

LEMMA ProgramsStep ==
    ASSUME IInv, ClientsInv, SessionInv, CountInv, Orderly(program),
           NEW c \in Conns, ClientStep(c) \/ Kill(c)
    PROVE  CountInv'
    <1>1. /\ UNCHANGED vars /\ UNCHANGED program
          /\ \A d \in Conns \ {c} : /\ phase'[d] = phase[d] /\ step'[d] = step[d]
                                    /\ wire'[d] = wire[d] /\ answer'[d] = answer[d]
        BY ProgramsMove
    <1>2. UNCHANGED <<process, pc, locked_tables, response, keep_going, tables, server_tables,
                      m_mutex>>
        BY <1>1 DEF vars
    <1>3. Directory' /\ PendingIsOwn'
        BY <1>1, <1>2 DEF CountInv, Directory, PendingIsOwn, find_table
    <1>4. /\ phase[c] \notin Ended /\ phase'[c] # "idle"
          /\ phase[c] = "idle" => \A d \in program[c].after : Gone(d)
        BY DEF ClientsInv, ClientStep, Start, Send, ReadAnswer, LoseServer, Kill, Advance, Enter, Ended
    <1>5. ASSUME NEW d \in Conns, d # c PROVE Counts(d) => Progress(d)'
        <2>1. ASSUME NEW i \in 0 .. 8, Left(d, i) PROVE Left(d, i)'
            BY <2>1, LeftUnmoved
        <2>2. \A m : IsGood(d, m)' <=> IsGood(d, m)
            BY <1>1, <1>5 DEF IsGood, CurrentRequest
        <2>3. /\ Before(d)' <=> Before(d)
              /\ Replied(d)' <=> Replied(d)
              /\ After(d)' <=> After(d)
            BY <1>1, <1>2, <1>5, <2>2 DEF Before, Replied, After
        <2>4. Counts(d) => Progress(d)
            BY DEF CountInv
        <2>5. find_table(program[d].table)' = find_table(program[d].table)
            BY <1>1, <1>2 DEF find_table
        <2> QED
            BY <1>1, <1>2, <1>5, <2>1, <2>3, <2>4, <2>5 DEF Progress, LeftBefore, LeftAfter
    <1>6. ASSUME NEW d \in Conns
          PROVE  /\ phase'[d] = "idle" => step'[d] = 1
                 /\ phase'[d] # "idle" => \A e \in program'[d].after : Gone(e)'
        <2>1. ASSUME NEW e \in program[d].after, Gone(e) PROVE Gone(e)'
            <3>1. e \in Conns
                BY ProgramsStay DEF Program
            <3> QED
                BY <1>1, <1>4, <2>1, <3>1 DEF Gone
        <2> QED
            BY <1>1, <1>4, <2>1 DEF CountInv
    <1>7. ASSUME NEW d \in Conns, Counts(d)
          PROVE  step'[d] \in DOMAIN Script(program[d]) /\ Progress(d)'
        BY <1>1, <1>5, <1>7, ProgramProgress DEF CountInv
    <1>8. \A d \in Conns : Counts(d)' <=> Counts(d)
        BY <1>1 DEF Counts
    <1> QED
        BY <1>1, <1>3, <1>6, <1>7, <1>8 DEF CountInv

LEMMA CountStep ==
    ASSUME IInv, IInv', ClientsInv, SessionInv, CountInv, Orderly(program), IsFiniteSet(Conns),
           [ClientsNext]_allVars
    PROVE  CountInv'
    <1>1. CASE UNCHANGED allVars
        <2>1. UNCHANGED <<process, pc, locked_tables, response, keep_going, tables, server_tables,
                          m_mutex, client_stack, transaction_mode, program, phase, step, wire, answer>>
            BY <1>1 DEF allVars, vars, clientVars
        <2>2. ASSUME NEW d \in Conns PROVE Settled(d)' <=> Settled(d)
            BY <2>1 DEF Settled, Applied, Increments, HasApplied, find_table
        <2>3. ASSUME NEW d \in Conns, NEW i \in 0 .. 8 PROVE Left(d, i)' <=> Left(d, i)
            <3>1. LeftBySetting(d, i)' <=> LeftBySetting(d, i)
                BY <2>1, <2>2 DEF LeftBySetting
            <3>2. LeftByIncrement(d, i)' <=> LeftByIncrement(d, i)
                BY <2>1 DEF LeftByIncrement, find_table
            <3> QED
                BY <2>1, <3>1, <3>2 DEF Left
        <2>4. ASSUME NEW d \in Conns, Progress(d) PROVE Progress(d)'
            <3>1. /\ Before(d)' <=> Before(d)
                  /\ Replied(d)' <=> Replied(d)
                  /\ After(d)' <=> After(d)
                BY <2>1 DEF Before, Replied, After, IsGood, CurrentRequest
            <3> QED
                BY <2>1, <2>3, <2>4, <3>1 DEF Progress, LeftBefore, LeftAfter, find_table
        <2>5. Directory' /\ PendingIsOwn'
            BY <2>1 DEF CountInv, Directory, PendingIsOwn, find_table
        <2> QED
            BY <2>1, <2>4, <2>5 DEF CountInv, Counts, Gone
    <1>2. ASSUME NEW c \in Conns, ServerStep(c)
          PROVE  CountInv'
        <2>1. UNCHANGED <<program, phase, step, server_tables>>
            BY <1>2, DirectoryStays DEF ServerStep, Accepted, Arrive, HangUp, Work, Answer, BreakPipe
        <2>2. ASSUME NEW d \in Conns, Counts(d) PROVE Progress(d)'
            BY <1>2, <2>2, ServerProgress, OthersProgress DEF CountInv
        <2>3. Directory'
            BY <2>1 DEF CountInv, Directory, find_table
        <2> QED
            BY <1>2, <2>1, <2>2, <2>3, PendingStays DEF CountInv, Counts, Gone
    <1> QED
        BY <1>1, <1>2, ProgramsStep DEF ClientsNext

LEMMA CountInvInit ==
    ASSUME ClientsInit, IInv
    PROVE  CountInv
    <1>1. /\ program \in Casts
          /\ \A c \in Conns : /\ phase[c] = "idle" /\ step[c] = 1 /\ answer[c] = NULL
                              /\ pc[c] = "unconnected" /\ client_stack[c].stk = << >>
                              /\ locked_tables[c] = {}
        BY DEF ClientsInit, Init, NewStack
    <1>2. Directory
        BY DEF ClientsInit, Init, ServerInit, Directory, find_table
    <1>3. PendingIsOwn
        BY DEF ClientsInit, Init, ServerInit, PendingIsOwn, NewTable, EmptyMap
    <1>4. ASSUME NEW c \in Conns
          PROVE  step[c] \in DOMAIN Script(program[c]) /\ Progress(c)
        <2>1. program[c] \in Program
            BY <1>1, CastsAssumption
        <2>2. Left(c, 0)
            BY <1>1 DEF Left, LeftBySetting, LeftByIncrement
        <2> QED
            BY <1>1, <2>1, <2>2, ScriptShape DEF Progress, After, Replied, LeftBefore
    <1> QED
        BY <1>1, <1>2, <1>3, <1>4 DEF CountInv

-----------------------------------------------------------------------------
(* What has been applied lies between what was reported and what was asked    *)
(* for.                                                                       *)
LEMMA AppliedBounds ==
    ASSUME IInv, ClientsInv, SessionInv, CountInv, Orderly(program),
           NEW c \in Conns, Sets(program[c])
    PROVE  /\ Reported(program[c]) \subseteq Applied(program[c])
           /\ Applied(program[c]) \subseteq Requested(program[c])
    <1>1. PICK p : p = program[c]
        OBVIOUS
    <1>2. ASSUME NEW d \in Increments(p)
          PROVE  /\ d \in Conns /\ Transactional(program[d]) /\ Progress(d)
                 /\ Len(Script(program[d])) = 8 /\ StoringStep(program[d]) = 7
        <2>1. d \in Conns /\ Transactional(program[d]) /\ program[d] \in Program
            BY <1>1, Rivals, ProgramsStay DEF Increments
        <2> QED
            BY <2>1, IncrementScript DEF CountInv, Counts
    <1>3. ASSUME NEW d \in Reported(p) PROVE d \in Applied(p)
        <2>1. d \in Increments(p) /\ phase[d] = "succeeded"
            BY DEF Reported
        <2>2. step[d] = 8
            BY <1>2, <2>1 DEF Progress
        <2> QED
            BY <2>1, <2>2 DEF Applied, HasApplied
    <1>4. ASSUME NEW d \in Applied(p) PROVE d \in Requested(p)
        <2>1. d \in Increments(p) /\ HasApplied(d)
            BY DEF Applied
        <2>2. CASE step[d] = 8
            BY <1>2, <2>1, <2>2 DEF Requested
        <2>3. CASE step[d] = 7 /\ m_mutex[find_table(program[d].table)] # d
            <3>1. ASSUME phase[d] = "sending" PROVE FALSE
                <4>1. LeftBefore(d)
                    BY <1>2, <2>1, <3>1 DEF Progress, Before
                <4>2. LeftByIncrement(d, 6)
                    BY <1>2, <2>1, <2>3, <4>1 DEF LeftBefore, Left
                <4>3. find_table(program[d].table) \in locked_tables[d]
                    BY <4>2 DEF LeftByIncrement
                <4> QED
                    BY <1>2, <2>1, <2>3, <4>3 DEF IInv, LocksAreHeld, WillUnlock, TypeOK
            <3> QED
                BY <1>2, <2>1, <2>3, <3>1 DEF Requested
        <2> QED
            BY <2>1, <2>2, <2>3 DEF HasApplied
    <1> QED
        BY <1>1, <1>3, <1>4

LEMMA CountInvCounts ==
    ASSUME IInv, ClientsInv, SessionInv, CountInv, Orderly(program), IsFiniteSet(Conns)
    PROVE  EveryIncrementCounts
    <1>1. SUFFICES ASSUME NEW c \in Conns, Sets(program[c]), phase[c] = "succeeded"
                   PROVE  /\ Shown(c).kind = "num"
                          /\ Shown(c).n - program[c].value.n
                                \in Cardinality(Reported(program[c]))
                                    .. Cardinality(Requested(program[c]))
        BY DEF EveryIncrementCounts, Sets
    <1>2. PICK p \in Program : p = program[c]
        BY ProgramsStay
    <1>3. Settled(c)
        <2>1. Progress(c) /\ step[c] = 4
            BY <1>1, <1>2, SettingScript DEF CountInv, Counts, Progress
        <2>2. LeftBySetting(c, 4)
            BY <1>1, <2>1 DEF Progress, After, LeftAfter, Left
        <2> QED
            BY <2>2 DEF LeftBySetting
    <1>4. Shown(c) = to_string(p.value.n + Cardinality(Applied(p)))
        BY <1>2, <1>3 DEF Settled, Shown, CommittedValue, to_string, Absent
    <1>5. PICK low, mid, high : /\ low = Reported(p) /\ mid = Applied(p) /\ high = Requested(p)
        OBVIOUS
    <1>6. low \subseteq mid /\ mid \subseteq high /\ high \subseteq Conns
        BY <1>1, <1>2, <1>5, AppliedBounds DEF Requested, Increments
    <1>7. /\ Cardinality(low) \in Nat /\ Cardinality(mid) \in Nat /\ Cardinality(high) \in Nat
          /\ Cardinality(low) <= Cardinality(mid) /\ Cardinality(mid) <= Cardinality(high)
        <2>1. IsFiniteSet(high) /\ IsFiniteSet(mid) /\ IsFiniteSet(low)
            BY <1>6, FS_Subset
        <2>2. Cardinality(low) <= Cardinality(mid) /\ Cardinality(mid) <= Cardinality(high)
            BY <1>6, <2>1, FS_Subset
        <2> QED
            BY <2>1, <2>2, FS_CardinalityType
    <1>8. p.value.n \in Int
        BY <1>1, <1>2, SettingScript DEF String
    <1>9. PICK n \in Int : n = p.value.n /\ Shown(c) = to_string(n + Cardinality(mid))
        BY <1>4, <1>5, <1>8
    <1> QED
        BY <1>2, <1>5, <1>7, <1>9 DEF to_string

(* Once a set_value of a number has ended, its key holds that number and one  *)
(* for every increment whose COMMIT has been served: none is lost and none    *)
(* counted twice, however the programs that follow overlap, fail or are       *)
(* killed, for any cast in which they are incr_value -t and start after it.   *)
THEOREM IncrementsAddUp ==
    ASSUME IsFiniteSet(Conns)
    PROVE  ClientsSpec /\ Orderly(program) => []EveryIncrementCounts
    <1>1. IInv /\ ClientsInit => CountInv
        BY CountInvInit
    <1>2. IInv /\ IInv' /\ ClientsInv /\ SessionInv /\ Orderly(program) /\ CountInv
             /\ [ClientsNext]_allVars
             => CountInv' /\ Orderly(program)'
        <2> SUFFICES ASSUME IInv, IInv', ClientsInv, SessionInv, Orderly(program), CountInv,
                            [ClientsNext]_allVars
                     PROVE  CountInv' /\ Orderly(program)'
            OBVIOUS
        <2>1. UNCHANGED program
            BY DEF allVars, clientVars, ClientsNext, ClientStep, ServerStep, Start, Send,
                   ReadAnswer, LoseServer, Kill, Accepted, Arrive, HangUp, Work, Answer, BreakPipe
        <2> QED
            BY <2>1, CountStep DEF Orderly
    <1>3. IInv /\ ClientsInv /\ SessionInv /\ Orderly(program) /\ CountInv
             => EveryIncrementCounts
        BY CountInvCounts
    <1> QED
        BY <1>1, <1>2, <1>3, Sessions, PTL DEF ClientsSpec
=============================================================================
