------------------------------ MODULE Clients ------------------------------
(***************************************************************************)
(* The programs get_value, set_value and incr_value at work on one server. *)
(* Each is the client of one connection of ClientConnection: it sends the  *)
(* requests of its script one at a time and reads the answer to each       *)
(* before it sends the next.                                               *)
(*                                                                         *)
(* A program's phase:                                                      *)
(*   "idle"       not started                                              *)
(*   "sending"    a rio_writen of the request at its step comes next       *)
(*   "awaiting"   in the rio_readlineb that follows                        *)
(*   "succeeded"  has exited with status 0                                 *)
(*   "failed"     has exited with status 1, or with SIGPIPE when it wrote  *)
(*                to a server that was gone                                *)
(*   "killed"     has been ended by a signal from outside                  *)
(***************************************************************************)
EXTENDS ClientConnection, FiniteSets

CONSTANTS
    Casts,    \* the casts of programs, one for each connection
    Killable  \* the connections whose program a signal may end

(* A command line of words: no argument holds a quote or a newline, and the  *)
(* requests made of them fit MAX_ENCODED_LEN; table and key are identifiers, *)
(* value is a word or empty.  username tells whether it is an identifier;    *)
(* after names the connections whose programs the user lets end before       *)
(* starting this one.                                                        *)
Program == [main : {"get_value", "set_value", "incr_value"},
            useTransaction : BOOLEAN, username : BOOLEAN,
            table : Names, key : Keys, value : String \cup {Absent},
            after : SUBSET Conns]

ASSUME CastsAssumption ==
    \A cast \in Casts : DOMAIN cast = Conns /\ \A c \in Conns : cast[c] \in Program

VARIABLES
    program,  \* the command line of each connection's client
    phase,
    step,     \* how far a program is in its script
    wire,     \* the request on its way to the server, or NULL
    answer,   \* the response on its way back, or NULL
    reset,    \* the server has written to a client that is gone
    printed,  \* what get_value has printed, or Absent
    seen      \* history: what the key held while the program ran

clientVars == <<program, phase, step, wire, answer, reset, printed, seen>>

allVars == <<vars, clientVars>>

-----------------------------------------------------------------------------
(* The scripts.                                                              *)

(* A user name that is a word but no identifier is sent as it is, and        *)
(* Message::is_valid rejects the request.                                    *)
login_request(p) == IF p.username THEN Plain("LOGIN") ELSE Msg("LOGIN", NULL, NULL, EmptyString)

OnKey(type, p) == Msg(type, p.table, p.key, Absent)

get_value(p) == <<login_request(p), OnKey("GET", p), Plain("TOP"), Plain("BYE")>>

set_value(p) ==
    <<login_request(p), Msg("PUSH", NULL, NULL, p.value), OnKey("SET", p), Plain("BYE")>>

One == Msg("PUSH", NULL, NULL, to_string(1))

increment(p) ==
    <<login_request(p), OnKey("GET", p), One, Plain("ADD"), OnKey("SET", p), Plain("BYE")>>

(* A plausible slip: COMMIT is sent after BYE. *)
increment_committed_late(p) ==
    <<login_request(p), Plain("BEGIN"), OnKey("GET", p), One, Plain("ADD"),
      OnKey("SET", p), Plain("BYE"), Plain("COMMIT")>>

increment_in_transaction(p) ==
    <<login_request(p), Plain("BEGIN"), OnKey("GET", p), One, Plain("ADD"),
      OnKey("SET", p), Plain("COMMIT"), Plain("BYE")>>

(* With -t the increment is a transaction. *)
incr_value(p) == IF p.useTransaction THEN increment_in_transaction(p) ELSE increment(p)

(* Each program is one main. *)
Script(p) ==
    CASE p.main = "get_value"  -> get_value(p)
      [] p.main = "set_value"  -> set_value(p)
      [] p.main = "incr_value" -> incr_value(p)

CurrentRequest(c) == Script(program[c])[step[c]]

-----------------------------------------------------------------------------
(* The client's side.                                                        *)

Ended == {"succeeded", "failed", "killed"}

Gone(c) == phase[c] \in Ended

Enter(c, p) == phase' = [phase EXCEPT ![c] = p]

Start(c) ==
    /\ phase[c] = "idle"
    /\ \A d \in program[c].after : Gone(d)
    /\ Enter(c, "sending")
    /\ UNCHANGED <<vars, program, step, wire, answer, reset, printed>>

(* The result of rio_writen is not looked at. *)
Send(c) ==
    /\ phase[c] = "sending"
    /\ wire' = [wire EXCEPT ![c] = CurrentRequest(c)]
    /\ Enter(c, "awaiting")
    /\ UNCHANGED <<vars, program, step, answer, reset, printed>>

Advance(c) ==
    \/ /\ step[c] < Len(Script(program[c]))
       /\ step' = [step EXCEPT ![c] = @ + 1]
       /\ Enter(c, "sending")
    \/ /\ step[c] = Len(Script(program[c]))
       /\ Enter(c, "succeeded")
       /\ UNCHANGED step

(* get_value looks at the answer to its LOGIN, but goes on whatever it is.   *)
(* Everywhere else only OK will do, or DATA for TOP; an empty DATA does not  *)
(* decode.                                                                   *)
IsGood(c, m) ==
    \/ /\ m.type = IF CurrentRequest(c).type = "TOP" THEN "DATA" ELSE "OK"
       /\ m.value # EmptyString
    \/ program[c].main = "get_value" /\ step[c] = 1

ReadAnswer(c) ==
    /\ phase[c] = "awaiting"
    /\ answer[c] # NULL
    /\ answer' = [answer EXCEPT ![c] = NULL]
    /\ \/ /\ IsGood(c, answer[c])
          /\ Advance(c)
       \/ /\ ~IsGood(c, answer[c])
          /\ Enter(c, "failed")
          /\ UNCHANGED step
    /\ \/ /\ answer[c].type = "DATA"
          /\ answer[c].value # EmptyString
          /\ printed' = [printed EXCEPT ![c] = answer[c].value]
       \/ /\ answer[c].type # "DATA" \/ answer[c].value = EmptyString
          /\ UNCHANGED printed
    /\ UNCHANGED <<vars, program, wire, reset>>

(***************************************************************************)
(* The connection is closed, was refused, or the server is dead.  A read   *)
(* that returns 0 leaves an empty string, which decode does not take; one  *)
(* that returns -1 ends set_value and incr_value.  get_value, in its first *)
(* two steps, writes buf[-1] and decodes whatever buf holds: either way.   *)
(***************************************************************************)
LoseServer(c) ==
    /\ phase[c] = "awaiting"
    /\ answer[c] = NULL
    /\ process # "running" \/ pc[c] = "closed"
    /\ \/ /\ Enter(c, "failed")
          /\ UNCHANGED step
       \/ /\ program[c].main = "get_value" /\ step[c] <= 2
          /\ Advance(c)
    /\ UNCHANGED <<vars, program, wire, answer, reset, printed>>

(* A request on its way is delivered all the same.  An answer nobody has     *)
(* read makes the kernel reset the connection.                               *)
Kill(c) ==
    /\ c \in Killable
    /\ phase[c] \in {"sending", "awaiting"}
    /\ Enter(c, "killed")
    /\ answer' = [answer EXCEPT ![c] = NULL]
    /\ reset' = [reset EXCEPT ![c] = answer[c] # NULL]
    /\ UNCHANGED <<vars, program, step, wire, printed>>

-----------------------------------------------------------------------------
(* The server's side: ClientConnection, its input the clients' output.       *)

Accepted(c) ==
    /\ phase[c] # "idle"
    /\ Accept(c)
    /\ UNCHANGED <<program, phase, step, wire, answer, reset, printed>>

Arrive(c) ==
    /\ wire[c] # NULL
    /\ \/ is_valid(wire[c]) /\ Handle(c, wire[c])
       \/ ~is_valid(wire[c]) /\ NoRequest(c)
    /\ wire' = [wire EXCEPT ![c] = NULL]
    /\ UNCHANGED <<program, phase, step, answer, reset, printed>>

(* End of file, or a reset connection. *)
HangUp(c) ==
    /\ Gone(c)
    /\ wire[c] = NULL
    /\ NoRequest(c)
    /\ UNCHANGED <<program, phase, step, wire, answer, reset, printed>>

Work(c) ==
    /\ pc[c] # "replying"
    /\ Thread(c)
    /\ UNCHANGED <<program, phase, step, wire, answer, reset, printed>>

Answer(c) ==
    /\ pc[c] = "replying"
    /\ Thread(c)
    /\ \/ /\ ~Gone(c)
          /\ answer' = [answer EXCEPT ![c] = response[c]]
          /\ UNCHANGED reset
       \/ /\ Gone(c)
          /\ reset' = [reset EXCEPT ![c] = TRUE]
          /\ UNCHANGED answer
    /\ UNCHANGED <<program, phase, step, wire, printed>>

(* The first write to a client that is gone goes unnoticed; its kernel       *)
(* resets the connection, and a write after that raises SIGPIPE.             *)
BreakPipe(c) ==
    /\ reset[c]
    /\ ReplyToDeadPeer(c)
    /\ UNCHANGED <<program, phase, step, wire, answer, reset, printed>>

-----------------------------------------------------------------------------
Shown(c) ==
    LET t == find_table(program[c].table)
    IN  IF t = NULL THEN EmptyString ELSE CommittedValue(t, program[c].key)

(* What a get_value that is running could have found. *)
Observe ==
    seen' = [c \in Conns |->
                IF program[c].main = "get_value" /\ ~Gone(c) /\ phase'[c] # "idle"
                THEN seen[c] \cup {Shown(c)'} ELSE seen[c]]

ClientStep(c) == (Start(c) \/ Send(c) \/ ReadAnswer(c) \/ LoseServer(c)) /\ Observe

ServerStep(c) ==
    /\ \/ Accepted(c) \/ Arrive(c) \/ HangUp(c) \/ Work(c) \/ Answer(c)
       \/ BreakPipe(c)
    /\ Observe

ClientsNext ==
    \E c \in Conns : ClientStep(c) \/ ServerStep(c) \/ (Kill(c) /\ Observe)

ClientsInit ==
    /\ Init
    /\ program \in Casts
    /\ phase = [c \in Conns |-> "idle"]
    /\ step = [c \in Conns |-> 1]
    /\ wire = [c \in Conns |-> NULL]
    /\ answer = [c \in Conns |-> NULL]
    /\ reset = [c \in Conns |-> FALSE]
    /\ printed = [c \in Conns |-> Absent]
    /\ seen = [c \in Conns |-> {}]

(* Programs run and threads are scheduled; nobody has to be killed. *)
ClientsSpec ==
    /\ ClientsInit
    /\ [][ClientsNext]_allVars
    /\ \A c \in Conns : WF_allVars(ClientStep(c)) /\ WF_allVars(ServerStep(c))

-----------------------------------------------------------------------------
(***************************************************************************)
(* Correctness.                                                            *)
(***************************************************************************)

(* The step of incr_value at which its increment is stored. *)
StoringStep(p) ==
    CHOOSE i \in DOMAIN incr_value(p) :
        incr_value(p)[i].type = IF p.useTransaction THEN "COMMIT" ELSE "SET"

Increments(p) ==
    {c \in Conns : program[c].main = "incr_value"
                     /\ program[c].table = p.table /\ program[c].key = p.key}

(* Incrementing programs that reported success; those that have asked for    *)
(* the increment to be stored.                                               *)
Reported(p) == {c \in Increments(p) : phase[c] = "succeeded"}

Requested(p) ==
    {c \in Increments(p) :
        \/ step[c] > StoringStep(program[c])
        \/ step[c] = StoringStep(program[c]) /\ phase[c] # "sending"}

(* No increment is lost and none counts twice: once set_value has stored a   *)
(* number and ended, every incr_value -t that exits with status 0 has added  *)
(* exactly one to it, and one that fails before its COMMIT nothing, however  *)
(* the programs overlap.                                                     *)
EveryIncrementCounts ==
    \A c \in Conns :
        LET p == program[c]
        IN  p.main = "set_value" /\ p.value.kind = "num" /\ phase[c] = "succeeded"
               => /\ Shown(c).kind = "num"
                  /\ Shown(c).n - p.value.n
                        \in Cardinality(Reported(p)) .. Cardinality(Requested(p))

(* What get_value prints is what the key held, committed, at some moment     *)
(* while get_value ran: neither a value of a transaction that was still open *)
(* or rolled back, nor an outdated one.                                      *)
PrintsWhatWasCommitted ==
    \A c \in Conns : printed[c] # Absent => printed[c] \in seen[c]

(* Among these programs only one that is killed inside its transaction can   *)
(* leave a table locked for ever.                                            *)
OnlyKilledLeaveLocks ==
    \A t \in TableId :
        Leaked(t) => \E c \in Conns : phase[c] = "killed" /\ program[c].useTransaction

(* README.txt: the server is "free of race conditions and deadlocks".  With  *)
(* these programs it is, unless one was killed inside its transaction: who   *)
(* waits in Table::lock waits for a thread that waits for nobody itself and  *)
(* is on a path that ends in unlock.                                         *)
WaitersAreServed ==
    \/ \E c \in Conns : phase[c] = "killed" /\ program[c].useTransaction
    \/ \A c \in Conns :
          Waiting(c) => \E d \in Conns : /\ m_mutex[cur_table[c]] = d
                                        /\ WillUnlock(d, cur_table[c])
                                        /\ ~Waiting(d)

(* A client that ends on its own, wherever in its script, never takes the    *)
(* server with it by SIGPIPE: that needs one that was killed.                *)
SIGPIPENeedsKill ==
    process = "SIGPIPE" => \E c \in Conns : phase[c] = "killed"

(* Every program that is started ends, whether the server serves it, fails   *)
(* its request, closes its connection or dies, unless a table stays locked   *)
(* because a transaction was killed.                                         *)
EveryClientEnds ==
    <>(\/ \A c \in Conns : Gone(c)
       \/ \E c \in Conns : phase[c] = "killed" /\ program[c].useTransaction)
=============================================================================
