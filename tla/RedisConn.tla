------------------------------ MODULE RedisConn ------------------------------
(***************************************************************************)
(* pkg/redis/redis.go: Conn, a go-redis client that repeats a command up   *)
(* to MaxRetries times when the connection fails.  A failure before the    *)
(* command arrived and one that loses only its reply look the same to the  *)
(* client, so a command that is not idempotent can be applied more often   *)
(* than it was called.  The commands are taken by what a repetition does:  *)
(* Incr counts again, Lpop takes another element, BRPoplpush moves another *)
(* element, GetString and Set change nothing the second time.              *)
(***************************************************************************)
EXTENDS Integers, Sequences, SequencesExt, FiniteSets

CONSTANTS Clients,
          Retries,   \* Options.MaxRetries as the caller gives it, 0 for unset
          MaxCalls,  \* bound of the model
          Elements   \* what is in the source list at the beginning, in order

VARIABLES counter,         \* the key Incr counts in
          cell,            \* the key GetString reads: <<>> when it is missing
          source, destination, \* the lists of BRPoplpush
          call,            \* per client: [op, st, tries, reply], a nil reply being <<>>
          calls,           \* calls per command
          replies,         \* the calls that returned: [n, op, ok, value]
          taken            \* elements an Lpop removed

connVars == <<counter, cell, source, destination, call, calls, replies, taken>>

\* Commands on different keys do not meet: a behaviour has those of one key.
Keys == {{"Incr"}, {"Lpop", "BRPoplpush"}, {"GetString", "Set"}}
Ops  == UNION Keys

\* NewWithOptions: 0 counts as unset.
MaxRetries == IF Retries = 0 THEN 3 ELSE Retries

\* Whoever wants no retries takes the go-redis client instead.  The elements of a
\* list are told apart, whatever their values.
RedisConnAssumption ==
    /\ Retries \in Nat
    /\ Elements \in Seq(Range(Elements)) /\ IsInjective(Elements)

Init ==
    /\ counter = 0 /\ cell = <<>>
    /\ source = Elements /\ destination = <<>>
    /\ call = [c \in Clients |-> [op |-> "Set", st |-> "idle", tries |-> 0, reply |-> <<>>]]
    /\ calls = [o \in Ops |-> 0]
    /\ replies = {}
    /\ taken = {}

Call(c, o) ==
    /\ call[c].st = "idle"
    /\ \E key \in Keys : o \in key /\ \A x \in Ops \ key : calls[x] = 0
    /\ calls[o] < MaxCalls
    /\ calls' = [calls EXCEPT ![o] = @ + 1]
    /\ call' = [call EXCEPT ![c] = [op |-> o, st |-> "sent", tries |-> 1, reply |-> <<>>]]
    /\ UNCHANGED <<counter, cell, source, destination, replies, taken>>

Answer(c, v) == call' = [call EXCEPT ![c].st = "applied", ![c].reply = v]

Incr(c) ==
    /\ call[c].op = "Incr"
    /\ counter' = counter + 1
    /\ Answer(c, <<counter + 1>>)
    /\ UNCHANGED <<cell, source, destination, calls, replies, taken>>

Lpop(c) ==
    /\ call[c].op = "Lpop"
    /\ IF source = <<>> THEN Answer(c, <<>>) /\ UNCHANGED <<source, taken>>
       ELSE /\ Answer(c, <<Head(source)>>)
            /\ source' = Tail(source)
            /\ taken' = taken \cup {Head(source)}
    /\ UNCHANGED <<counter, cell, destination, calls, replies>>

\* Fault: BLPop, and LPUSH once the reply is there.
BRPoplpush_TwoCommands(c) ==
    /\ call[c].op = "BRPoplpush"
    /\ IF call[c].reply # <<>>
       THEN Answer(c, call[c].reply) /\ destination' = call[c].reply \o destination /\ UNCHANGED source
       ELSE /\ source # <<>>
            /\ source' = Front(source)
            /\ call' = [call EXCEPT ![c].reply = <<Last(source)>>]
            /\ UNCHANGED destination
    /\ UNCHANGED <<counter, cell, calls, replies, taken>>

\* Blocks while the source is empty; on a timeout the reply is nil.
BRPoplpush(c) ==
    /\ call[c].op = "BRPoplpush"
    /\ IF source = <<>> THEN Answer(c, <<>>) /\ UNCHANGED <<source, destination>>
       ELSE /\ Answer(c, <<Last(source)>>)
            /\ source' = Front(source)
            /\ destination' = <<Last(source)>> \o destination
    /\ UNCHANGED <<counter, cell, calls, replies, taken>>

GetString(c) ==
    /\ call[c].op = "GetString"
    /\ Answer(c, cell)
    /\ UNCHANGED <<counter, cell, source, destination, calls, replies, taken>>

Set(c) ==
    /\ call[c].op = "Set"
    /\ cell' = <<"value">>
    /\ Answer(c, <<"OK">>)
    /\ UNCHANGED <<counter, source, destination, calls, replies, taken>>

\* The server executes the command.
Apply(c) ==
    /\ call[c].st = "sent"
    /\ Incr(c) \/ Lpop(c) \/ BRPoplpush(c) \/ GetString(c) \/ Set(c)

Return(c, ok, v) ==
    /\ call' = [call EXCEPT ![c] = [@ EXCEPT !.st = "idle", !.reply = <<>>]]
    /\ replies' = replies \cup {[n |-> Cardinality(replies), op |-> call[c].op, ok |-> ok, value |-> v]}
    /\ UNCHANGED <<counter, cell, source, destination, calls, taken>>

\* The reply arrives.  For the reading commands a nil is "" and no error; the
\* blocking ones hand the error redis.Nil on.
Reply(c) ==
    /\ call[c].st = "applied"
    /\ LET nil == call[c].reply = <<>>
       IN Return(c, ~nil \/ call[c].op \in {"GetString", "Lpop"}, call[c].reply)

\* The connection fails, before or after the command was executed.
Lost(c) ==
    /\ call[c].st \in {"sent", "applied"}
    /\ IF call[c].tries > MaxRetries THEN Return(c, FALSE, <<>>)
       ELSE /\ call' = [call EXCEPT ![c].st = "sent", ![c].tries = @ + 1, ![c].reply = <<>>]
            /\ UNCHANGED <<counter, cell, source, destination, calls, replies, taken>>

Next == \E c \in Clients : Apply(c) \/ Reply(c) \/ Lost(c) \/ \E o \in Ops : Call(c, o)

Spec == Init /\ [][Next]_connVars

-----------------------------------------------------------------------------
(* Properties                                                              *)

Good(o) == {r \in replies : r.op = o /\ r.ok}

\* Two calls of Incr that succeed never return the same number, whatever was
\* lost and repeated: numbers are skipped, not shared.
IncrDistinct == \A r, s \in Good("Incr") : r.value = s.value => r = s

\* The counter is at least what the successful calls make, and at most what
\* every call with all its repetitions makes.
IncrBounded ==
    /\ Cardinality(Good("Incr")) <= counter
    /\ counter <= (MaxRetries + 1) * calls["Incr"]

\* BRPoplpush never loses an element, even when its reply is lost: it is in one
\* of the lists or was taken by an Lpop, which can lose it.  No element is
\* handed out twice.
ElementsKept ==
    /\ Range(source) \cup Range(destination) \cup taken = Range(Elements)
    /\ Len(source) + Len(destination) + Cardinality(taken) = Len(Elements)
    /\ \A r, s \in Good("BRPoplpush") \cup Good("Lpop") : r.value = s.value /\ r.value # <<>> => r = s
=============================================================================
