-------------------------------- MODULE Uuid --------------------------------
(***************************************************************************)
(* pkg/util/uuid.go: the time-based UUIDs, whose only state is the time    *)
(* and the clock sequence of the last one, and the reading of a UUID's     *)
(* text.  getStorage runs under storageMutex and is one step; the wall     *)
(* clock moves on, stands still or is set back between two calls.          *)
(***************************************************************************)
EXTENDS Integers, Sequences, FiniteSets, FiniteSetsExt

CONSTANTS SeqMod,      \* values of the clock sequence, 2^14 in a UUID
          LastTick,    \* bound of the model: the clock's range
          MaxBumps,    \* bound of the model: increments of the clock sequence
          Texts        \* texts that are read

\* "h" is a hexadecimal digit, "open" and "close" are the braces, "u" one of the
\* nine characters of the URN prefix, "x" any other.
Characters == {"h", "-", "open", "close", "u", "x"}

UuidAssumption ==
    /\ SeqMod \in Nat \ {0} /\ MaxBumps \in Nat /\ LastTick \in Nat
    /\ \A s \in Texts : s \in Seq(Characters)

VARIABLES wallClock,   \* epochFunc
          lastTime, clockSequence,
          bumps,       \* increments of the clock sequence so far
          issued, v1,  \* UUIDs of version 1: their number, and [n, time, seq, bump]
          text, parsed \* the last text read and the result

uuidVars == <<wallClock, lastTime, clockSequence, bumps, issued, v1, text, parsed>>

\* Fault: two UUIDs of one tick count as different times.
getStorage_Strict == IF wallClock < lastTime THEN 1 ELSE 0

\* A time that is not later than the last one: the clock sequence moves on.
getStorage == IF wallClock <= lastTime THEN 1 ELSE 0

\* The 16 bits of the clock sequence overflow; SetVariant overwrites the upper
\* two, which leaves SeqMod values.
Issue(step) ==
    /\ bumps + step <= MaxBumps
    /\ clockSequence' = (clockSequence + step) % (4 * SeqMod)
    /\ bumps' = bumps + step
    /\ lastTime' = wallClock

NewV1 ==
    /\ Issue(getStorage)
    /\ issued' = issued + 1
    /\ v1' = v1 \cup {[n |-> issued, time |-> wallClock, seq |-> clockSequence' % SeqMod,
                       bump |-> bumps']}
    /\ UNCHANGED <<wallClock, text, parsed>>

\* A DCE UUID has the process's uid for the low part of the time: it shares the
\* storage with NewV1 and is not meant to be unique.
NewV2 ==
    /\ Issue(getStorage)
    /\ UNCHANGED <<wallClock, issued, v1, text, parsed>>

\* Time passes, or an operator sets the clock back.
ClockMoves ==
    /\ wallClock' \in 1 .. LastTick
    /\ wallClock' # wallClock
    /\ UNCHANGED <<lastTime, clockSequence, bumps, issued, v1, text, parsed>>

-----------------------------------------------------------------------------
(* Texts are sequences of Characters.                                      *)

Offset == <<1, 10, 15, 20, 25>>
Group  == <<8, 4, 4, 4, 12>>

urnPrefix   == [i \in 1 .. 9 |-> "u"]
IsUrn(s)    == SubSeq(s, 1, 9) = urnPrefix
IsBraced(s) == ~IsUrn(s) /\ s[1] = "open"
Body(s)     == IF IsUrn(s) THEN SubSeq(s, 10, Len(s)) ELSE IF IsBraced(s) THEN Tail(s) ELSE s

\* Fault: whatever follows the last group is ignored.
GroupError_NoTail(s, i) ==
    LET t    == Body(s)
        rest == Len(t) - Offset[i] + 1
    IN CASE i > 1 /\ Len(t) < Offset[i] - 1 -> "panic"
         [] i > 1 /\ Len(t) >= Offset[i] - 1 /\ t[Offset[i] - 1] # "-" -> "format"
         [] rest < Group[i] -> "short"
         [] \E k \in Offset[i] .. Offset[i] + Group[i] - 1 : k <= Len(t) /\ t[k] # "h" -> "hex"
         [] OTHER -> "ok"

\* One pass of the loop of UnmarshalText.  Nothing asks whether there is a
\* character left before t[0] is compared with the dash.
GroupError(s, i) ==
    LET t    == Body(s)
        rest == Len(t) - Offset[i] + 1
    IN CASE i > 1 /\ Len(t) < Offset[i] - 1 -> "panic"
         [] i > 1 /\ Len(t) >= Offset[i] - 1 /\ t[Offset[i] - 1] # "-" -> "format"
         [] rest < Group[i] -> "short"
         [] i = 5 /\ rest > Group[i]
                  /\ (rest > Group[i] + 1 \/ ~IsBraced(s) \/ t[Len(t)] # "close") -> "long"
         [] \E k \in Offset[i] .. Offset[i] + Group[i] - 1 : k <= Len(t) /\ t[k] # "h" -> "hex"
         [] OTHER -> "ok"

\* The first pass that fails decides.
UnmarshalText(s) ==
    IF Len(s) < 32 THEN "short"
    ELSE LET bad == {i \in 1 .. 5 : GroupError(s, i) # "ok"}
         IN IF bad = {} THEN "ok" ELSE GroupError(s, Min(bad))

\* FromString, FromStringOrNil, Scan.
FromString(s) ==
    /\ text' = s
    /\ parsed' = UnmarshalText(s)
    /\ UNCHANGED <<wallClock, lastTime, clockSequence, bumps, issued, v1>>

-----------------------------------------------------------------------------
\* initStorage: the clock sequence begins anywhere.
Init ==
    /\ wallClock = 1 /\ lastTime = 0
    /\ clockSequence \in 0 .. 4 * SeqMod - 1
    /\ bumps = 0 /\ issued = 0 /\ v1 = {}
    /\ text = <<>> /\ parsed = "none"

\* Reading a text and issuing UUIDs share nothing: a behaviour does one of them.
Next ==
    /\ parsed = "none"
    /\ \/ NewV1 \/ NewV2 \/ ClockMoves
       \/ lastTime = 0 /\ wallClock = 1 /\ \E s \in Texts : FromString(s)

Spec == Init /\ [][Next]_uuidVars

-----------------------------------------------------------------------------
(* Properties                                                              *)

\* No UUID of version 1 is issued twice before the clock sequence has gone all
\* the way round, however often the clock is set back and whoever else moves the
\* clock sequence.
V1Unique ==
    \A u, w \in v1 : u.n < w.n /\ u.time = w.time /\ u.seq = w.seq => w.bump - u.bump >= SeqMod

Hex(n) == [i \in 1 .. n |-> "h"]
Canonical == Hex(8) \o <<"-">> \o Hex(4) \o <<"-">> \o Hex(4) \o <<"-">> \o Hex(4) \o <<"-">> \o Hex(12)

\* The three forms UnmarshalText's comment lists are read, what String writes among
\* them, and of all other texts just one that it does not list: the braced form
\* without its closing brace, since only a text that goes on is looked at for one.
ReadsForms ==
    parsed # "none" =>
        (parsed = "ok" <=> text \in {Canonical, urnPrefix \o Canonical, <<"open">> \o Canonical,
                                      <<"open">> \o Canonical \o <<"close">>})

\* FromStringOrNil "returns a Nil UUID on error": reading a text ends with a
\* value or an error, never with a panic.
NoPanic == parsed # "panic"
=============================================================================
