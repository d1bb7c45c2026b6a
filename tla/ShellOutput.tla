----------------------------- MODULE ShellOutput -----------------------------
(***************************************************************************)
(* What a remote program writes, on its way to the window: the channel's   *)
(* packets, the decoder that puts characters together again, the reader    *)
(* task that forwards them and the batching task that emits events         *)
(* (open, batch_and_emit, take and Decoder in remote/shell.rs;             *)
(* remote/stream.rs has the same tasks around the same decoder).           *)
(*                                                                         *)
(* A byte is "A", a character of its own; "L2" or "L3", the first of two   *)
(* or of three; "C", a later one; or "X", which no character has.          *)
(* A decoded character is the sequence of its bytes, and Bad, U+FFFD.      *)
(*                                                                         *)
(* Abstracted: the deadline of a batch (a batch may end after any of its   *)
(* messages) and MAX_BATCH, which ends it no earlier.                      *)
(***************************************************************************)
EXTENDS Naturals, Sequences, Functions

CONSTANTS
  Bytes,        \* the kinds of byte that are written
  Programs,     \* bound: output -> all the bytes a program may write to it
  ExitCodes

(* Both outputs of a program are made of bytes, and None is no exit code.  *)
OutputAssumption ==
  Programs \subseteq [{"out", "err"} -> Seq(Bytes)] /\ "none" \notin ExitCodes

VARIABLES
  program,   \* what the program has yet to write
  wrote,     \* output -> the bytes the program has written
  unread,    \* the packets the channel still holds, and the exit status
  pending,   \* output -> Decoder.pending
  queue,     \* messages between the two tasks
  batch,     \* what the batching task has taken, or NoBatch
  shown,     \* output -> the characters emitted
  code,      \* exit_code of the batching task
  status,    \* the exit status the program left, or None
  ended      \* "no", then "channel", "reader", and "closed" when the event is out

vars == <<program, wrote, unread, pending, queue, batch, shown, code, status, ended>>

Outputs == {"out", "err"}
None == "none"
NoBatch == <<>>
Bad == <<"bad">>
Nothing == [o \in Outputs |-> <<>>]

TypeOK ==
  /\ program \in [Outputs -> Seq(Bytes)]
  /\ wrote \in [Outputs -> Seq(Bytes)]
  /\ pending \in [Outputs -> Seq(Bytes)]
  /\ \A m \in Range(unread) : m.of \in Outputs \cup {"exit"}
  /\ \A m \in Range(queue) : m.of \in Outputs \cup {"exit"}
  /\ batch = NoBatch \/ DOMAIN batch = Outputs
  /\ DOMAIN shown = Outputs
  /\ code \in ExitCodes \cup {None} /\ status \in ExitCodes \cup {None}
  /\ ended \in {"no", "channel", "reader", "closed"}

-----------------------------------------------------------------------------
(* UTF-8.                                                                  *)

Width(b) == CASE b = "A" -> 1 [] b = "L2" -> 2 [] b = "L3" -> 3 [] OTHER -> 0

(* How many of the first bytes of s can begin one character.               *)
Begins(s, n) == n = 0 \/ (n <= Width(s[1]) /\ \A i \in 2 .. n : s[i] = "C")
Fits(s) == CHOOSE n \in 0 .. Len(s) : Begins(s, n) /\ \A k \in n + 1 .. Len(s) : ~Begins(s, k)

IsWhole(s) == s # <<>> /\ Fits(s) > 0 /\ Fits(s) = Width(s[1])
Cut(s) == s # <<>> /\ Fits(s) = Len(s) /\ ~IsWhole(s)   \* may yet become a character

(* What s begins with: a character, or the bytes that are wrong together,  *)
(* and what comes after.                                                   *)
First(s) == IF IsWhole(s) THEN SubSeq(s, 1, Fits(s)) ELSE Bad
Rest(s) == SubSeq(s, (IF Fits(s) = 0 THEN 1 ELSE Fits(s)) + 1, Len(s))

(* from_utf8_lossy of all of s, a truncated tail left out.                 *)
Lossy[s \in Seq(Bytes)] ==
  IF s = <<>> \/ Cut(s) THEN <<>> ELSE <<First(s)>> \o Lossy[Rest(s)]

(* std::str::from_utf8: the characters up to valid_up_to, and the rest.    *)
Valid[s \in Seq(Bytes)] ==
  IF IsWhole(s)
    THEN LET more == Valid[Rest(s)]
         IN  [text |-> <<First(s)>> \o more.text, rest |-> more.rest]
    ELSE [text |-> <<>>, rest |-> s]

(* Mutant of Decode: an invalid byte takes the rest of the packet with it. *)
DecodeDrops(s) ==
  LET v == Valid[s] IN
  IF v.rest = <<>> \/ Cut(v.rest) THEN [text |-> v.text, pending |-> v.rest]
    ELSE [text |-> Append(v.text, Bad), pending |-> <<>>]

(* Decoder::push.  error_len is None where the tail is merely cut off; a   *)
(* byte that is wrong is consumed with the bytes it breaks, and decoding   *)
(* stops there until more is pushed.                                       *)
Decode(s) ==
  LET v == Valid[s] IN
  IF v.rest = <<>> \/ Cut(v.rest) THEN [text |-> v.text, pending |-> v.rest]
    ELSE [text |-> Append(v.text, Bad), pending |-> Rest(v.rest)]

-----------------------------------------------------------------------------
(* The program, whose packets cut its bytes anywhere.                      *)
Write(o, n) ==
  LET packet == SubSeq(program[o], 1, n) IN
  /\ ended = "no" /\ n <= Len(program[o])
  /\ program' = [program EXCEPT ![o] = SubSeq(@, n + 1, Len(@))]
  /\ wrote' = [wrote EXCEPT ![o] = @ \o packet]
  /\ unread' = Append(unread, [of |-> o, data |-> packet])
  /\ UNCHANGED <<pending, queue, batch, shown, code, status, ended>>

(* Output may still be behind the status.                                  *)
Exit(c) ==
  /\ ended = "no" /\ status = None
  /\ status' = c
  /\ unread' = Append(unread, [of |-> "exit", data |-> <<c>>])
  /\ UNCHANGED <<program, wrote, pending, queue, batch, shown, code, ended>>

ChannelEnds ==
  /\ ended = "no"
  /\ ended' = "channel"
  /\ UNCHANGED <<program, wrote, unread, pending, queue, batch, shown, code, status>>

(* The reader task.  A packet that completes nothing sends nothing.        *)
Read ==
  /\ unread # <<>>
  /\ LET m == Head(unread) IN
       IF m.of = "exit"
         THEN queue' = Append(queue, m) /\ UNCHANGED pending
         ELSE LET d == Decode(pending[m.of] \o m.data) IN
              /\ pending' = [pending EXCEPT ![m.of] = d.pending]
              /\ queue' = IF d.text = <<>> THEN queue
                          ELSE Append(queue, [of |-> m.of, data |-> d.text])
  /\ unread' = Tail(unread)
  /\ UNCHANGED <<program, wrote, batch, shown, code, status, ended>>

ReaderEnds ==
  /\ ended = "channel" /\ unread = <<>>
  /\ ended' = "reader"
  /\ UNCHANGED <<program, wrote, unread, pending, queue, batch, shown, code, status>>

(* take, in batch_and_emit.                                                *)
Take ==
  /\ queue # <<>>
  /\ LET m == Head(queue)
         had == IF batch = NoBatch THEN Nothing ELSE batch
     IN  IF m.of = "exit" THEN code' = m.data[1] /\ batch' = had
         ELSE UNCHANGED code /\ batch' = [had EXCEPT ![m.of] = @ \o m.data]
  /\ queue' = Tail(queue)
  /\ UNCHANGED <<program, wrote, unread, pending, shown, status, ended>>

(* The window elapsed, the batch is full, or the reader is gone.           *)
Emit ==
  /\ batch # NoBatch
  /\ shown' = [o \in Outputs |-> shown[o] \o batch[o]]
  /\ batch' = NoBatch
  /\ UNCHANGED <<program, wrote, unread, pending, queue, code, status, ended>>

(* Mutant of Finished: the loop ends as soon as the exit status is known.  *)
FinishedAtExit == batch = NoBatch /\ code # None /\ ended # "closed"

(* recv answers None only when the reader is gone and nothing is queued.   *)
Finished == ended = "reader" /\ queue = <<>> /\ batch = NoBatch

Closed ==
  /\ Finished
  /\ ended' = "closed"
  /\ UNCHANGED <<program, wrote, unread, pending, queue, batch, shown, code, status>>

-----------------------------------------------------------------------------
Init ==
  /\ program \in Programs
  /\ wrote = Nothing /\ unread = <<>> /\ pending = Nothing /\ queue = <<>>
  /\ batch = NoBatch /\ shown = Nothing /\ code = None /\ status = None /\ ended = "no"

Next ==
  \/ \E o \in Outputs : \E n \in 1 .. Len(program[o]) : Write(o, n)
  \/ \E c \in ExitCodes : Exit(c)
  \/ ChannelEnds \/ Read \/ ReaderEnds \/ Take \/ Emit \/ Closed

Spec == Init /\ [][Next]_vars

-----------------------------------------------------------------------------
(* shell.rs:9: "UTF-8 is reassembled across packets".  However the bytes   *)
(* are cut into packets, what has been decoded and what is still pending   *)
(* make the text that all the bytes read make, nothing lost, doubled or    *)
(* out of order on the way to the window; and when the close is announced, *)
(* no decoded character and no exit status is still on the way.            *)
Part(m, o) == IF m.of = o THEN m.data ELSE <<>>
Carried(messages, o) ==
  LET upTo[i \in 0 .. Len(messages)] ==
        IF i = 0 THEN <<>> ELSE upTo[i - 1] \o Part(messages[i], o)
  IN  upTo[Len(messages)]
Taken(o) == IF batch = NoBatch THEN <<>> ELSE batch[o]
Decoded(o) == shown[o] \o Taken(o) \o Carried(queue, o)

TextIsKept ==
  /\ \A o \in Outputs : Decoded(o) \o Lossy[pending[o] \o Carried(unread, o)] = Lossy[wrote[o]]
  /\ ended = "closed" => code = status /\ \A o \in Outputs : shown[o] = Decoded(o)

(* shell.rs:324: "the stream must not stall on it".  When the close is     *)
(* announced, every character the program wrote has been shown.            *)
NothingLostAtClose ==
  ended = "closed" => \A o \in Outputs : shown[o] = Lossy[wrote[o]]
=============================================================================
