------------------------------- MODULE Sender -------------------------------
(***************************************************************************)
(* pysend.py and the loop of main.c: a job is sent line by line, each line *)
(* with its checksum, through a port that may damage a character; main     *)
(* feeds what arrives to the parser and answers.                           *)
(*                                                                         *)
(* A line of the job has the text the host sends and the meaning the       *)
(* firmware should find in it.  What process_command does with a command   *)
(* is not of interest here: the commands are logged.                       *)
(***************************************************************************)
EXTENDS Parser, FiniteSets, SequencesExt

CONSTANTS Jobs,       \* a sequence of jobs, each a sequence of lines
          Noise,      \* characters that may arrive instead of another one
          MaxFaults,  \* bound on the characters damaged
          MaxFull     \* bound on the replies that tell of a full queue

VARIABLES job,      \* which of the jobs the host sends
          line,     \* which of its lines is next, or under way
          host,     \* where the host is: "send", "probing" or "waiting"
          room,     \* queuefree > 1
          wire,     \* characters on their way to the parser
          replies,  \* answers on their way to the host
          log,      \* commands that were executed and were not empty
          trouble,  \* what has gone wrong so far
          fulls     \* replies so far that told of a full queue

hostVars == <<job, line, host, room>>
vars == <<p, hostVars, wire, replies, log, trouble, fulls>>

Lines      == Jobs[job]
Text(l)    == l.text
Meaning(l) == [numbers |-> l.numbers, codes |-> l.codes, bytes |-> l.bytes]
Nothing == [numbers |-> <<>>, codes |-> {}, bytes |-> <<>>]

Init ==
  /\ ParserInit
  /\ job \in DOMAIN Jobs /\ line = 1
  /\ host = "send" /\ room = FALSE
  /\ wire = <<>> /\ replies = <<>> /\ log = <<>>
  /\ trouble = {} /\ fulls = 0
-----------------------------------------------------------------------------
(* The host. *)

(* All characters xor-ed: the parity of each bit. *)
Sum(t) == OfBits([k \in 0 .. 7 |-> Cardinality({i \in DOMAIN t : Bit(t[i], k) = 1}) % 2])
Numeral(n) == 48 + n
Decimal(n) ==
  CASE n < 10  -> <<Numeral(n)>>
    [] n \in 10 .. 99 -> <<Numeral(n \div 10), Numeral(n % 10)>>
    [] OTHER   -> <<Numeral(n \div 100), Numeral((n \div 10) % 10), Numeral(n % 10)>>

Checked(t) == t \o <<Star>> \o Decimal(Sum(t)) \o <<Newline>>

(* What sendline writes for each line of the jobs. *)
Sent == [j \in DOMAIN Jobs |-> [i \in DOMAIN Jobs[j] |-> Checked(Text(Jobs[j][i]))]]

(* checkqueue: an empty line, for the sake of the answer. *)
Probe ==
  /\ host = "send" /\ ~room /\ line <= Len(Lines)
  /\ wire' = wire \o <<Newline>>
  /\ host' = "probing"
  /\ UNCHANGED <<p, job, line, room, replies, log, trouble, fulls>>

SendLine ==
  /\ host = "send" /\ room /\ line <= Len(Lines)
  /\ wire' = wire \o Sent[job][line]
  /\ host' = "waiting"
  /\ UNCHANGED <<p, job, line, room, replies, log, trouble, fulls>>

(* Mutant of Again: a request to send again ignored. *)
NeverAgain(r) == FALSE

Again(r) == r = "resend!"

(* What one read returned, checkreply: only the last answer in it counts.  *)
Answer(r) ==
  /\ room' = CASE r = "OK" -> TRUE [] r = "OK full" -> FALSE [] OTHER -> room
  /\ IF host = "waiting" /\ ~Again(r) THEN line' = line + 1 ELSE UNCHANGED line
  /\ host' = "send"
  /\ UNCHANGED job

(* A read returns whole answers ... *)
CheckReply ==
  /\ host \in {"probing", "waiting"} /\ "died" \notin trouble
  /\ \E n \in 1 .. Len(replies) :
       /\ Answer(replies[n])
       /\ replies' = SubSeq(replies, n + 1, Len(replies))
  /\ UNCHANGED <<p, wire, log, trouble, fulls>>

(* ... or ends within the one after them, at the port's timeout: once.  A  *)
(* piece of an answer says nothing, or all when only its newline is cut    *)
(* off; and `OK 12' may be read as `OK 1'.  The rest says nothing.         *)
Torn(r) == {"torn", r} \cup (IF r = "OK" THEN {"OK full"} ELSE {})

CheckTornReply ==
  /\ host \in {"probing", "waiting"}
  /\ "torn" \notin trouble /\ trouble' = trouble \cup {"torn"}
  /\ \E n \in 1 .. Len(replies) - 1 :
       /\ \E r \in Torn(replies[n + 1]) : Answer(r)
       /\ replies' = <<"torn">> \o SubSeq(replies, n + 2, Len(replies))
  /\ UNCHANGED <<p, wire, log, fulls>>

(* `OK' without its number cannot be unpacked (pysend.py:28), and nobody   *)
(* catches the ValueError: the host ends in the middle of the job.         *)
UnpackFails ==
  /\ host \in {"probing", "waiting"}
  /\ "torn" \notin trouble /\ trouble' = trouble \cup {"torn", "died"}
  /\ \E n \in 1 .. Len(replies) - 1 : replies[n + 1] \in {"OK", "OK full"}
  /\ UNCHANGED <<p, hostVars, wire, replies, log, fulls>>
-----------------------------------------------------------------------------
(* The firmware. *)

Refused == p'.state = "ERROR_STATE"

(* A character within a line, and main's answer once the line is wrong. *)
Within(c, kind) ==
  /\ NextChar(c)
  /\ replies' = IF Refused /\ c # Return THEN Append(replies, "FORMAT ERROR") ELSE replies
  /\ trouble' = trouble \cup kind \cup (IF Refused THEN {"format"} ELSE {})
  /\ UNCHANGED <<log, fulls>>

Reply(verdict) ==
  CASE verdict = "PARSER_CHECKSUM_ERROR" -> {"resend!"}
    [] verdict = "PARSER_FORMAT_ERROR"   -> {"FORMAT ERROR"}
    [] verdict = "PARSER_OK" -> {"OK"} \cup (IF fulls < MaxFull THEN {"OK full"} ELSE {})

LineEnd(c, kind) ==
  LET verdict == Verdict(Ready)
  IN  /\ EndOfLine(c)
      /\ \E r \in Reply(verdict) :
           /\ replies' = Append(replies, r)
           /\ fulls' = IF r = "OK full" THEN fulls + 1 ELSE fulls
      /\ log' = IF verdict = "PARSER_OK" /\ Command(Ready) # Nothing
                THEN Append(log, Command(Ready)) ELSE log
      /\ trouble' = trouble \cup kind

Receive(c, kind) == Within(c, kind) \/ LineEnd(c, kind)

Deliver ==
  /\ wire # <<>> /\ wire' = Tail(wire)
  /\ Receive(Head(wire), {})
  /\ UNCHANGED hostVars

Kind(c, d) == CASE c = Newline -> "end" [] d = Star -> "star"
                [] d = Newline -> "newline" [] OTHER -> "text"
Damages == trouble \cap {"end", "star", "newline", "text"}

Replace ==
  /\ wire # <<>> /\ wire' = Tail(wire)
  /\ Cardinality(Damages) < MaxFaults
  /\ \E d \in Noise \ {Head(wire)} : Receive(d, {Kind(Head(wire), d)})
  /\ UNCHANGED hostVars

Lose ==
  /\ wire # <<>> /\ wire' = Tail(wire)
  /\ Cardinality(Damages) < MaxFaults
  /\ trouble' = trouble \cup {IF Head(wire) = Newline THEN "end" ELSE "text"}
  /\ UNCHANGED <<p, hostVars, replies, log, fulls>>

Done ==
  /\ line > Len(Lines)
  /\ wire = <<>>
  /\ UNCHANGED vars

Next ==
  \/ Probe \/ SendLine \/ CheckReply \/ CheckTornReply \/ UnpackFails
  \/ Deliver \/ Replace \/ Lose
  \/ Done

Spec == Init /\ [][Next]_vars

Host == Probe \/ SendLine \/ CheckReply

(* Host and port do not both stop. *)
FairSpec == Spec /\ WF_vars(Host \/ Deliver)
-----------------------------------------------------------------------------
Good(l)     == ~l.refused /\ Meaning(l) # Nothing

(* The commands of the first n lines of a job, and of all of them. *)
Commanded(j) ==
  LET first[n \in 0 .. Len(j)] ==
        IF n = 0 THEN <<>>
        ELSE IF Good(j[n]) THEN Append(first[n - 1], Meaning(j[n])) ELSE first[n - 1]
  IN  first
Commands(j) == Commanded(j)[Len(j)]

HasBytes(c) == c.bytes # <<>>
Rasters(cs) == SelectSeq(cs, HasBytes)
Finished    == line > Len(Lines) /\ wire = <<>>

(* On an undisturbed line the firmware executes every line of the job that *)
(* is well formed, in order, once, with exactly the numbers and bytes it   *)
(* was written with, whatever the lines before it left in the parser and   *)
(* however late the host reads the answers.                                *)
ExecutesJob ==
  trouble \subseteq {"format", "torn", "died"} =>
    /\ IsPrefix(log, Commands(Lines))
    /\ Finished => log = Commands(Lines)

(* A damaged raster line leaves no trace: what reaches the raster buffer   *)
(* is a whole line of the job.  Only a character turned into '*' can       *)
(* shorten one unnoticed.  And when the checksum catches the damage, and   *)
(* no line is refused for its form, the host sends again and every raster  *)
(* line is executed once, in order.                                        *)
RastersOnce ==
  /\ "star" \notin trouble =>
       \A i \in DOMAIN log : HasBytes(log[i]) => \E k \in DOMAIN Lines : log[i] = Meaning(Lines[k])
  /\ trouble \subseteq {"text", "torn", "died"} =>
       /\ IsPrefix(Rasters(log), Rasters(Commands(Lines)))
       /\ Finished => Rasters(log) = Rasters(Commands(Lines))

(* The host reaches the end of the job, unless the end of a line is lost:  *)
(* then it waits for an answer and the parser for the rest of the line; or *)
(* unless the host ends on an answer it cannot read.                       *)
JobEnds == <>(line > Len(Lines)) \/ <>("end" \in trouble) \/ <>("died" \in trouble)
=============================================================================
