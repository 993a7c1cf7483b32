----------------------------- MODULE PtyProofs -----------------------------
(***************************************************************************)
(* Safety of the terminal-scraping client, for any number of commands and  *)
(* any output of the device.  The text that the server has written and the *)
(* client has not yet searched is in three places: the client's buffer,    *)
(* the result of a Read, and the channel.  The argument is about their     *)
(* concatenation, in which a step of the client only moves the borders.    *)
(***************************************************************************)
EXTENDS Pty, SequenceTheorems, FunctionTheorems, NaturalsInduction, WellFoundedInduction, TLAPS

Total == Len(Lines)

\* The lines that the client sends, the exit included.
Said(k) == IF k <= Total THEN Lines[k] ELSE "exit"

\* Lines that the server has echoed: the one that it is about to run, too.
Echoed == executed + (IF server = "exec" THEN 1 ELSE 0)

\* What the server has written and the client has not yet searched.
Pending == (buf \o chunk) \o toClient

\* There is no line k in the text.
Lacks(text, k) == k <= Total => \A i \in 1..Len(text) : text[i] # Said(k)

\* After place f of the text, line k does not follow a prompt.
NoFalseEcho(text, f, k) ==
    k <= Total => \A i, j \in 1..Len(text) : f < i /\ i < j /\ text[i] = "prompt" => text[j] # Said(k)

\* Line k is in the text, for the first time at place f.
FirstAt(text, f, k) ==
    /\ f \in 1..Len(text)
    /\ text[f] = Said(k)
    /\ \A i \in 1..Len(text) : i < f => text[i] # Said(k)

-----------------------------------------------------------------------------

\* The client has sent c lines, has seen their echoes and waits for a prompt.
AwaitsPrompt(c) ==
    /\ Echoed = c
    /\ server = "exec" => Pending = <<>>
    /\ NoFalseEcho(Pending, 0, c + 1)

\* The client is about to send line c + 1, of which there is no trace yet.
Sends(c) ==
    /\ Echoed = c
    /\ server # "exec"
    /\ Lacks(Pending, c + 1)

\* The echo of line c + 1 has been written.  What follows it is what the server
\* wrote about that line.
EchoWritten(c) ==
    /\ Echoed = c + 1
    /\ \E f \in 1..Len(Pending) :
          /\ FirstAt(Pending, f, c + 1)
          /\ server = "exec" => f = Len(Pending)
          /\ NoFalseEcho(Pending, f, c + 2)

\* The client has sent line c + 1 and waits for its echo.
AwaitsEcho(c) == Sends(c) \/ EchoWritten(c)

\* Client and server are at most one line apart, and the text shows which.
InStep ==
    \A c \in 0..Total :
        /\ pos = 3 * c + 1 => AwaitsPrompt(c)
        /\ pos = 3 * c + 2 => Sends(c)
        /\ pos = 3 * c + 3 /\ c < Total => AwaitsEcho(c)

\* Lines reach the server in order: those that have been sent and, unless the
\* connection is down, all of them.
Queued ==
    /\ \A i \in 1..Len(toServer) : toServer[i] = Said(Echoed + i)
    /\ \A c \in 0..Total :
          /\ pos = 3 * c + 1 \/ pos = 3 * c + 2 =>
                Echoed + Len(toServer) <= c /\ (conn = "up" => Echoed + Len(toServer) = c)
          /\ pos = 3 * c + 3 =>
                /\ Echoed + Len(toServer) <= c + 1
                /\ conn = "up" /\ c < Total => Echoed + Len(toServer) = c + 1
    /\ pos = 0 => Echoed + Len(toServer) = 0
    /\ Echoed <= Total
    /\ server = "exec" => line = Said(Echoed)

\* A place of the plan for the outcome.
Placed ==
    /\ pos = 0 => outcome # "ok" /\ Pending = <<>>
    /\ pos = 0 <=> server = "idle"
    /\ outcome = "none" => pos < 3 * Total + 3
    /\ outcome = "ok" => pos = 3 * Total + 3

\* The invariant that the steps keep.
IInv ==
    /\ TypeOK
    /\ Queued
    /\ Placed
    /\ reader # "read" => chunk = <<>>
    /\ outcome = "none" /\ ~Misleading => InStep
    /\ outcome = "ok" /\ ~Misleading => executed = Total /\ server # "exec"

-----------------------------------------------------------------------------
(* The lines and the plan *)

\* The preparation and the commands of ptyExecCmds.
LEMMA TheLines ==
    /\ Total = Commands + 2
    /\ Total \in Nat
    /\ Lines \in Seq(Texts)
    /\ Lines[1] = "length"
    /\ Lines[2] = "width"
    /\ \A k \in 3..Total : Lines[k] = "show"
<1> DEFINE prep == <<"length", "width">>
           cmds == [i \in 1..Commands |-> "show"]
<1>1. Commands \in Nat
  BY CommandsAssumption
<1>2. prep \in Seq(Texts) /\ Len(prep) = 2 /\ prep[1] = "length" /\ prep[2] = "width"
  BY DEF Texts
<1>3. cmds \in Seq(Texts) /\ Len(cmds) = Commands /\ \A i \in 1..Commands : cmds[i] = "show"
  <2>1. cmds \in [1..Commands -> Texts]
    BY DEF Texts
  <2>2. cmds \in Seq(Texts)
    BY <1>1, <2>1, SeqDef
  <2>3. DOMAIN cmds = 1..Commands
    OBVIOUS
  <2>4. Len(cmds) = Commands
    BY <1>1, <2>2, <2>3, LenProperties
  <2> QED
    BY <2>2, <2>4
<1>4. Lines = prep \o cmds
  BY DEF Lines
<1> HIDE DEF prep, cmds
<1>5. /\ prep \o cmds \in Seq(Texts)
      /\ Len(prep \o cmds) = Len(prep) + Len(cmds)
      /\ \A i \in 1 .. Len(prep) + Len(cmds) :
            (prep \o cmds)[i] = IF i <= Len(prep) THEN prep[i] ELSE cmds[i - Len(prep)]
  BY <1>2, <1>3, ConcatProperties
<1>6. Total = Commands + 2
  BY <1>1, <1>2, <1>3, <1>4, <1>5 DEF Total
<1>7. Lines[1] = "length" /\ Lines[2] = "width"
  BY <1>1, <1>2, <1>3, <1>4, <1>5
<1>8. ASSUME NEW k \in 3..Total PROVE Lines[k] = "show"
  <2>1. k \in 1 .. Len(prep) + Len(cmds) /\ ~(k <= Len(prep)) /\ k - Len(prep) \in 1..Commands
    BY <1>1, <1>2, <1>3, <1>6
  <2>2. Lines[k] = cmds[k - Len(prep)]
    BY <1>4, <1>5, <2>1
  <2> QED
    BY <1>3, <2>1, <2>2
<1>9. Total \in Nat
  BY <1>1, <1>6
<1>10. Lines \in Seq(Texts)
  BY <1>4, <1>5, Zenon
<1> QED
  BY <1>6, <1>7, <1>8, <1>9, <1>10, Zenon

\* A line is a text of its own: neither the prompt nor the exit.
LEMMA LineText ==
    ASSUME NEW k \in 1..Total
    PROVE  Said(k) = Lines[k] /\ Said(k) \in {"length", "width", "show"}
<1>1. k = 1 \/ k = 2 \/ k \in 3..Total
  BY TheLines
<1>2. Lines[k] \in {"length", "width", "show"}
  BY <1>1, TheLines
<1> QED
  BY <1>2, TheLines DEF Said

\* What is sent is never the prompt, and the exit only after the last line.
LEMMA SaidText ==
    ASSUME NEW k \in Nat \ {0}
    PROVE  Said(k) \in Texts /\ Said(k) # "prompt" /\ (Said(k) = "exit" <=> k > Total)
<1>1. CASE k <= Total
  <2>1. k \in 1..Total
    BY <1>1, TheLines
  <2> QED
    BY <1>1, <2>1, LineText, TheLines DEF Texts
<1>2. CASE k > Total
  BY <1>2, TheLines DEF Said, Texts
<1> QED
  BY <1>1, <1>2, TheLines

\* After a show there are only shows.
LEMMA ShowAgain ==
    ASSUME NEW k \in 1..Total, k + 1 <= Total, Said(k) = "show"
    PROVE  Said(k + 1) = "show"
<1>1. k # 1 /\ k # 2
  BY LineText, TheLines
<1>2. k + 1 \in 3..Total
  BY <1>1, TheLines
<1> QED
  BY <1>2, TheLines DEF Said

\* Three steps for each line, the first prompt and the exit.
LEMMA PlanLength == DOMAIN Plan = 1..(3 * Total + 2) /\ Len(Plan) = 3 * Total + 2
<1>1. Total \in Nat
  BY TheLines
<1>2. DOMAIN Plan = 1..(3 * Total + 2)
  BY DEF Plan, Total
<1> QED
  BY <1>1, <1>2

\* The places of the plan, three for each line.
LEMMA Places ==
    ASSUME NEW p \in 1..(3 * Total + 3)
    PROVE  \E c \in 0..Total : p = 3 * c + 1 \/ p = 3 * c + 2 \/ p = 3 * c + 3
<1>1. Total \in Nat
  BY TheLines
<1> DEFINE c == (p - 1) \div 3
<1>2. c \in 0..Total /\ (p = 3 * c + 1 \/ p = 3 * c + 2 \/ p = 3 * c + 3)
  BY <1>1
<1> QED
  BY <1>2

\* The plan waits for the prompt at first and after each line.
LEMMA PlanPrompt ==
    ASSUME NEW c \in 0..Total
    PROVE  3 * c + 1 \in DOMAIN Plan /\ Plan[3 * c + 1] = Wait("prompt")
<1>1. Total \in Nat /\ 3 * c + 1 \in 1..(3 * Total + 2) /\ 3 * c + 1 # 3 * Total + 2
  BY TheLines
<1>2. CASE c = 0
  BY <1>1, <1>2 DEF Plan, Total
<1>3. CASE c # 0
  <2>1. ((3 * c + 1) + 1) % 3 = 2 /\ 3 * c + 1 # 1
    BY <1>3
  <2>2. Plan[3 * c + 1] = LineSteps(Lines[((3 * c + 1) + 1) \div 3])[2 + 1]
    BY <1>1, <2>1 DEF Plan, Total
  <2> QED
    BY <1>1, <2>2, PlanLength DEF LineSteps
<1> QED
  BY <1>2, <1>3

\* The plan sends the lines in order, then the exit.
LEMMA PlanSend ==
    ASSUME NEW c \in 0..Total
    PROVE  3 * c + 2 \in DOMAIN Plan /\ Plan[3 * c + 2] = Send(Said(c + 1))
<1>1. Total \in Nat /\ 3 * c + 2 \in 1..(3 * Total + 2) /\ 3 * c + 2 # 1
  BY TheLines
<1>2. CASE c = Total
  BY <1>1, <1>2 DEF Plan, Total, Said
<1>3. CASE c < Total
  <2>1. ((3 * c + 2) + 1) % 3 = 0 /\ ((3 * c + 2) + 1) \div 3 = c + 1 /\ 3 * c + 2 # 3 * Total + 2
    BY <1>1, <1>3
  <2>2. Plan[3 * c + 2] = LineSteps(Lines[c + 1])[0 + 1]
    BY <1>1, <2>1 DEF Plan, Total
  <2>3. Said(c + 1) = Lines[c + 1]
    BY <1>1, <1>3 DEF Said
  <2> QED
    BY <1>1, <2>2, <2>3, PlanLength DEF LineSteps
<1> QED
  BY <1>1, <1>2, <1>3

\* The plan waits for the echo of a line after sending it.
LEMMA PlanEcho ==
    ASSUME NEW c \in 0..Total, c < Total
    PROVE  3 * c + 3 \in DOMAIN Plan /\ Plan[3 * c + 3] = Wait(Said(c + 1))
<1>1. Total \in Nat /\ 3 * c + 3 \in 1..(3 * Total + 2) /\ 3 * c + 3 # 1 /\ 3 * c + 3 # 3 * Total + 2
  BY TheLines
<1>2. ((3 * c + 3) + 1) % 3 = 1 /\ ((3 * c + 3) + 1) \div 3 = c + 1
  BY <1>1
<1>3. Plan[3 * c + 3] = LineSteps(Lines[c + 1])[1 + 1]
  BY <1>1, <1>2 DEF Plan, Total
<1>4. Said(c + 1) = Lines[c + 1]
  BY <1>1 DEF Said
<1> QED
  BY <1>1, <1>3, <1>4, PlanLength DEF LineSteps

-----------------------------------------------------------------------------
(* Texts *)

\* Concatenation of texts is associative.
LEMMA Joined == \A s, t, u \in Seq(Texts) : (s \o t) \o u = s \o (t \o u)
BY ConcatAssociative

\* Text that is added at the end.
LEMMA LacksMore ==
    ASSUME NEW s \in Seq(Texts), NEW r \in Seq(Texts), NEW k \in Nat, Lacks(s, k), Lacks(r, k)
    PROVE  Lacks(s \o r, k)
<1> SUFFICES ASSUME k <= Total, NEW i \in 1..Len(s \o r) PROVE (s \o r)[i] # Said(k)
  BY DEF Lacks
<1>1. Len(s) \in Nat /\ Len(r) \in Nat /\ Len(s \o r) = Len(s) + Len(r)
  BY ConcatProperties
<1>2. (s \o r)[i] = IF i <= Len(s) THEN s[i] ELSE r[i - Len(s)]
  BY <1>1, ConcatProperties
<1>3. CASE i <= Len(s)
  BY <1>1, <1>2, <1>3 DEF Lacks
<1>4. CASE i > Len(s)
  <2>1. i - Len(s) \in 1..Len(r)
    BY <1>1, <1>4
  <2> QED
    BY <1>1, <1>2, <1>4, <2>1 DEF Lacks
<1> QED
  BY <1>1, <1>3, <1>4

\* Text without the line adds no false echo.
LEMMA NoFalseEchoMore ==
    ASSUME NEW s \in Seq(Texts), NEW r \in Seq(Texts), NEW k \in Nat, NEW f \in Nat,
           NoFalseEcho(s, f, k), Lacks(r, k)
    PROVE  NoFalseEcho(s \o r, f, k)
<1> SUFFICES ASSUME k <= Total, NEW i \in 1..Len(s \o r), NEW j \in 1..Len(s \o r),
                    f < i, i < j, (s \o r)[i] = "prompt"
             PROVE  (s \o r)[j] # Said(k)
  BY DEF NoFalseEcho
<1>1. Len(s) \in Nat /\ Len(r) \in Nat /\ Len(s \o r) = Len(s) + Len(r)
  BY ConcatProperties
<1>2. /\ (s \o r)[i] = IF i <= Len(s) THEN s[i] ELSE r[i - Len(s)]
      /\ (s \o r)[j] = IF j <= Len(s) THEN s[j] ELSE r[j - Len(s)]
  BY <1>1, ConcatProperties
<1>3. CASE j <= Len(s)
  <2>1. i \in 1..Len(s) /\ j \in 1..Len(s) /\ (s \o r)[i] = s[i] /\ (s \o r)[j] = s[j]
    BY <1>1, <1>2, <1>3
  <2> QED
    BY <2>1 DEF NoFalseEcho
<1>4. CASE j > Len(s)
  <2>1. j - Len(s) \in 1..Len(r)
    BY <1>1, <1>4
  <2> QED
    BY <1>1, <1>2, <1>4, <2>1 DEF Lacks
<1> QED
  BY <1>1, <1>3, <1>4

\* What is added is all that comes after s.
LEMMA NoFalseEchoAfter ==
    ASSUME NEW s \in Seq(Texts), NEW r \in Seq(Texts), NEW k \in Nat, NoFalseEcho(r, 0, k)
    PROVE  NoFalseEcho(s \o r, Len(s), k)
<1> SUFFICES ASSUME k <= Total, NEW i \in 1..Len(s \o r), NEW j \in 1..Len(s \o r),
                    Len(s) < i, i < j, (s \o r)[i] = "prompt"
             PROVE  (s \o r)[j] # Said(k)
  BY DEF NoFalseEcho
<1>1. Len(s) \in Nat /\ Len(r) \in Nat /\ Len(s \o r) = Len(s) + Len(r)
  BY ConcatProperties
<1>2. /\ (s \o r)[i] = IF i <= Len(s) THEN s[i] ELSE r[i - Len(s)]
      /\ (s \o r)[j] = IF j <= Len(s) THEN s[j] ELSE r[j - Len(s)]
  BY <1>1, ConcatProperties
<1> DEFINE a == i - Len(s)
           b == j - Len(s)
<1>3. a \in 1..Len(r) /\ b \in 1..Len(r) /\ 0 < a /\ a < b
  BY <1>1
<1>4. r[a] = "prompt" /\ (s \o r)[j] = r[b]
  BY <1>1, <1>2
<1> HIDE DEF a, b
<1> QED
  BY <1>3, <1>4 DEF NoFalseEcho

\* Text at the end does not change where a line is first.
LEMMA FirstAtMore ==
    ASSUME NEW s \in Seq(Texts), NEW r \in Seq(Texts), NEW k \in Nat, NEW f \in 1..Len(s), FirstAt(s, f, k)
    PROVE  FirstAt(s \o r, f, k) /\ f \in 1..Len(s \o r)
<1>1. Len(s) \in Nat /\ Len(r) \in Nat /\ Len(s \o r) = Len(s) + Len(r)
  BY ConcatProperties
<1>2. \A i \in 1..Len(s) : (s \o r)[i] = s[i] /\ i \in 1..Len(s \o r)
  BY <1>1, ConcatProperties
<1>3. ASSUME NEW i \in 1..Len(s \o r), i < f PROVE (s \o r)[i] # Said(k)
  <2>1. i \in 1..Len(s)
    BY <1>1, <1>3
  <2> QED
    BY <1>2, <1>3, <2>1 DEF FirstAt
<1> QED
  BY <1>2, <1>3 DEF FirstAt

\* The echo of a line that was not in the text.
LEMMA FirstAtEnd ==
    ASSUME NEW s \in Seq(Texts), NEW k \in Nat \ {0}, k <= Total, Lacks(s, k)
    PROVE  LET p == s \o <<Said(k)>> IN
           Len(p) \in 1..Len(p) /\ FirstAt(p, Len(p), k) /\ NoFalseEcho(p, Len(p), k + 1)
<1> DEFINE p == s \o <<Said(k)>>
<1>0. Said(k) \in Texts
  BY SaidText
<1>1. <<Said(k)>> \in Seq(Texts) /\ Len(<<Said(k)>>) = 1 /\ <<Said(k)>>[1] = Said(k)
  BY <1>0
<1>2. /\ p \in Seq(Texts) /\ Len(p) = Len(s) + 1 /\ Len(s) \in Nat
      /\ \A i \in 1 .. Len(s) + 1 : p[i] = IF i <= Len(s) THEN s[i] ELSE <<Said(k)>>[i - Len(s)]
  BY <1>1, ConcatProperties
<1> HIDE DEF p
<1>3. p[Len(p)] = Said(k)
  <2>1. Len(p) - Len(s) = 1 /\ Len(p) \in 1 .. Len(s) + 1 /\ ~(Len(p) <= Len(s))
    BY <1>2
  <2> QED
    BY <1>1, <1>2, <2>1
<1>4. \A i \in 1..Len(p) : i < Len(p) => p[i] # Said(k)
  BY <1>2 DEF Lacks
<1>5. FirstAt(p, Len(p), k) /\ Len(p) \in 1..Len(p)
  BY <1>2, <1>3, <1>4 DEF FirstAt
<1>6. NoFalseEcho(p, Len(p), k + 1)
  BY <1>2 DEF NoFalseEcho
<1> QED
  BY <1>5, <1>6 DEF p

\* What remains of a text after place f.
LEMMA Rest ==
    ASSUME NEW s \in Seq(Texts), NEW f \in 1..Len(s)
    PROVE  LET q == SubSeq(s, f + 1, Len(s)) IN
           /\ q \in Seq(Texts) /\ Len(q) = Len(s) - f
           /\ \A i \in 1..Len(q) : q[i] = s[f + i] /\ f + i \in 1..Len(s)
<1>1. Len(s) \in Nat
  OBVIOUS
<1>2. \A i \in (f + 1)..Len(s) : s[i] \in Texts
  BY <1>1, ElementOfSeq
<1> DEFINE q == SubSeq(s, f + 1, Len(s))
<1>3. /\ q \in Seq(Texts)
      /\ Len(q) = IF f + 1 <= Len(s) THEN Len(s) - (f + 1) + 1 ELSE 0
      /\ \A i \in 1 .. Len(s) - (f + 1) + 1 : q[i] = s[(f + 1) + i - 1]
  BY <1>1, <1>2, SubSeqProperties
<1> HIDE DEF q
<1>4. Len(q) = Len(s) - f
  BY <1>1, <1>3
<1>5. ASSUME NEW i \in 1..Len(q) PROVE q[i] = s[f + i] /\ f + i \in 1..Len(s)
  <2>1. i \in 1 .. Len(s) - (f + 1) + 1 /\ (f + 1) + i - 1 = f + i /\ f + i \in 1..Len(s)
    BY <1>1, <1>4
  <2>2. q[i] = s[(f + 1) + i - 1]
    BY <1>3, <2>1
  <2> QED
    BY <2>1, <2>2
<1> QED
  BY <1>3, <1>4, <1>5 DEF q

\* A prompt at place f: whatever follows lacks the line.
LEMMA LacksRest ==
    ASSUME NEW s \in Seq(Texts), NEW f \in 1..Len(s), NEW k \in Nat, NoFalseEcho(s, 0, k), s[f] = "prompt"
    PROVE  Lacks(SubSeq(s, f + 1, Len(s)), k)
<1> DEFINE q == SubSeq(s, f + 1, Len(s))
<1>1. \A i \in 1..Len(q) : q[i] = s[f + i] /\ f + i \in 1..Len(s)
  BY Rest
<1>2. q \in Seq(Texts) /\ Len(q) \in Nat
  BY Rest
<1> HIDE DEF q
<1>3. ASSUME k <= Total, NEW i \in 1..Len(q) PROVE q[i] # Said(k)
  <2> DEFINE j == f + i
  <2>1. q[i] = s[j] /\ j \in 1..Len(s)
    BY <1>1
  <2>2. 0 < f /\ f < j
    BY <1>2
  <2> HIDE DEF j
  <2> QED
    BY <1>3, <2>1, <2>2 DEF NoFalseEcho
<1> QED
  BY <1>3 DEF Lacks, q

\* What remains after place f has no false echo if there is none after f.
LEMMA NoFalseEchoRest ==
    ASSUME NEW s \in Seq(Texts), NEW f \in 1..Len(s), NEW k \in Nat, NoFalseEcho(s, f, k)
    PROVE  NoFalseEcho(SubSeq(s, f + 1, Len(s)), 0, k)
<1> DEFINE q == SubSeq(s, f + 1, Len(s))
<1>1. \A i \in 1..Len(q) : q[i] = s[f + i] /\ f + i \in 1..Len(s)
  BY Rest
<1>2. q \in Seq(Texts) /\ Len(q) \in Nat
  BY Rest
<1> HIDE DEF q
<1>3. ASSUME k <= Total, NEW i \in 1..Len(q), NEW j \in 1..Len(q), 0 < i, i < j, q[i] = "prompt" PROVE q[j] # Said(k)
  <2> DEFINE a == f + i
             b == f + j
  <2>1. q[i] = s[a] /\ a \in 1..Len(s) /\ q[j] = s[b] /\ b \in 1..Len(s)
    BY <1>1
  <2>2. f < a /\ a < b
    BY <1>2, <1>3
  <2> HIDE DEF a, b
  <2> QED
    BY <1>3, <2>1, <2>2 DEF NoFalseEcho
<1> QED
  BY <1>3 DEF NoFalseEcho, q

\* The rest of the first part, with the second.
LEMMA RestOfBoth ==
    ASSUME NEW s \in Seq(Texts), NEW t \in Seq(Texts), NEW f \in 1..Len(s)
    PROVE  SubSeq(s, f + 1, Len(s)) \o t = SubSeq(s \o t, f + 1, Len(s \o t))
<1> DEFINE q == SubSeq(s, f + 1, Len(s))
           p == s \o t
           u == SubSeq(p, f + 1, Len(p))
           v == q \o t
<1>1. Len(s) \in Nat /\ Len(t) \in Nat
  OBVIOUS
<1>2. /\ p \in Seq(Texts) /\ Len(p) = Len(s) + Len(t)
      /\ \A i \in 1 .. Len(s) + Len(t) : p[i] = IF i <= Len(s) THEN s[i] ELSE t[i - Len(s)]
  BY ConcatProperties
<1>3. /\ q \in Seq(Texts) /\ Len(q) = Len(s) - f
      /\ \A i \in 1..Len(q) : q[i] = s[f + i]
  BY Rest
<1>4. f \in 1..Len(p)
  BY <1>1, <1>2
<1> HIDE DEF p, q
<1>5. /\ u \in Seq(Texts) /\ Len(u) = Len(p) - f
      /\ \A i \in 1..Len(u) : u[i] = p[f + i]
  BY <1>2, <1>4, Rest
<1>6. /\ v \in Seq(Texts) /\ Len(v) = Len(q) + Len(t)
      /\ \A i \in 1 .. Len(q) + Len(t) : v[i] = IF i <= Len(q) THEN q[i] ELSE t[i - Len(q)]
  BY <1>3, ConcatProperties
<1> HIDE DEF u, v
<1>7. Len(u) = Len(v)
  BY <1>1, <1>2, <1>3, <1>5, <1>6
<1>8. ASSUME NEW i \in 1..Len(u) PROVE u[i] = v[i]
  <2>1. u[i] = p[f + i] /\ f + i \in 1 .. Len(s) + Len(t) /\ i \in 1 .. Len(q) + Len(t)
    BY <1>1, <1>2, <1>3, <1>5
  <2>2. CASE i <= Len(q)
    <3>1. f + i <= Len(s) /\ i \in 1..Len(q)
      BY <1>1, <1>3, <2>2
    <3>2. p[f + i] = s[f + i]
      BY <1>2, <2>1, <3>1
    <3>3. v[i] = q[i]
      BY <1>6, <2>1, <2>2
    <3> QED
      BY <1>3, <2>1, <3>1, <3>2, <3>3
  <2>3. CASE ~(i <= Len(q))
    <3>1. ~(f + i <= Len(s)) /\ f + i - Len(s) = i - Len(q)
      BY <1>1, <1>3, <2>3
    <3>2. p[f + i] = t[f + i - Len(s)]
      BY <1>2, <2>1, <3>1
    <3>3. v[i] = t[i - Len(q)]
      BY <1>6, <2>1, <2>3
    <3> QED
      BY <2>1, <3>1, <3>2, <3>3
  <2> QED
    BY <2>2, <2>3
<1>9. u = v
  BY <1>5, <1>6, <1>7, <1>8, SeqEqual
<1> QED
  BY <1>9 DEF u, v, p, q

-----------------------------------------------------------------------------
(* The steps *)

\* The types without the Boolean one.
Kinds ==
    /\ output \in Outputs
    /\ pos \in 0..(3 * Total + 3)
    /\ outcome \in {"none", "ok", "error"}
    /\ buf \in Seq(Texts)
    /\ reader \in {"none", "reading", "read", "eof"}
    /\ chunk \in Seq(Texts)
    /\ session \in {"open", "closed"}
    /\ conn \in {"up", "down"}
    /\ toServer \in Seq(Texts)
    /\ toClient \in Seq(Texts)
    /\ server \in {"idle", "start", "read", "exec", "prompt", "returned"}
    /\ line \in Texts
    /\ executed \in 0..Total

\* The type invariant in two parts, as the provers need it.
LEMMA TypeSplit == TypeOK <=> Kinds /\ deadline \in BOOLEAN
<1>1. 3 * Total + 2 + 1 = 3 * Total + 3
  BY TheLines
<1> QED
  BY <1>1, PlanLength, Zenon DEF TypeOK, Kinds, Total

\* The same after a step.
LEMMA TypeSplitNext == TypeOK' <=> Kinds' /\ deadline' \in BOOLEAN
<1>1. 3 * Total + 2 + 1 = 3 * Total + 3
  BY TheLines
<1> QED
  BY <1>1, PlanLength, Zenon DEF TypeOK, Kinds, Total

\* What the invariant says, with the types in two parts.
LEMMA Facts ==
    ASSUME IInv
    PROVE  /\ Kinds /\ deadline \in BOOLEAN /\ Queued /\ Placed
           /\ reader # "read" => chunk = <<>>
           /\ outcome = "none" /\ ~Misleading => InStep
           /\ outcome = "ok" /\ ~Misleading => executed = Total /\ server # "exec"
BY TypeSplit, Zenon DEF IInv

\* What is pending is a text.
LEMMA PendingText ==
    ASSUME Kinds
    PROVE  Pending \in Seq(Texts) /\ Len(Pending) \in Nat
<1>1. Pending \in Seq(Texts)
  BY ConcatProperties DEF Kinds, Pending
<1> QED
  BY <1>1

\* The lines echoed are some of the lines.
LEMMA EchoedNat ==
    ASSUME Kinds, Queued
    PROVE  Echoed \in 0..Total /\ (server # "exec" => Echoed = executed)
BY TheLines DEF Kinds, Queued, Echoed

\* Steps that move text, end something or do nothing that matters here.
LEMMA Kept ==
    ASSUME IInv, UNCHANGED <<output, pos, toServer, executed, line>>, Pending' = Pending,
           outcome' = outcome \/ outcome' = "error",
           server' = server \/ (server = "read" /\ server' = "returned"),
           conn' = conn \/ conn' = "down",
           Kinds', deadline' \in BOOLEAN, reader' # "read" => chunk' = <<>>
    PROVE  IInv'
<1>1. /\ Kinds /\ Queued /\ Placed
      /\ outcome = "none" /\ ~Misleading => InStep
      /\ outcome = "ok" /\ ~Misleading => executed = Total /\ server # "exec"
  BY Facts
<1>2. TypeOK'
  BY TypeSplitNext
<1>3. Echoed' = Echoed /\ (server' = "exec" <=> server = "exec") /\ (server' = "idle" <=> server = "idle")
  BY DEF Echoed
<1>4. Misleading' <=> Misleading
  BY DEF Misleading
<1>5. Queued'
  BY <1>1, <1>3, TheLines DEF Queued, Said
<1>6. Placed'
  BY <1>1, <1>3 DEF Placed
<1>7. ASSUME InStep PROVE InStep'
  <2> SUFFICES ASSUME NEW c \in 0..Total
               PROVE  /\ pos' = 3 * c + 1 => AwaitsPrompt(c)'
                      /\ pos' = 3 * c + 2 => Sends(c)'
                      /\ pos' = 3 * c + 3 /\ c < Total => AwaitsEcho(c)'
    BY DEF InStep
  <2>1. AwaitsPrompt(c) => AwaitsPrompt(c)'
    BY <1>3 DEF AwaitsPrompt, NoFalseEcho
  <2>2. Sends(c) => Sends(c)'
    BY <1>3 DEF Sends, Lacks
  <2>3. EchoWritten(c) => EchoWritten(c)'
    BY <1>3 DEF EchoWritten, FirstAt, NoFalseEcho
  <2> QED
    BY <1>7, <2>1, <2>2, <2>3 DEF InStep, AwaitsEcho
<1>8. outcome' = "none" => outcome = "none"
  OBVIOUS
<1>9. outcome' = "ok" => outcome = "ok"
  OBVIOUS
<1> QED
  BY <1>1, <1>2, <1>3, <1>4, <1>5, <1>6, <1>7, <1>8, <1>9, Zenon DEF IInv

\* The shell is granted.
LEMMA ShellStep ==
    ASSUME IInv, Shell
    PROVE  IInv'
<1>1. /\ pos = 0 /\ outcome = "none" /\ pos' = 1 /\ server' = "start"
      /\ UNCHANGED <<output, outcome, buf, reader, chunk, deadline, session, conn, toServer, toClient, line, executed>>
  BY Zenon DEF Shell
<1>2. /\ Kinds /\ deadline \in BOOLEAN /\ Queued /\ Placed /\ (reader # "read" => chunk = <<>>) /\ Total \in Nat
  BY Facts, TheLines
<1>3. TypeOK'
  <2>1. Kinds'
    BY <1>1, <1>2 DEF Kinds
  <2>2. deadline' \in BOOLEAN
    BY <1>1, <1>2, Zenon
  <2> QED
    BY <2>1, <2>2, TypeSplitNext
<1>4. Pending' = Pending /\ Pending = <<>>
  BY <1>1, <1>2 DEF Pending, Placed
<1>5. Echoed = 0 /\ Echoed' = 0 /\ Len(toServer) = 0 /\ Len(toServer') = 0
  <2>1. server # "exec"
    BY <1>1, <1>2 DEF Placed
  <2>2. Len(toServer) \in Nat /\ executed \in Nat /\ Echoed + Len(toServer) = 0
    BY <1>1, <1>2 DEF Kinds, Queued
  <2> QED
    BY <1>1, <2>1, <2>2 DEF Echoed
<1>6. Queued'
  BY <1>1, <1>2, <1>5 DEF Queued
<1>7. Placed'
  BY <1>1, <1>2 DEF Placed
<1>8. InStep'
  <2>1. AwaitsPrompt(0)'
    <3>1. NoFalseEcho(<<>>, 0, 0 + 1)
      BY DEF NoFalseEcho
    <3> QED
      BY <1>1, <1>4, <1>5, <3>1 DEF AwaitsPrompt, NoFalseEcho
  <2>2. \A c \in 0..Total : pos' = 3 * c + 1 => c = 0
    BY <1>1, <1>2
  <2>3. \A c \in 0..Total : pos' # 3 * c + 2 /\ pos' # 3 * c + 3
    BY <1>1, <1>2
  <2> QED
    BY <2>1, <2>2, <2>3 DEF InStep
<1>9. outcome' # "ok"
  BY <1>1
<1> QED
  BY <1>1, <1>2, <1>3, <1>6, <1>7, <1>8, <1>9, Zenon DEF IInv

\* Where a client that runs the plan is.
LEMMA OnThePlan ==
    ASSUME IInv, Running
    PROVE  \E c \in 0..Total : pos = 3 * c + 1 \/ pos = 3 * c + 2 \/ (pos = 3 * c + 3 /\ c < Total)
<1>1. pos \in 1..(3 * Total + 2) /\ Total \in Nat
  BY PlanLength, TheLines DEF Running
<1>2. pos \in 1..(3 * Total + 3)
  BY <1>1
<1>3. PICK c \in 0..Total : pos = 3 * c + 1 \/ pos = 3 * c + 2 \/ pos = 3 * c + 3
  BY <1>2, Places
<1>4. pos = 3 * c + 3 => c < Total
  BY <1>1
<1> QED
  BY <1>3, <1>4, Zenon

\* ptyExecCmds sends a line or the exit.
LEMMA SendLineStep ==
    ASSUME IInv, SendLine
    PROVE  IInv'
<1>1. /\ Running /\ outcome = "none" /\ Plan[pos].op = "send" /\ pos' = pos + 1
      /\ toServer' = IF conn = "up" THEN Append(toServer, Plan[pos].text) ELSE toServer
      /\ outcome' = IF pos = Len(Plan) THEN "ok" ELSE "none"
      /\ UNCHANGED <<output, buf, reader, chunk, deadline, session, conn, toClient, server, line, executed>>
  BY Zenon DEF SendLine, Running, serverVars
<1>2. /\ Kinds /\ deadline \in BOOLEAN /\ Queued /\ Placed /\ (reader # "read" => chunk = <<>>)
      /\ (~Misleading => InStep)
  BY <1>1, Facts
<1>3. PICK c \in 0..Total : pos = 3 * c + 2
  <2>1. PICK c \in 0..Total : pos = 3 * c + 1 \/ pos = 3 * c + 2 \/ (pos = 3 * c + 3 /\ c < Total)
    BY <1>1, OnThePlan
  <2>2. pos # 3 * c + 1
    BY <1>1, PlanPrompt DEF Wait
  <2>3. ~(pos = 3 * c + 3 /\ c < Total)
    <3> SUFFICES ASSUME pos = 3 * c + 3, c < Total PROVE FALSE
      OBVIOUS
    <3>1. Plan[3 * c + 3] = Wait(Said(c + 1))
      BY PlanEcho
    <3> QED
      BY <1>1, <3>1 DEF Wait
  <2> QED
    BY <2>1, <2>2, <2>3
<1>4. Plan[pos].text = Said(c + 1) /\ Said(c + 1) \in Texts /\ Total \in Nat /\ c \in Nat /\ c <= Total
  <2>1. Plan[pos] = Send(Said(c + 1))
    BY <1>3, PlanSend
  <2>2. c + 1 \in Nat \ {0} /\ Total \in Nat /\ c \in Nat /\ c <= Total
    BY TheLines
  <2>3. Said(c + 1) \in Texts
    BY <2>2, SaidText
  <2> QED
    BY <2>1, <2>2, <2>3 DEF Send
<1>5. Pending' = Pending /\ Echoed' = Echoed /\ (Misleading' <=> Misleading)
  BY <1>1 DEF Pending, Echoed, Misleading
<1>6. Echoed \in 0..Total /\ Echoed + Len(toServer) <= c /\ (conn = "up" => Echoed + Len(toServer) = c) /\ Len(toServer) \in Nat
  BY <1>2, <1>3, EchoedNat DEF Queued, Kinds
<1>7. /\ toServer' \in Seq(Texts)
      /\ Len(toServer') = Len(toServer) + (IF conn = "up" THEN 1 ELSE 0)
      /\ \A i \in 1..Len(toServer') : toServer'[i] = Said(Echoed + i)
  <2>1. CASE conn = "up"
    <3>1. toServer' = Append(toServer, Said(c + 1))
      BY <1>1, <1>4, <2>1
    <3>2. /\ toServer' \in Seq(Texts) /\ Len(toServer') = Len(toServer) + 1
          /\ \A i \in 1..Len(toServer) : toServer'[i] = toServer[i]
          /\ toServer'[Len(toServer) + 1] = Said(c + 1)
      BY <1>2, <1>4, <3>1, AppendProperties DEF Kinds
    <3>3. Echoed + (Len(toServer) + 1) = c + 1
      BY <1>4, <1>6, <2>1
    <3>4. ASSUME NEW i \in 1..Len(toServer') PROVE toServer'[i] = Said(Echoed + i)
      <4>1. CASE i \in 1..Len(toServer)
        BY <1>2, <3>2, <4>1 DEF Queued
      <4>2. CASE i = Len(toServer) + 1
        BY <3>2, <3>3, <4>2
      <4> QED
        BY <1>6, <3>2, <4>1, <4>2
    <3> QED
      BY <2>1, <3>2, <3>4
  <2>2. CASE conn # "up"
    BY <1>1, <1>2, <1>6, <2>2 DEF Kinds, Queued
  <2> QED
    BY <2>1, <2>2
<1>8. TypeOK'
  <2>1. pos' \in 0..(3 * Total + 3) /\ outcome' \in {"none", "ok", "error"}
    BY <1>1, <1>3, <1>4
  <2>2. Kinds'
    BY <1>1, <1>2, <1>7, <2>1 DEF Kinds
  <2>3. deadline' \in BOOLEAN
    BY <1>1, <1>2, Zenon
  <2> QED
    BY <2>2, <2>3, TypeSplitNext
<1>9. Queued'
  <2>1. /\ pos' = 3 * c + 3 /\ pos' # 0
        /\ \A d \in 0..Total : pos' # 3 * d + 1 /\ pos' # 3 * d + 2
        /\ \A d \in 0..Total : pos' = 3 * d + 3 => d = c
    BY <1>1, <1>3, <1>4
  <2>2. /\ Echoed + Len(toServer') <= c + 1
        /\ conn = "up" => Echoed + Len(toServer') = c + 1
    BY <1>4, <1>6, <1>7
  <2>3. server' = "exec" => line' = Said(Echoed)
    BY <1>1, <1>2 DEF Queued
  <2>4. conn' = conn /\ Echoed <= Total
    BY <1>1, <1>4, <1>6
  <2> QED
    BY <1>5, <1>7, <2>1, <2>2, <2>3, <2>4 DEF Queued, Said, Total
<1>10. Placed'
  <2>1. pos' # 0 /\ pos # 0 /\ (outcome' = "none" => pos' < 3 * Total + 3) /\ (outcome' = "ok" => pos' = 3 * Total + 3)
    BY <1>1, <1>3, <1>4, PlanLength
  <2>2. server' # "idle"
    BY <1>1, <1>2, <2>1 DEF Placed
  <2> QED
    BY <2>1, <2>2 DEF Placed
<1>11. ASSUME ~Misleading PROVE Sends(c)
  BY <1>2, <1>3, <1>11 DEF InStep
<1>12. ASSUME ~Misleading, outcome' = "none" PROVE InStep'
  <2>1. Sends(c)'
    BY <1>1, <1>5, <1>11, <1>12 DEF Sends, Lacks
  <2>2. pos' = 3 * c + 3
    BY <1>1, <1>3, <1>4
  <2>3. \A d \in 0..Total : /\ pos' # 3 * d + 1 /\ pos' # 3 * d + 2
                            /\ pos' = 3 * d + 3 => d = c
    BY <1>4, <2>2
  <2> QED
    BY <2>1, <2>3 DEF InStep, AwaitsEcho
<1>13. ASSUME ~Misleading, outcome' = "ok" PROVE executed' = Total /\ server' # "exec"
  <2>1. c = Total
    BY <1>1, <1>3, <1>4, <1>13, PlanLength
  <2> QED
    BY <1>1, <1>2, <1>11, <1>13, <2>1, EchoedNat DEF Sends
<1> QED
  BY <1>1, <1>2, <1>5, <1>8, <1>9, <1>10, <1>12, <1>13, Zenon DEF IInv

\* A set of naturals that is not empty has a least element.
LEMMA LeastNat ==
    ASSUME NEW T \in SUBSET Nat, T # {}
    PROVE  \E x \in T : \A y \in T : x <= y
<1> DEFINE R == {ss \in Nat \X Nat : ss[1] < ss[2]}
<1>1. IsWellFoundedOn(R, Nat)
  BY NatLessThanWellFounded, Zenon DEF OpToRel
<1>2. PICK x \in T : \A y \in T : ~ (<<y, x>> \in R)
  <2> HIDE DEF R
  <2> QED
    BY <1>1, WFMin
<1>3. ASSUME NEW y \in T PROVE x <= y
  <2>1. <<y, x>> \in Nat \X Nat
    OBVIOUS
  <2>2. ~(y < x)
    BY <1>2, <2>1
  <2> QED
    BY <2>2
<1> QED
  BY <1>3

\* The first match is a match, and there is none before.
LEMMA MatchIsFirst ==
    ASSUME NEW s \in Seq(Texts), NEW x, x \in ToSet(s)
    PROVE  LET f == Min({i \in DOMAIN s : s[i] = x}) IN
           f \in 1..Len(s) /\ s[f] = x /\ \A i \in 1..Len(s) : i < f => s[i] # x
<1> DEFINE T == {i \in DOMAIN s : s[i] = x}
           f == Min(T)
<1>1. DOMAIN s = 1..Len(s) /\ Len(s) \in Nat
  BY LenProperties
<1>2. T \in SUBSET Nat /\ T # {}
  BY <1>1 DEF ToSet
<1>3. f \in T /\ \A y \in T : f <= y
  <2> HIDE DEF T
  <2>1. \E z \in T : \A y \in T : z <= y
    BY <1>2, LeastNat
  <2> QED
    BY <2>1 DEF Min
<1>4. \A i \in 1..Len(s) : i < f => s[i] # x
  <2> SUFFICES ASSUME NEW i \in 1..Len(s), i < f, s[i] = x PROVE FALSE
    OBVIOUS
  <2>1. i \in T
    BY <1>1
  <2>2. f <= i /\ f \in Nat /\ i \in Nat
    BY <1>2, <1>3, <2>1
  <2> HIDE DEF f, T
  <2> QED
    BY <2>2
<1> QED
  BY <1>1, <1>3, <1>4

\* A client that waits for the prompt, or for the echo of a line.
LEMMA WaitsFor ==
    ASSUME IInv, Waiting
    PROVE  \E c \in 0..Total : \/ pos = 3 * c + 1 /\ Target = "prompt"
                               \/ pos = 3 * c + 3 /\ c < Total /\ Target = Said(c + 1)
<1>1. PICK c \in 0..Total : pos = 3 * c + 1 \/ pos = 3 * c + 2 \/ (pos = 3 * c + 3 /\ c < Total)
  BY OnThePlan DEF Waiting
<1>2. pos = 3 * c + 1 => Target = "prompt"
  BY PlanPrompt DEF Wait, Target
<1>3. pos # 3 * c + 2
  <2>1. Plan[3 * c + 2] = Send(Said(c + 1))
    BY PlanSend
  <2>2. Plan[pos].op # "send"
    BY DEF Waiting
  <2> QED
    BY <2>1, <2>2 DEF Send
<1>4. ASSUME pos = 3 * c + 3, c < Total PROVE Target = Said(c + 1)
  <2>1. Plan[3 * c + 3] = Wait(Said(c + 1))
    BY <1>4, PlanEcho
  <2> QED
    BY <1>4, <2>1 DEF Wait, Target
<1> QED
  BY <1>1, <1>2, <1>3, <1>4, Zenon

\* The match cuts the text that is pending.
LEMMA MatchCuts ==
    ASSUME Kinds, Found, Match
    PROVE  \E f \in 1..Len(Pending) :
              /\ Pending[f] = Target
              /\ \A i \in 1..Len(Pending) : i < f => Pending[i] # Target
              /\ Pending' = SubSeq(Pending, f + 1, Len(Pending))
              /\ buf' \in Seq(Texts)
<1> DEFINE f == FirstMatch
           rest == chunk \o toClient
<1>1. buf \in Seq(Texts) /\ chunk \in Seq(Texts) /\ toClient \in Seq(Texts) /\ Len(buf) \in Nat
  BY DEF Kinds
<1>2. f \in 1..Len(buf) /\ buf[f] = Target /\ \A i \in 1..Len(buf) : i < f => buf[i] # Target
  BY <1>1, MatchIsFirst DEF FirstMatch, Found
<1>3. buf' = SubSeq(buf, f + 1, Len(buf)) /\ chunk' = chunk /\ toClient' = toClient
  BY Zenon DEF Match
<1> HIDE DEF f
<1>4. buf' \in Seq(Texts)
  BY <1>1, <1>2, <1>3, Rest
<1>5. rest \in Seq(Texts)
  BY <1>1, ConcatProperties
<1>6. Pending = buf \o rest
  BY <1>1, Joined, Zenon DEF Pending
<1>7. Pending' = buf' \o rest
  <2> DEFINE b == buf'
  <2>1. Pending' = (b \o chunk) \o toClient
    BY <1>3 DEF Pending
  <2> HIDE DEF b
  <2>2. (b \o chunk) \o toClient = b \o (chunk \o toClient)
    BY <1>1, <1>4, Joined, Zenon DEF b
  <2> QED
    BY <2>1, <2>2 DEF b
<1> HIDE DEF rest
<1>8. Pending' = SubSeq(Pending, f + 1, Len(Pending))
  BY <1>1, <1>2, <1>3, <1>5, <1>6, <1>7, RestOfBoth
<1>9. Len(Pending) = Len(buf) + Len(rest) /\ Len(rest) \in Nat /\ \A i \in 1..Len(buf) : Pending[i] = buf[i]
  BY <1>1, <1>5, <1>6, ConcatProperties
<1>10. f \in 1..Len(Pending) /\ Pending[f] = Target
  BY <1>1, <1>2, <1>9
<1>11. ASSUME NEW i \in 1..Len(Pending), i < f PROVE Pending[i] # Target
  <2>1. i \in 1..Len(buf)
    BY <1>1, <1>2, <1>11
  <2> QED
    BY <1>2, <1>9, <1>11, <2>1
<1> QED
  BY <1>4, <1>8, <1>10, <1>11

\* readUntil finds what it waits for.
LEMMA MatchStep ==
    ASSUME IInv, Match
    PROVE  IInv'
<1>1. /\ Waiting /\ Found /\ reader = "none" /\ outcome = "none" /\ pos' = pos + 1 /\ deadline' = FALSE
      /\ UNCHANGED <<output, outcome, reader, chunk, session, conn, toServer, toClient, server, line, executed>>
  BY Zenon DEF Match, Waiting, Running, serverVars
<1>2. /\ Kinds /\ Queued /\ Placed /\ (reader # "read" => chunk = <<>>) /\ (~Misleading => InStep) /\ Total \in Nat
  BY <1>1, Facts, TheLines
<1>3. PICK c \in 0..Total : \/ pos = 3 * c + 1 /\ Target = "prompt"
                            \/ pos = 3 * c + 3 /\ c < Total /\ Target = Said(c + 1)
  BY <1>1, WaitsFor
<1>4. PICK f \in 1..Len(Pending) :
              /\ Pending[f] = Target
              /\ \A i \in 1..Len(Pending) : i < f => Pending[i] # Target
              /\ Pending' = SubSeq(Pending, f + 1, Len(Pending))
              /\ buf' \in Seq(Texts)
  BY <1>1, <1>2, MatchCuts
<1>5. Echoed' = Echoed /\ (Misleading' <=> Misleading)
  BY <1>1 DEF Echoed, Misleading
<1>6. Pending \in Seq(Texts) /\ Len(Pending) \in Nat
  BY <1>2, PendingText
<1>7. TypeOK'
  <2>1. pos' \in 0..(3 * Total + 3)
    BY <1>1, <1>2, <1>3
  <2>2. Kinds'
    BY <1>1, <1>2, <1>4, <2>1 DEF Kinds
  <2>3. deadline' \in BOOLEAN
    BY <1>1, Zenon
  <2> QED
    BY <2>2, <2>3, TypeSplitNext
<1>8. Placed'
  <2>1. pos' # 0 /\ pos # 0 /\ pos' < 3 * Total + 3
    BY <1>1, <1>2, <1>3
  <2>2. server' # "idle"
    BY <1>1, <1>2, <2>1 DEF Placed
  <2> QED
    BY <1>1, <2>1, <2>2 DEF Placed
<1>9. CASE pos = 3 * c + 1 /\ Target = "prompt"
  <2>1. /\ pos' = 3 * c + 2 /\ pos' # 0
        /\ \A d \in 0..Total : pos' # 3 * d + 1 /\ pos' # 3 * d + 3
        /\ \A d \in 0..Total : pos' = 3 * d + 2 => d = c
    BY <1>1, <1>2, <1>9
  <2>2. Echoed + Len(toServer) <= c /\ (conn = "up" => Echoed + Len(toServer) = c)
    BY <1>2, <1>9 DEF Queued
  <2>3. Queued'
    BY <1>1, <1>2, <1>5, <2>1, <2>2 DEF Queued, Said, Total
  <2>4. ASSUME ~Misleading PROVE InStep'
    <3>1. AwaitsPrompt(c)
      BY <1>2, <1>9, <2>4 DEF InStep
    <3>2. Pending # <<>>
      BY <1>4, <1>6
    <3>3. Echoed = c /\ server # "exec" /\ NoFalseEcho(Pending, 0, c + 1)
      BY <3>1, <3>2 DEF AwaitsPrompt
    <3>4. Lacks(SubSeq(Pending, f + 1, Len(Pending)), c + 1)
      <4>1. c + 1 \in Nat /\ Pending[f] = "prompt"
        BY <1>4, <1>9
      <4> QED
        BY <1>6, <3>3, <4>1, LacksRest
    <3>5. Sends(c)'
      BY <1>1, <1>4, <1>5, <3>3, <3>4 DEF Sends, Lacks
    <3> QED
      BY <2>1, <3>5 DEF InStep
  <2> QED
    BY <1>1, <1>2, <1>5, <1>7, <1>8, <2>3, <2>4, Zenon DEF IInv
<1>10. CASE pos = 3 * c + 3 /\ c < Total /\ Target = Said(c + 1)
  <2> DEFINE e == c + 1
  <2>0. e \in 0..Total /\ e \in Nat \ {0} /\ e <= Total
    BY <1>2, <1>10
  <2>1. /\ pos' = 3 * e + 1 /\ pos' # 0
        /\ \A d \in 0..Total : pos' # 3 * d + 2 /\ pos' # 3 * d + 3
        /\ \A d \in 0..Total : pos' = 3 * d + 1 => d = e
    BY <1>1, <1>2, <1>10
  <2>2. Echoed + Len(toServer) <= e /\ (conn = "up" => Echoed + Len(toServer) = e)
    BY <1>2, <1>10 DEF Queued
  <2>3. Queued'
    BY <1>1, <1>2, <1>5, <2>1, <2>2 DEF Queued, Said, Total
  <2>4. ASSUME ~Misleading PROVE InStep'
    <3>1. AwaitsEcho(c)
      BY <1>2, <1>10, <2>4 DEF InStep
    <3>2. ~Sends(c)
      <4>1. ~Lacks(Pending, c + 1)
        BY <1>4, <1>10, <2>0 DEF Lacks
      <4> QED
        BY <4>1 DEF Sends
    <3>3. Echoed = e /\ \E g \in 1..Len(Pending) :
              /\ FirstAt(Pending, g, c + 1)
              /\ server = "exec" => g = Len(Pending)
              /\ NoFalseEcho(Pending, g, c + 2)
      BY <3>1, <3>2 DEF AwaitsEcho, EchoWritten
    <3>4. PICK g \in 1..Len(Pending) :
              /\ FirstAt(Pending, g, c + 1)
              /\ server = "exec" => g = Len(Pending)
              /\ NoFalseEcho(Pending, g, c + 2)
      BY <3>3
    <3>5. g = f
      <4>1. ~(g < f)
        BY <1>4, <1>10, <3>4 DEF FirstAt
      <4>2. ~(f < g)
        BY <1>4, <1>10, <3>4 DEF FirstAt
      <4> QED
        BY <1>6, <4>1, <4>2
    <3>6. NoFalseEcho(Pending', 0, e + 1)
      <4>1. c + 2 = e + 1 /\ e + 1 \in Nat
        BY <2>0
      <4> HIDE DEF e
      <4>2. NoFalseEcho(Pending, f, e + 1)
        BY <3>4, <3>5, <4>1
      <4> QED
        BY <1>4, <1>6, <4>1, <4>2, NoFalseEchoRest
    <3>7. server = "exec" => Pending' = <<>>
      <4> SUFFICES ASSUME server = "exec" PROVE Pending' = <<>>
        OBVIOUS
      <4>1. f = Len(Pending)
        BY <3>4, <3>5
      <4> QED
        BY <1>4, <1>6, <4>1, SubSeqEmpty
    <3>8. AwaitsPrompt(e)'
      BY <1>1, <1>5, <3>3, <3>6, <3>7 DEF AwaitsPrompt, NoFalseEcho
    <3> HIDE DEF e
    <3> QED
      BY <2>0, <2>1, <3>8 DEF InStep
  <2> QED
    BY <1>1, <1>2, <1>5, <1>7, <1>8, <2>3, <2>4, Zenon DEF IInv
<1> QED
  BY <1>3, <1>9, <1>10

\* Text that the server adds.
LEMMA PendingMore ==
    ASSUME Kinds, NEW r \in Seq(Texts), toClient' = toClient \o r, buf' = buf, chunk' = chunk
    PROVE  Pending' = Pending \o r /\ toClient' \in Seq(Texts)
<1>1. buf \o chunk \in Seq(Texts) /\ toClient \in Seq(Texts)
  BY ConcatProperties DEF Kinds
<1>2. ((buf \o chunk) \o toClient) \o r = (buf \o chunk) \o (toClient \o r)
  <2> DEFINE b == buf \o chunk
  <2>1. b \in Seq(Texts)
    BY <1>1
  <2> HIDE DEF b
  <2>2. (b \o toClient) \o r = b \o (toClient \o r)
    BY <1>1, <2>1, Joined, Zenon
  <2> QED
    BY <2>2 DEF b
<1>3. toClient \o r \in Seq(Texts)
  BY <1>1, ConcatProperties
<1> QED
  BY <1>2, <1>3 DEF Pending

\* interactiveSession writes the prompt.
LEMMA WritePromptStep ==
    ASSUME IInv, WritePrompt
    PROVE  IInv'
<1> DEFINE r == <<"prompt">>
<1>1. /\ server \in {"start", "prompt"} /\ server' = "read" /\ toClient' = Append(toClient, "prompt")
      /\ UNCHANGED <<output, pos, outcome, buf, reader, chunk, deadline, session, conn, toServer, line, executed>>
  BY Zenon DEF WritePrompt, ServerOnly, clientVars
<1>2. /\ Kinds /\ deadline \in BOOLEAN /\ Queued /\ Placed /\ (reader # "read" => chunk = <<>>)
      /\ (outcome = "none" /\ ~Misleading => InStep)
      /\ (outcome = "ok" /\ ~Misleading => executed = Total /\ server # "exec")
  BY Facts
<1>3. r \in Seq(Texts) /\ Len(r) = 1 /\ r[1] = "prompt"
  BY DEF Texts
<1>4. Pending' = Pending \o r /\ toClient' \in Seq(Texts)
  <2>1. toClient' = toClient \o r
    BY <1>1, <1>2, AppendIsConcat DEF Kinds, Texts
  <2> HIDE DEF r
  <2> QED
    BY <1>1, <1>2, <1>3, <2>1, PendingMore
<1>5. Echoed' = Echoed /\ server # "exec" /\ server' # "exec" /\ (Misleading' <=> Misleading)
  BY <1>1 DEF Echoed, Misleading
<1>6. TypeOK'
  <2>1. Kinds'
    BY <1>1, <1>2, <1>4 DEF Kinds
  <2>2. deadline' \in BOOLEAN
    BY <1>1, <1>2, Zenon
  <2> QED
    BY <2>1, <2>2, TypeSplitNext
<1>7. Queued'
  BY <1>1, <1>2, <1>5 DEF Queued, Said, Total
<1>8. Placed'
  BY <1>1, <1>2 DEF Placed
<1>9. Pending \in Seq(Texts) /\ Len(Pending) \in Nat
  BY <1>2, PendingText
<1>10. ASSUME NEW k \in Nat \ {0} PROVE Lacks(r, k)
  <2>1. "prompt" # Said(k)
    BY SaidText
  <2> QED
    BY <1>3, <2>1 DEF Lacks
<1> HIDE DEF r
<1>11. ASSUME InStep PROVE InStep'
  <2> SUFFICES ASSUME NEW c \in 0..Total
               PROVE  /\ pos' = 3 * c + 1 => AwaitsPrompt(c)'
                      /\ pos' = 3 * c + 2 => Sends(c)'
                      /\ pos' = 3 * c + 3 /\ c < Total => AwaitsEcho(c)'
    BY DEF InStep
  <2>0. c + 1 \in Nat \ {0} /\ c + 2 \in Nat \ {0} /\ c + 1 \in Nat /\ c + 2 \in Nat
    BY TheLines
  <2>1. AwaitsPrompt(c) => AwaitsPrompt(c)'
    <3> SUFFICES ASSUME AwaitsPrompt(c) PROVE AwaitsPrompt(c)'
      OBVIOUS
    <3>1. NoFalseEcho(Pending \o r, 0, c + 1)
      BY <1>3, <1>9, <1>10, <2>0, NoFalseEchoMore DEF AwaitsPrompt
    <3> QED
      BY <1>4, <1>5, <3>1 DEF AwaitsPrompt, NoFalseEcho
  <2>2. Sends(c) => Sends(c)'
    <3> SUFFICES ASSUME Sends(c) PROVE Sends(c)'
      OBVIOUS
    <3>1. Lacks(Pending \o r, c + 1)
      BY <1>3, <1>9, <1>10, <2>0, LacksMore DEF Sends
    <3> QED
      BY <1>4, <1>5, <3>1 DEF Sends, Lacks
  <2>3. EchoWritten(c) => EchoWritten(c)'
    <3> SUFFICES ASSUME EchoWritten(c) PROVE EchoWritten(c)'
      OBVIOUS
    <3>1. PICK f \in 1..Len(Pending) : FirstAt(Pending, f, c + 1) /\ NoFalseEcho(Pending, f, c + 2)
      BY DEF EchoWritten
    <3>2. FirstAt(Pending \o r, f, c + 1) /\ f \in 1..Len(Pending \o r)
      BY <1>3, <1>9, <2>0, <3>1, FirstAtMore
    <3>3. NoFalseEcho(Pending \o r, f, c + 2)
      BY <1>3, <1>9, <1>10, <2>0, <3>1, NoFalseEchoMore
    <3> QED
      BY <1>4, <1>5, <3>2, <3>3 DEF EchoWritten, NoFalseEcho, FirstAt
  <2> QED
    BY <1>1, <1>11, <2>1, <2>2, <2>3 DEF InStep, AwaitsEcho
<1> QED
  BY <1>1, <1>2, <1>5, <1>6, <1>7, <1>8, <1>11, Zenon DEF IInv

\* The line that the server reads next.
LEMMA NextLine ==
    ASSUME Kinds, Queued, server = "read", toServer # <<>>
    PROVE  /\ Head(toServer) = Said(Echoed + 1) /\ Head(toServer) \in Texts
           /\ Echoed \in 0..Total /\ Echoed = executed
           /\ Tail(toServer) \in Seq(Texts) /\ Len(Tail(toServer)) = Len(toServer) - 1 /\ Len(toServer) \in Nat \ {0}
           /\ \A i \in 1..Len(Tail(toServer)) : Tail(toServer)[i] = Said((Echoed + 1) + i)
<1>1. toServer \in Seq(Texts) /\ Len(toServer) \in Nat \ {0} /\ Echoed \in 0..Total /\ Echoed = executed
  BY EmptySeq, EchoedNat DEF Kinds
<1>2. Head(toServer) = toServer[1] /\ toServer[1] = Said(Echoed + 1)
  BY <1>1 DEF Queued
<1>3. /\ Head(toServer) \in Texts /\ Tail(toServer) \in Seq(Texts) /\ Len(Tail(toServer)) = Len(toServer) - 1
      /\ \A i \in 1..Len(Tail(toServer)) : Tail(toServer)[i] = toServer[i + 1]
  BY <1>1, HeadTailProperties
<1>4. ASSUME NEW i \in 1..Len(Tail(toServer)) PROVE Tail(toServer)[i] = Said((Echoed + 1) + i)
  <2>1. i + 1 \in 1..Len(toServer) /\ Echoed + (i + 1) = (Echoed + 1) + i
    BY <1>1, <1>3, TheLines
  <2>2. toServer[i + 1] = Said(Echoed + (i + 1))
    BY <2>1 DEF Queued
  <2> QED
    BY <1>3, <2>1, <2>2
<1> QED
  BY <1>1, <1>2, <1>3, <1>4

\* interactiveSession echoes a line.
LEMMA EchoLineStep ==
    ASSUME IInv, EchoLine
    PROVE  IInv'
<1> DEFINE k == Echoed + 1
           ln == Said(k)
           r == <<ln>>
<1>1. /\ server = "read" /\ toServer # <<>> /\ toServer' = Tail(toServer) /\ line' = Head(toServer)
      /\ server' = IF line' = "exit" THEN "returned" ELSE "exec"
      /\ toClient' = Append(toClient, line')
      /\ UNCHANGED <<output, pos, outcome, buf, reader, chunk, deadline, session, conn, executed>>
  BY Zenon DEF EchoLine, ServerOnly, clientVars
<1>2. /\ Kinds /\ deadline \in BOOLEAN /\ Queued /\ Placed /\ (reader # "read" => chunk = <<>>)
      /\ (outcome = "none" /\ ~Misleading => InStep)
      /\ (outcome = "ok" /\ ~Misleading => executed = Total /\ server # "exec")
      /\ Total \in Nat
  BY Facts, TheLines
<1>3. /\ Head(toServer) = ln /\ ln \in Texts
      /\ Echoed \in 0..Total /\ Echoed = executed
      /\ Tail(toServer) \in Seq(Texts) /\ Len(Tail(toServer)) = Len(toServer) - 1 /\ Len(toServer) \in Nat \ {0}
      /\ \A i \in 1..Len(Tail(toServer)) : Tail(toServer)[i] = Said(k + i)
  BY <1>1, <1>2, NextLine
<1>4. r \in Seq(Texts)
  BY <1>3
<1>5. k \in Nat \ {0} /\ (ln = "exit" <=> k > Total)
  <2>1. k \in Nat \ {0}
    BY <1>2, <1>3
  <2> HIDE DEF k
  <2> QED
    BY <2>1, SaidText
<1>6. Pending' = Pending \o r /\ toClient' \in Seq(Texts)
  <2>1. toClient' = toClient \o r
    BY <1>1, <1>2, <1>3, AppendIsConcat DEF Kinds
  <2> HIDE DEF r
  <2> QED
    BY <1>1, <1>2, <1>4, <2>1, PendingMore
<1>7. line' = ln /\ (Misleading' <=> Misleading)
  BY <1>1, <1>3 DEF Misleading
<1>8. TypeOK'
  <2>1. Kinds'
    BY <1>1, <1>2, <1>3, <1>6 DEF Kinds
  <2>2. deadline' \in BOOLEAN
    BY <1>1, <1>2, Zenon
  <2> QED
    BY <2>1, <2>2, TypeSplitNext
<1>9. Placed'
  BY <1>1, <1>2 DEF Placed
<1>10. pos \in 1..(3 * Total + 3)
  BY <1>1, <1>2 DEF Placed, Kinds
<1>11. PICK c \in 0..Total : pos = 3 * c + 1 \/ pos = 3 * c + 2 \/ pos = 3 * c + 3
  BY <1>10, Places
<1>12. /\ Echoed + Len(toServer) <= c + 1
       /\ pos = 3 * c + 1 \/ pos = 3 * c + 2 => Echoed + Len(toServer) <= c
  <2> DEFINE m == Echoed + Len(toServer)
  <2>1. m \in Nat
    BY <1>2, <1>3
  <2>2. (pos = 3 * c + 1 \/ pos = 3 * c + 2 => m <= c) /\ (pos = 3 * c + 3 => m <= c + 1)
    BY <1>2 DEF Queued
  <2> HIDE DEF m
  <2>3. m <= c + 1
    BY <1>2, <1>11, <2>1, <2>2
  <2> QED
    BY <2>2, <2>3, Zenon DEF m
<1>13. CASE ln = "exit"
  <2>1. server' = "returned" /\ Echoed' = Echoed /\ Echoed = Total /\ executed' = Total
    BY <1>1, <1>2, <1>3, <1>5, <1>7, <1>13 DEF Echoed
  <2>2. c = Total /\ pos = 3 * c + 3 /\ Len(toServer) = 1 /\ Len(toServer') = 0
    BY <1>1, <1>2, <1>3, <1>11, <1>12, <2>1
  <2>3. /\ pos' = 3 * Total + 3 /\ pos' # 0
        /\ \A d \in 0..Total : pos' # 3 * d + 1 /\ pos' # 3 * d + 2 /\ ~(pos' = 3 * d + 3 /\ d < Total)
        /\ \A d \in 0..Total : pos' = 3 * d + 3 => d = Total
    BY <1>1, <1>2, <2>2
  <2>4. Queued'
    BY <1>2, <2>1, <2>2, <2>3 DEF Queued, Total
  <2>5. outcome' # "none"
    BY <1>1, <1>2, <2>3 DEF Placed
  <2> QED
    BY <1>1, <1>2, <1>8, <1>9, <2>1, <2>4, <2>5, Zenon DEF IInv
<1>14. CASE ln # "exit"
  <2>1. server' = "exec" /\ Echoed' = k /\ k <= Total
    BY <1>1, <1>2, <1>3, <1>5, <1>7, <1>14 DEF Echoed
  <2>2. k + Len(toServer') = Echoed + Len(toServer)
    BY <1>1, <1>3
  <2>3. Queued'
    <3>1. \A i \in 1..Len(toServer') : toServer'[i] = Said(Echoed' + i)
      BY <1>1, <1>3, <2>1
    <3>2. ASSUME NEW d \in 0..Total
          PROVE  /\ pos' = 3 * d + 1 \/ pos' = 3 * d + 2 =>
                      Echoed' + Len(toServer') <= d /\ (conn' = "up" => Echoed' + Len(toServer') = d)
                 /\ pos' = 3 * d + 3 =>
                      /\ Echoed' + Len(toServer') <= d + 1
                      /\ conn' = "up" /\ d < Total => Echoed' + Len(toServer') = d + 1
      <4>1. Echoed' + Len(toServer') = Echoed + Len(toServer) /\ pos' = pos /\ conn' = conn
        BY <1>1, <2>1, <2>2
      <4> QED
        BY <1>2, <4>1 DEF Queued
    <3>3. pos' # 0
      BY <1>1, <1>10
    <3>4. Echoed' <= Total /\ line' = Said(Echoed')
      BY <1>7, <2>1
    <3> QED
      BY <3>1, <3>2, <3>3, <3>4 DEF Queued, Said, Total
  <2>4. outcome = "ok" => Misleading
    <3>1. executed # Total
      BY <1>2, <1>3, <2>1
    <3> QED
      BY <1>2, <3>1
  <2>5. ASSUME outcome = "none", ~Misleading PROVE InStep'
    <3>1. InStep
      BY <1>2, <2>5
    <3>2. pos = 3 * c + 3 /\ c < Total /\ Sends(c) /\ k = c + 1
      <4>1. Echoed < c + 1 /\ (pos = 3 * c + 1 \/ pos = 3 * c + 2 => Echoed # c)
        BY <1>2, <1>3, <1>12
      <4>2. pos # 3 * c + 1
        BY <3>1, <4>1 DEF InStep, AwaitsPrompt
      <4>3. pos # 3 * c + 2
        BY <3>1, <4>1 DEF InStep, Sends
      <4>4. pos = 3 * c + 3 /\ c < Total
        BY <1>2, <1>11, <2>5, <4>2, <4>3 DEF Placed
      <4>5. AwaitsEcho(c)
        BY <3>1, <4>4 DEF InStep
      <4>6. ~EchoWritten(c)
        BY <4>1 DEF EchoWritten
      <4> QED
        BY <4>4, <4>5, <4>6 DEF AwaitsEcho, Sends
    <3>3. Lacks(Pending, k) /\ Pending \in Seq(Texts)
      BY <1>2, <3>2, PendingText DEF Sends
    <3> DEFINE p == Pending \o <<Said(k)>>
    <3>4. Len(p) \in 1..Len(p) /\ FirstAt(p, Len(p), k) /\ NoFalseEcho(p, Len(p), k + 1)
      <4> HIDE DEF k
      <4> QED
        BY <1>5, <2>1, <3>3, FirstAtEnd
    <3>5. Pending' = p
      BY <1>6
    <3>6. k + 1 = c + 2 /\ k = c + 1
      BY <3>2
    <3> HIDE DEF p, k
    <3>7. EchoWritten(c)'
      <4>1. FirstAt(p, Len(p), c + 1) /\ NoFalseEcho(p, Len(p), c + 2)
        BY <3>4, <3>6
      <4> QED
        BY <2>1, <3>4, <3>5, <3>6, <4>1 DEF EchoWritten, FirstAt, NoFalseEcho
    <3>8. /\ pos' = 3 * c + 3
          /\ \A d \in 0..Total : pos' # 3 * d + 1 /\ pos' # 3 * d + 2
          /\ \A d \in 0..Total : pos' = 3 * d + 3 => d = c
      BY <1>1, <1>2, <3>2
    <3> QED
      BY <3>7, <3>8 DEF InStep, AwaitsEcho
  <2> QED
    BY <1>1, <1>2, <1>7, <1>8, <1>9, <2>3, <2>4, <2>5, Zenon DEF IInv
<1> QED
  BY <1>13, <1>14

\* What the device prints for a line cannot pass for the echo of the next.
LEMMA OutputsHarmless ==
    ASSUME NEW k \in 1..Total, ~Misleading, output \in Seq(Texts)
    PROVE  NoFalseEcho(IF Said(k) = "show" THEN output ELSE <<Said(k)>>, 0, k + 1)
<1>1. CASE Said(k) = "show"
  <2> SUFFICES ASSUME k + 1 <= Total, NEW i \in 1..Len(output), NEW j \in 1..Len(output),
                      i < j, output[i] = "prompt"
               PROVE  output[j] # Said(k + 1)
    BY <1>1 DEF NoFalseEcho
  <2>1. Said(k + 1) = "show"
    BY <1>1, ShowAgain
  <2>2. i \in DOMAIN output /\ j \in DOMAIN output
    OBVIOUS
  <2> QED
    BY <2>1, <2>2 DEF Misleading
<1>2. CASE Said(k) # "show"
  <2>1. Len(<<Said(k)>>) = 1
    OBVIOUS
  <2>2. \A i, j \in 1..1 : ~(i < j)
    OBVIOUS
  <2> QED
    BY <1>2, <2>1, <2>2 DEF NoFalseEcho
<1> QED
  BY <1>1, <1>2

\* interactiveSession runs a line and writes the output.
LEMMA ExecLineStep ==
    ASSUME IInv, ExecLine
    PROVE  IInv'
<1> DEFINE k == Echoed
           r == IF Said(k) = "show" THEN output ELSE <<Said(k)>>
<1>1. /\ server = "exec" /\ server' = "prompt" /\ executed' = executed + 1
      /\ toClient' = toClient \o (IF line = "show" THEN output ELSE <<line>>)
      /\ UNCHANGED <<output, pos, outcome, buf, reader, chunk, deadline, session, conn, toServer, line>>
  BY Zenon DEF ExecLine, ServerOnly, clientVars
<1>2. /\ Kinds /\ deadline \in BOOLEAN /\ Queued /\ Placed /\ (reader # "read" => chunk = <<>>)
      /\ (outcome = "none" /\ ~Misleading => InStep)
      /\ (outcome = "ok" /\ ~Misleading => executed = Total /\ server # "exec")
      /\ Total \in Nat
  BY Facts, TheLines
<1>3. k \in 1..Total /\ executed' = k /\ line = Said(k)
  BY <1>1, <1>2 DEF Echoed, Queued, Kinds
<1>4. output \in Seq(Texts) /\ Said(k) \in Texts
  <2>1. k \in Nat \ {0}
    BY <1>2, <1>3
  <2> HIDE DEF k
  <2> QED
    BY <1>2, <2>1, SaidText, OutputsAssumption DEF Kinds
<1>5. r \in Seq(Texts)
  BY <1>4
<1>6. Pending' = Pending \o r /\ toClient' \in Seq(Texts)
  <2>1. toClient' = toClient \o r
    BY <1>1, <1>3
  <2> HIDE DEF r
  <2> QED
    BY <1>1, <1>2, <1>5, <2>1, PendingMore
<1>7. Echoed' = k /\ (Misleading' <=> Misleading)
  BY <1>1, <1>3 DEF Echoed, Misleading
<1>8. TypeOK'
  <2>1. executed' \in 0..Total
    BY <1>2, <1>3
  <2>2. Kinds'
    BY <1>1, <1>2, <1>6, <2>1 DEF Kinds
  <2>3. deadline' \in BOOLEAN
    BY <1>1, <1>2, Zenon
  <2> QED
    BY <2>2, <2>3, TypeSplitNext
<1>9. Placed'
  BY <1>1, <1>2 DEF Placed
<1>10. Queued'
  BY <1>1, <1>2, <1>7 DEF Queued, Said, Total
<1>11. outcome = "ok" => Misleading
  BY <1>1, <1>2
<1>12. ASSUME outcome = "none", ~Misleading PROVE InStep'
  <2>1. InStep
    BY <1>2, <1>12
  <2>2. Pending \in Seq(Texts) /\ Len(Pending) \in Nat
    BY <1>2, PendingText
  <2>3. NoFalseEcho(r, 0, k + 1)
    <3> HIDE DEF k
    <3> QED
      BY <1>3, <1>4, <1>12, OutputsHarmless
  <2>4. k + 1 \in Nat /\ k \in Nat
    BY <1>2, <1>3
  <2> HIDE DEF r
  <2> SUFFICES ASSUME NEW c \in 0..Total
               PROVE  /\ pos' = 3 * c + 1 => AwaitsPrompt(c)'
                      /\ pos' = 3 * c + 2 => Sends(c)'
                      /\ pos' = 3 * c + 3 /\ c < Total => AwaitsEcho(c)'
    BY DEF InStep
  <2>5. AwaitsPrompt(c) => AwaitsPrompt(c)'
    <3> SUFFICES ASSUME AwaitsPrompt(c) PROVE AwaitsPrompt(c)'
      OBVIOUS
    <3>1. k = c /\ Pending = <<>>
      BY <1>1 DEF AwaitsPrompt
    <3>2. Pending' = r
      BY <1>5, <1>6, <3>1, ConcatEmptySeq
    <3>3. NoFalseEcho(r, 0, c + 1)
      BY <2>3, <3>1
    <3> QED
      BY <1>1, <1>7, <3>1, <3>2, <3>3 DEF AwaitsPrompt, NoFalseEcho
  <2>6. ~Sends(c)
    BY <1>1 DEF Sends
  <2>7. EchoWritten(c) => EchoWritten(c)'
    <3> SUFFICES ASSUME EchoWritten(c) PROVE EchoWritten(c)'
      OBVIOUS
    <3>1. k = c + 1 /\ k + 1 = c + 2
      BY <2>4 DEF EchoWritten
    <3>2. PICK f \in 1..Len(Pending) : FirstAt(Pending, f, c + 1) /\ f = Len(Pending)
      BY <1>1 DEF EchoWritten
    <3>3. FirstAt(Pending \o r, f, c + 1) /\ f \in 1..Len(Pending \o r)
      BY <1>5, <2>2, <2>4, <3>1, <3>2, FirstAtMore
    <3>4. NoFalseEcho(Pending \o r, f, c + 2)
      <4> HIDE DEF k
      <4>1. NoFalseEcho(Pending \o r, Len(Pending), k + 1)
        BY <1>5, <2>2, <2>3, <2>4, NoFalseEchoAfter
      <4> QED
        BY <3>1, <3>2, <4>1
    <3> QED
      BY <1>1, <1>6, <1>7, <3>1, <3>3, <3>4 DEF EchoWritten, FirstAt, NoFalseEcho
  <2> QED
    BY <1>1, <2>1, <2>5, <2>6, <2>7 DEF InStep, AwaitsEcho
<1> QED
  BY <1>1, <1>2, <1>7, <1>8, <1>9, <1>10, <1>11, <1>12, Zenon DEF IInv

-----------------------------------------------------------------------------
(* The other steps only move text or end something *)

\* readUntil takes what the reader has read.
LEMMA ReceiveStep ==
    ASSUME IInv, Receive
    PROVE  IInv'
<1>1. /\ buf' = buf \o chunk /\ chunk' = <<>> /\ reader' = "none"
      /\ UNCHANGED <<output, pos, outcome, deadline, session, conn, toServer, toClient, server, line, executed>>
  BY Zenon DEF Receive, serverVars
<1>2. Kinds /\ deadline \in BOOLEAN
  BY Facts
<1>3. buf \o chunk \in Seq(Texts)
  BY <1>2, ConcatProperties DEF Kinds
<1>4. Pending' = Pending
  <2> DEFINE b == buf \o chunk
  <2>1. Pending' = (b \o <<>>) \o toClient
    BY <1>1 DEF Pending
  <2>2. b \in Seq(Texts)
    BY <1>3
  <2> HIDE DEF b
  <2>3. b \o <<>> = b
    BY <2>2, ConcatEmptySeq
  <2> QED
    BY <2>1, <2>3 DEF Pending, b
<1>5. Kinds'
  <2>1. <<>> \in Seq(Texts)
    OBVIOUS
  <2> QED
    BY <1>1, <1>2, <1>3, <2>1 DEF Kinds
<1>6. deadline' \in BOOLEAN
  BY <1>1, <1>2, Zenon
<1> QED
  BY <1>1, <1>4, <1>5, <1>6, Kept

\* The reader takes text from the channel.
LEMMA ReadReturnsStep ==
    ASSUME IInv, ReadReturns
    PROVE  IInv'
<1>1. /\ reader = "reading" /\ reader' = "read"
      /\ UNCHANGED <<output, pos, outcome, buf, deadline, session, conn, toServer, server, line, executed>>
  BY Zenon DEF ReadReturns, serverVars
<1>2. PICK m \in 1..Len(toClient) : chunk' = SubSeq(toClient, 1, m) /\ toClient' = SubSeq(toClient, m + 1, Len(toClient))
  BY Zenon DEF ReadReturns
<1>3. Kinds /\ deadline \in BOOLEAN /\ chunk = <<>>
  BY <1>1, Facts
<1>4. toClient \in Seq(Texts) /\ Len(toClient) \in Nat /\ buf \in Seq(Texts)
  BY <1>3 DEF Kinds
<1> DEFINE a == SubSeq(toClient, 1, m)
           b == SubSeq(toClient, m + 1, Len(toClient))
<1>5. a \in Seq(Texts) /\ b \in Seq(Texts)
  <2>1. b \in Seq(Texts)
    BY <1>4, Rest
  <2>2. \A i \in 1..m : toClient[i] \in Texts
    BY <1>4, ElementOfSeq
  <2>3. a \in Seq(Texts)
    BY <1>4, <2>2, SubSeqProperties
  <2> QED
    BY <2>1, <2>3
<1>6. a \o b = toClient
  <2>1. SubSeq(toClient, 1, Len(toClient)) = toClient
    BY <1>4, SubSeqFull
  <2>2. /\ 1 \in 1 .. Len(toClient) + 1 /\ m \in 1 - 1 .. Len(toClient) /\ Len(toClient) \in m .. Len(toClient)
    BY <1>4
  <2>3. SubSeq(toClient, 1, m) \o SubSeq(toClient, m + 1, Len(toClient)) = SubSeq(toClient, 1, Len(toClient))
    BY <1>4, <2>2, ConcatAdjacentSubSeq
  <2> QED
    BY <2>1, <2>3
<1>7. Pending' = Pending
  <2>1. Pending' = (buf \o a) \o b
    BY <1>1, <1>2 DEF Pending
  <2> HIDE DEF a, b
  <2>2. (buf \o a) \o b = buf \o (a \o b)
    BY <1>4, <1>5, Joined, Zenon
  <2>3. buf \o <<>> = buf
    BY <1>4, ConcatEmptySeq
  <2> QED
    BY <1>3, <1>6, <2>1, <2>2, <2>3 DEF Pending
<1>8. Kinds'
  BY <1>1, <1>2, <1>3, <1>5 DEF Kinds
<1>9. deadline' \in BOOLEAN
  BY <1>1, <1>3, Zenon
<1> QED
  BY <1>1, <1>7, <1>8, <1>9, Kept

\* Steps that touch no text and no line.
LEMMA QuietStep ==
    ASSUME IInv,
           \/ ShellFails \/ StartRead \/ ReceiveError \/ Timeout \/ ReadEnds
           \/ Expire \/ CloseSession \/ CloseConn \/ Break \/ ServerEnds \/ Idle \/ UNCHANGED vars
    PROVE  IInv'
<1> USE DEF clientVars, serverVars, vars
<1>1. Kinds /\ deadline \in BOOLEAN /\ (reader # "read" => chunk = <<>>)
  BY Facts
<1>2. /\ UNCHANGED <<output, pos, toServer, executed, line, buf, chunk, toClient>>
      /\ outcome' = outcome \/ outcome' = "error"
      /\ server' = server \/ (server = "read" /\ server' = "returned")
      /\ conn' = conn \/ conn' = "down"
      /\ session' = session \/ session' = "closed"
      /\ reader' = reader \/ reader' = "reading" \/ reader' = "none" \/ reader' = "eof"
      /\ reader' # "read" /\ reader = "read" => FALSE
  BY Zenon DEF ShellFails, StartRead, ReceiveError, Timeout, ReadEnds,
     Expire, CloseSession, CloseConn, Break, ServerEnds, ServerOnly, Idle
<1>3. deadline' = deadline \/ deadline' = TRUE
  BY Zenon DEF ShellFails, StartRead, ReceiveError, Timeout, ReadEnds,
     Expire, CloseSession, CloseConn, Break, ServerEnds, ServerOnly, Idle
<1>4. deadline' \in BOOLEAN
  BY <1>1, <1>3, Zenon
<1>5. Kinds'
  BY <1>1, <1>2 DEF Kinds
<1>6. Pending' = Pending
  BY <1>2 DEF Pending
<1>7. reader' # "read" => chunk' = <<>>
  BY <1>1, <1>2
<1> QED
  BY <1>2, <1>4, <1>5, <1>6, <1>7, Kept

-----------------------------------------------------------------------------

\* The state before the shell is requested satisfies the invariant.
LEMMA InitIInv ==
    ASSUME Init
    PROVE  IInv
<1>1. Total \in Nat
  BY TheLines
<1>2. Kinds
  BY <1>1 DEF Init, Kinds, Texts
<1>3. TypeOK
  BY <1>2, TypeSplit, Zenon DEF Init
<1>4. Echoed = 0 /\ Len(toServer) = 0 /\ server = "idle" /\ pos = 0 /\ outcome = "none"
  BY DEF Init, Echoed
<1>5. Queued
  BY <1>1, <1>4 DEF Queued
<1>6. Pending = <<>>
  BY DEF Init, Pending
<1>7. Placed
  BY <1>1, <1>4, <1>6 DEF Placed
<1>8. InStep
  BY <1>1, <1>4 DEF InStep
<1>9. chunk = <<>>
  BY DEF Init
<1> QED
  BY <1>3, <1>4, <1>5, <1>7, <1>8, <1>9 DEF IInv

\* Every step of the client, of its reader, of the server and of the network keeps the invariant.
LEMMA NextIInv ==
    ASSUME IInv, [Next]_vars
    PROVE  IInv'
BY ShellStep, SendLineStep, MatchStep, ReceiveStep, ReadReturnsStep, WritePromptStep, EchoLineStep,
   ExecLineStep, QuietStep, Zenon DEF Next, Client, Reader, Server

\* Every step of ptyExecCmds and interactiveSession keeps client and server in
\* step, as long as the output cannot be taken for an echo.
THEOREM Invariance == Spec => []IInv
<1>1. Init => IInv
  BY InitIInv
<1>2. IInv /\ [Next]_vars => IInv'
  BY NextIInv
<1> QED
  BY <1>1, <1>2, PTL DEF Spec

\* The variables of the session keep their types; the device runs no more lines
\* than ptyExecCmds has to send.
THEOREM TypeCorrect == Spec => []TypeOK
<1>1. IInv => TypeOK
  BY DEF IInv
<1> QED
  BY <1>1, Invariance, PTL

\* ptyExecCmds returns nil only if the device has run every line, whatever it
\* prints, unless that is a prompt and after it the command.
THEOREM Executed == Spec => []SuccessMeansExecuted
<1>1. IInv => SuccessMeansExecuted
  BY DEF IInv, SuccessMeansExecuted, Total
<1> QED
  BY <1>1, Invariance, PTL
=============================================================================
