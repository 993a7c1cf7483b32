---------------------------- MODULE NetconfProofs ----------------------------
(***************************************************************************)
(* Proofs about NetconfSession at --concurrency 1, for any number of       *)
(* iterations and commands: on a shared session, whose replies nobody      *)
(* matches by message-id, every iteration reads its own.                   *)
(***************************************************************************)
EXTENDS NetconfSession, FiniteSetTheorems, SequenceTheorems, TLAPS

AllModes == {"reuse-session", "batch-rpc", "edit-commit"}
Ops == {"get", "edit-config", "commit", "close-session"}
Tokens == ({"lf", "hash", "num", "esc", "id", "hello", "eom"} \X Nat) \cup ({"op"} \X Ops)

-----------------------------------------------------------------------------
(* Frames, and a reader inside one *)

\* readChunked after the first k tokens of a frame around the body b.
InsideAt(b, k) ==
    IF k = 0 \/ k = Len(b) + 4 THEN "lf"
    ELSE IF k = 1 \/ k = Len(b) + 5 THEN "hash"
    ELSE IF k < 4 \/ (k > Len(b) + 5 /\ k < Len(b) + 8) THEN "num"
    ELSE IF k < Len(b) + 4 THEN "body"
    ELSE "end"
InsideNum(b, k) ==
    IF k < 3 \/ k = Len(b) + 6 THEN <<>>
    ELSE IF k < Len(b) + 6 THEN <<<<"num", Len(b)>>>>
    ELSE <<HASH>>
InsideLeft(b, k) == IF k >= 4 /\ k < Len(b) + 4 THEN Len(b) + 4 - k ELSE 0
InsideMsg(b, k) == IF k < 5 THEN <<>> ELSE IF k < Len(b) + 4 THEN SubSeq(b, 1, k - 4) ELSE b
Inside(b, k) ==
    [at |-> InsideAt(b, k), num |-> InsideNum(b, k), left |-> InsideLeft(b, k), msg |-> InsideMsg(b, k)]

\* The tokens of a frame.
LEMMA FrameTokens ==
    ASSUME NEW b \in Seq(Tokens)
    PROVE  /\ writeChunked(b) \in Seq(Tokens)
           /\ Len(writeChunked(b)) = Len(b) + 8
           /\ writeChunked(b)[1] = LF
           /\ writeChunked(b)[2] = HASH
           /\ writeChunked(b)[3] = <<"num", Len(b)>>
           /\ writeChunked(b)[4] = LF
           /\ \A i \in 1..Len(b) : writeChunked(b)[i + 4] = b[i]
           /\ writeChunked(b)[Len(b) + 5] = LF
           /\ writeChunked(b)[Len(b) + 6] = HASH
           /\ writeChunked(b)[Len(b) + 7] = HASH
           /\ writeChunked(b)[Len(b) + 8] = LF
<1> DEFINE h == <<LF, HASH, <<"num", Len(b)>>, LF>>
           e == <<LF, HASH, HASH, LF>>
<1>1. Len(b) \in Nat
  OBVIOUS
<1>2. LF \in Tokens /\ HASH \in Tokens /\ <<"num", Len(b)>> \in Tokens
  BY <1>1 DEF Tokens, LF, HASH
<1> HIDE DEF Tokens
<1>3. h \in Seq(Tokens) /\ Len(h) = 4 /\ h[1] = LF /\ h[2] = HASH /\ h[3] = <<"num", Len(b)>> /\ h[4] = LF
  BY <1>2
<1>4. e \in Seq(Tokens) /\ Len(e) = 4 /\ e[1] = LF /\ e[2] = HASH /\ e[3] = HASH /\ e[4] = LF
  BY <1>2
<1>5. writeChunked(b) = (h \o b) \o e
  BY DEF writeChunked
<1> HIDE DEF h, e
<1>6. /\ h \o b \in Seq(Tokens)
      /\ Len(h \o b) = Len(h) + Len(b)
      /\ \A i \in 1 .. Len(h) + Len(b) : (h \o b)[i] = IF i <= Len(h) THEN h[i] ELSE b[i - Len(h)]
  BY <1>3, ConcatProperties
<1> DEFINE f == h \o b
<1> HIDE DEF f
<1>7. /\ f \o e \in Seq(Tokens)
      /\ Len(f \o e) = Len(f) + Len(e)
      /\ \A i \in 1 .. Len(f) + Len(e) : (f \o e)[i] = IF i <= Len(f) THEN f[i] ELSE e[i - Len(f)]
  <2>1. f \in Seq(Tokens)
    BY <1>6 DEF f
  <2> QED
    BY <1>4, <2>1, ConcatProperties
<1>8. writeChunked(b) = f \o e /\ Len(f) = Len(b) + 4
  BY <1>1, <1>3, <1>5, <1>6 DEF f
<1>9. \A i \in 1..4 : writeChunked(b)[i] = h[i]
  BY <1>1, <1>3, <1>4, <1>6, <1>7, <1>8 DEF f
<1>10. \A i \in 1..Len(b) : writeChunked(b)[i + 4] = b[i]
  BY <1>1, <1>3, <1>4, <1>6, <1>7, <1>8 DEF f
<1>11. \A i \in 1..4 : writeChunked(b)[i + Len(b) + 4] = e[i]
  BY <1>1, <1>4, <1>7, <1>8
<1>12. /\ writeChunked(b)[Len(b) + 5] = e[1] /\ writeChunked(b)[Len(b) + 6] = e[2]
       /\ writeChunked(b)[Len(b) + 7] = e[3] /\ writeChunked(b)[Len(b) + 8] = e[4]
  <2>1. 1 + Len(b) + 4 = Len(b) + 5 /\ 2 + Len(b) + 4 = Len(b) + 6 /\ 3 + Len(b) + 4 = Len(b) + 7
        /\ 4 + Len(b) + 4 = Len(b) + 8
    BY <1>1
  <2> QED
    BY <1>11, <2>1
<1>13. writeChunked(b) \in Seq(Tokens) /\ Len(writeChunked(b)) = Len(b) + 8
  BY <1>1, <1>4, <1>7, <1>8
<1>14. /\ writeChunked(b)[1] = LF /\ writeChunked(b)[2] = HASH
       /\ writeChunked(b)[3] = <<"num", Len(b)>> /\ writeChunked(b)[4] = LF
  BY <1>3, <1>9
<1>15. /\ writeChunked(b)[Len(b) + 5] = LF /\ writeChunked(b)[Len(b) + 6] = HASH
       /\ writeChunked(b)[Len(b) + 7] = HASH /\ writeChunked(b)[Len(b) + 8] = LF
  BY <1>4, <1>12
<1> QED
  BY <1>10, <1>13, <1>14, <1>15

\* The steps of readChunked, one by one.
LEMMA FeedCases ==
    ASSUME NEW r, NEW tok
    PROVE  /\ r.at = "lf" => feed(r, tok) = [r EXCEPT !.at = IF tok = LF THEN "hash" ELSE "err"]
           /\ r.at = "hash" => feed(r, tok) = [r EXCEPT !.at = IF tok = HASH THEN "num" ELSE "err", !.num = <<>>]
           /\ r.at = "num" =>
                /\ tok # LF => feed(r, tok) = [r EXCEPT !.num = Append(@, tok)]
                /\ tok = LF /\ r.num = <<HASH>> => feed(r, tok) = [r EXCEPT !.at = "end"]
                /\ tok = LF /\ r.num # <<HASH>> /\ Len(r.num) = 1 /\ r.num[1][1] = "num" /\ r.num[1][2] >= 1 =>
                     feed(r, tok) = [r EXCEPT !.at = "body", !.left = r.num[1][2]]
           /\ r.at = "body" => feed(r, tok) = [r EXCEPT !.msg = Append(@, tok), !.left = @ - 1,
                                                        !.at = IF r.left = 1 THEN "lf" ELSE "body"]
<1>1. CASE r.at = "lf"
  BY <1>1, Zenon DEF feed
<1>2. CASE r.at = "hash"
  BY <1>2, Zenon DEF feed
<1>3. CASE r.at = "num"
  BY <1>3, Zenon DEF feed
<1>4. CASE r.at = "body"
  BY <1>4, Zenon DEF feed
<1> QED
  BY <1>1, <1>2, <1>3, <1>4, Zenon

\* ... and what they make of a reader whose fields are known.
Reader(a, n, l, m) == [at |-> a, num |-> n, left |-> l, msg |-> m]

\* readChunked at the newline that starts a chunk.
LEMMA FeedLF ==
    ASSUME NEW n, NEW l, NEW m
    PROVE  feed(Reader("lf", n, l, m), LF) = Reader("hash", n, l, m)
<1> DEFINE r == Reader("lf", n, l, m)
<1>1. r.at = "lf"
  BY DEF Reader
<1>2. feed(r, LF) = [r EXCEPT !.at = IF LF = LF THEN "hash" ELSE "err"]
  BY <1>1, FeedCases, Zenon
<1> QED
  BY <1>2 DEF Reader

\* readChunked at the '#' of a chunk.
LEMMA FeedHash ==
    ASSUME NEW n, NEW l, NEW m
    PROVE  feed(Reader("hash", n, l, m), HASH) = Reader("num", <<>>, l, m)
<1> DEFINE r == Reader("hash", n, l, m)
<1>1. r.at = "hash"
  BY DEF Reader
<1>2. feed(r, HASH) = [r EXCEPT !.at = IF HASH = HASH THEN "num" ELSE "err", !.num = <<>>]
  BY <1>1, FeedCases, Zenon
<1> QED
  BY <1>2 DEF Reader

\* readChunked within the length line.
LEMMA FeedNum ==
    ASSUME NEW l, NEW m, NEW tok, tok # LF
    PROVE  feed(Reader("num", <<>>, l, m), tok) = Reader("num", <<tok>>, l, m)
<1> DEFINE r == Reader("num", <<>>, l, m)
<1>1. r.at = "num" /\ r.num = <<>>
  BY DEF Reader
<1>2. feed(r, tok) = [r EXCEPT !.num = Append(@, tok)]
  BY <1>1, FeedCases, Zenon
<1>3. Append(<<>>, tok) = <<tok>>
  OBVIOUS
<1> QED
  BY <1>2, <1>3 DEF Reader

\* readChunked at the end of a length line: the body follows.
LEMMA FeedLength ==
    ASSUME NEW n \in Nat \ {0}, NEW l, NEW m
    PROVE  feed(Reader("num", <<<<"num", n>>>>, l, m), LF) = Reader("body", <<<<"num", n>>>>, n, m)
<1> DEFINE r == Reader("num", <<<<"num", n>>>>, l, m)
<1>1. r.at = "num" /\ Len(r.num) = 1 /\ r.num[1][1] = "num" /\ r.num[1][2] = n /\ r.num[1][2] >= 1
  BY DEF Reader
<1>2. r.num # <<HASH>>
  BY <1>1 DEF HASH
<1>3. feed(r, LF) = [r EXCEPT !.at = "body", !.left = r.num[1][2]]
  BY <1>1, <1>2, FeedCases, Zenon
<1> QED
  BY <1>1, <1>3 DEF Reader

\* readChunked at the end of the end-of-chunks line.
LEMMA FeedEnd ==
    ASSUME NEW l, NEW m
    PROVE  feed(Reader("num", <<HASH>>, l, m), LF) = Reader("end", <<HASH>>, l, m)
<1> DEFINE r == Reader("num", <<HASH>>, l, m)
<1>1. r.at = "num" /\ r.num = <<HASH>>
  BY DEF Reader
<1>2. feed(r, LF) = [r EXCEPT !.at = "end"]
  BY <1>1, FeedCases, Zenon
<1> QED
  BY <1>2 DEF Reader

\* readChunked within a body.
LEMMA FeedBody ==
    ASSUME NEW n, NEW l, NEW m, NEW tok
    PROVE  feed(Reader("body", n, l, m), tok)
             = Reader(IF l = 1 THEN "lf" ELSE "body", n, l - 1, Append(m, tok))
<1> DEFINE r == Reader("body", n, l, m)
<1>1. r.at = "body" /\ r.left = l
  BY DEF Reader
<1>2. feed(r, tok) = [r EXCEPT !.msg = Append(@, tok), !.left = @ - 1,
                               !.at = IF r.left = 1 THEN "lf" ELSE "body"]
  BY <1>1, FeedCases, Zenon
<1> QED
  BY <1>1, <1>2 DEF Reader

\* A reader that meets a frame token by token never errs and is done at its end.
LEMMA FeedInside ==
    ASSUME NEW b \in Seq(Tokens), Len(b) > 0, NEW k \in 0..(Len(b) + 7)
    PROVE  feed(Inside(b, k), writeChunked(b)[k + 1]) = Inside(b, k + 1)
<1> DEFINE N == <<<<"num", Len(b)>>>>
           W == writeChunked(b)
<1>1. Len(b) \in Nat \ {0}
  OBVIOUS
<1>2. HASH # LF /\ <<"num", Len(b)>> # LF
  BY DEF HASH, LF
<1>3. /\ W[1] = LF /\ W[2] = HASH /\ W[3] = <<"num", Len(b)>> /\ W[4] = LF
      /\ W[Len(b) + 5] = LF /\ W[Len(b) + 6] = HASH /\ W[Len(b) + 7] = HASH /\ W[Len(b) + 8] = LF
      /\ \A i \in 1..Len(b) : W[i + 4] = b[i]
  BY FrameTokens
<1> HIDE DEF W
<1>4. CASE k = 0
  <2>1. /\ InsideAt(b, k) = "lf" /\ InsideNum(b, k) = <<>> /\ InsideLeft(b, k) = 0 /\ InsideMsg(b, k) = <<>>
        /\ InsideAt(b, k + 1) = "hash" /\ InsideNum(b, k + 1) = <<>> /\ InsideLeft(b, k + 1) = 0 /\ InsideMsg(b, k + 1) = <<>>
    BY <1>1, <1>4 DEF InsideAt, InsideNum, InsideLeft, InsideMsg
  <2>2. W[k + 1] = LF
    BY <1>1, <1>3, <1>4
  <2>3. feed(Reader("lf", <<>>, 0, <<>>), LF) = Reader("hash", <<>>, 0, <<>>)
    BY FeedLF
  <2> QED
    BY <2>1, <2>2, <2>3, Zenon DEF Inside, Reader, W
<1>5. CASE k = 1
  <2>1. /\ InsideAt(b, k) = "hash" /\ InsideNum(b, k) = <<>> /\ InsideLeft(b, k) = 0 /\ InsideMsg(b, k) = <<>>
        /\ InsideAt(b, k + 1) = "num" /\ InsideNum(b, k + 1) = <<>> /\ InsideLeft(b, k + 1) = 0 /\ InsideMsg(b, k + 1) = <<>>
    BY <1>1, <1>5 DEF InsideAt, InsideNum, InsideLeft, InsideMsg
  <2>2. W[k + 1] = HASH
    BY <1>1, <1>3, <1>5
  <2>3. feed(Reader("hash", <<>>, 0, <<>>), HASH) = Reader("num", <<>>, 0, <<>>)
    BY FeedHash
  <2> QED
    BY <2>1, <2>2, <2>3, Zenon DEF Inside, Reader, W
<1>6. CASE k = 2
  <2>1. /\ InsideAt(b, k) = "num" /\ InsideNum(b, k) = <<>> /\ InsideLeft(b, k) = 0 /\ InsideMsg(b, k) = <<>>
        /\ InsideAt(b, k + 1) = "num" /\ InsideNum(b, k + 1) = N /\ InsideLeft(b, k + 1) = 0 /\ InsideMsg(b, k + 1) = <<>>
    BY <1>1, <1>6 DEF InsideAt, InsideNum, InsideLeft, InsideMsg
  <2>2. W[k + 1] = <<"num", Len(b)>>
    BY <1>1, <1>3, <1>6
  <2>3. feed(Reader("num", <<>>, 0, <<>>), <<"num", Len(b)>>) = Reader("num", N, 0, <<>>)
    BY <1>2, FeedNum
  <2> QED
    BY <2>1, <2>2, <2>3, Zenon DEF Inside, Reader, W
<1>7. CASE k = 3
  <2>1. /\ InsideAt(b, k) = "num" /\ InsideNum(b, k) = N /\ InsideLeft(b, k) = 0 /\ InsideMsg(b, k) = <<>>
        /\ InsideAt(b, k + 1) = "body" /\ InsideNum(b, k + 1) = N /\ InsideLeft(b, k + 1) = Len(b) /\ InsideMsg(b, k + 1) = <<>>
    BY <1>1, <1>7 DEF InsideAt, InsideNum, InsideLeft, InsideMsg
  <2>2. W[k + 1] = LF
    BY <1>1, <1>3, <1>7
  <2>3. feed(Reader("num", N, 0, <<>>), LF) = Reader("body", N, Len(b), <<>>)
    BY <1>1, FeedLength
  <2> QED
    BY <2>1, <2>2, <2>3, Zenon DEF Inside, Reader, W
<1>8. CASE k \in 4..(Len(b) + 3)
  <2> DEFINE m == SubSeq(b, 1, k - 4)
             a == IF Len(b) + 4 - k = 1 THEN "lf" ELSE "body"
  <2>1. k < 5 => m = <<>>
    BY <1>8, SubSeqEmpty
  <2>2. SubSeq(b, 1, Len(b)) = b
    BY SubSeqFull
  <2>3. InsideMsg(b, k) = m /\ InsideMsg(b, k + 1) = SubSeq(b, 1, k - 3)
    <3>1. CASE k = Len(b) + 3
      BY <1>1, <2>1, <2>2, <3>1 DEF InsideMsg
    <3>2. CASE k < Len(b) + 3
      BY <1>1, <1>8, <2>1, <3>2 DEF InsideMsg
    <3> QED
      BY <1>1, <1>8, <3>1, <3>2
  <2>4. /\ InsideAt(b, k) = "body" /\ InsideNum(b, k) = N /\ InsideLeft(b, k) = Len(b) + 4 - k
        /\ InsideAt(b, k + 1) = a /\ InsideNum(b, k + 1) = N /\ InsideLeft(b, k + 1) = Len(b) + 4 - k - 1
    BY <1>1, <1>8 DEF InsideAt, InsideNum, InsideLeft
  <2>5. W[k + 1] = b[k - 3]
    BY <1>1, <1>3, <1>8
  <2>6. Append(m, b[k - 3]) = SubSeq(b, 1, k - 3)
    <3>1. k - 3 \in 1..Len(b) /\ 1 \in 1..Len(b) /\ k - 3 - 1 = k - 4
      BY <1>1, <1>8
    <3>2. SubSeq(b, 1, k - 3) = m \o <<b[k - 3]>>
      BY <3>1, SubSeqRecursiveSecond
    <3>3. m \in Seq(Tokens) /\ b[k - 3] \in Tokens
      BY <3>1, <1>8
    <3> QED
      BY <3>2, <3>3, AppendIsConcat
  <2> HIDE DEF m
  <2>7. feed(Reader("body", N, Len(b) + 4 - k, m), b[k - 3]) = Reader(a, N, Len(b) + 4 - k - 1, Append(m, b[k - 3]))
    BY FeedBody
  <2> HIDE DEF a
  <2> QED
    BY <2>3, <2>4, <2>5, <2>6, <2>7, Zenon DEF Inside, Reader, W
<1>9. CASE k = Len(b) + 4
  <2>1. /\ InsideAt(b, k) = "lf" /\ InsideNum(b, k) = N /\ InsideLeft(b, k) = 0 /\ InsideMsg(b, k) = b
        /\ InsideAt(b, k + 1) = "hash" /\ InsideNum(b, k + 1) = N /\ InsideLeft(b, k + 1) = 0 /\ InsideMsg(b, k + 1) = b
    BY <1>1, <1>9 DEF InsideAt, InsideNum, InsideLeft, InsideMsg
  <2>2. W[k + 1] = LF
    BY <1>1, <1>3, <1>9
  <2>3. feed(Reader("lf", N, 0, b), LF) = Reader("hash", N, 0, b)
    BY FeedLF
  <2> QED
    BY <2>1, <2>2, <2>3, Zenon DEF Inside, Reader, W
<1>10. CASE k = Len(b) + 5
  <2>1. /\ InsideAt(b, k) = "hash" /\ InsideNum(b, k) = N /\ InsideLeft(b, k) = 0 /\ InsideMsg(b, k) = b
        /\ InsideAt(b, k + 1) = "num" /\ InsideNum(b, k + 1) = <<>> /\ InsideLeft(b, k + 1) = 0 /\ InsideMsg(b, k + 1) = b
    BY <1>1, <1>10 DEF InsideAt, InsideNum, InsideLeft, InsideMsg
  <2>2. W[k + 1] = HASH
    BY <1>1, <1>3, <1>10
  <2>3. feed(Reader("hash", N, 0, b), HASH) = Reader("num", <<>>, 0, b)
    BY FeedHash
  <2> QED
    BY <2>1, <2>2, <2>3, Zenon DEF Inside, Reader, W
<1>11. CASE k = Len(b) + 6
  <2>1. /\ InsideAt(b, k) = "num" /\ InsideNum(b, k) = <<>> /\ InsideLeft(b, k) = 0 /\ InsideMsg(b, k) = b
        /\ InsideAt(b, k + 1) = "num" /\ InsideNum(b, k + 1) = <<HASH>> /\ InsideLeft(b, k + 1) = 0 /\ InsideMsg(b, k + 1) = b
    BY <1>1, <1>11 DEF InsideAt, InsideNum, InsideLeft, InsideMsg
  <2>2. W[k + 1] = HASH
    BY <1>1, <1>3, <1>11
  <2>3. feed(Reader("num", <<>>, 0, b), HASH) = Reader("num", <<HASH>>, 0, b)
    BY <1>2, FeedNum
  <2> QED
    BY <2>1, <2>2, <2>3, Zenon DEF Inside, Reader, W
<1>12. CASE k = Len(b) + 7
  <2>1. /\ InsideAt(b, k) = "num" /\ InsideNum(b, k) = <<HASH>> /\ InsideLeft(b, k) = 0 /\ InsideMsg(b, k) = b
        /\ InsideAt(b, k + 1) = "end" /\ InsideNum(b, k + 1) = <<HASH>> /\ InsideLeft(b, k + 1) = 0 /\ InsideMsg(b, k + 1) = b
    BY <1>1, <1>12 DEF InsideAt, InsideNum, InsideLeft, InsideMsg
  <2>2. W[k + 1] = LF
    BY <1>1, <1>3, <1>12
  <2>3. feed(Reader("num", <<HASH>>, 0, b), LF) = Reader("end", <<HASH>>, 0, b)
    BY FeedEnd
  <2> QED
    BY <2>1, <2>2, <2>3, Zenon DEF Inside, Reader, W
<1> QED
  BY <1>1, <1>4, <1>5, <1>6, <1>7, <1>8, <1>9, <1>10, <1>11, <1>12

\* Between frames, at the end of one, and nowhere in between.
LEMMA InsideEnds ==
    ASSUME NEW b \in Seq(Tokens), Len(b) > 0, NEW k \in 0..(Len(b) + 8)
    PROVE  /\ Inside(b, 0) = NewReader
           /\ Inside(b, k).at # "err"
           /\ Inside(b, k).at = "end" <=> k = Len(b) + 8
           /\ Inside(b, Len(b) + 8).msg = b
<1>1. Len(b) \in Nat
  OBVIOUS
<1> QED
  BY <1>1 DEF Inside, InsideAt, InsideNum, InsideLeft, InsideMsg, NewReader

-----------------------------------------------------------------------------
(* Windows on a stream of frames *)

\* The tokens q are under way on a channel in state lk.  They are what follows
\* the first x tokens of a stream of n frames, F[k] of which starts after off[k]
\* tokens: all of the rest as long as the channel is up, else a part of it.
Window(q, F, off, n, x, lk) ==
    /\ q \in Seq(Tokens)
    /\ x + Len(q) <= off[n + 1]
    /\ lk = "up" => x + Len(q) = off[n + 1]
    /\ \A k \in 1..n : \A i \in 1..Len(F[k]) :
          x < off[k] + i /\ off[k] + i <= x + Len(q) => q[off[k] + i - x] = F[k][i]

\* Positions in a window.
LEMMA PositionInTail ==
    ASSUME NEW a \in Nat, NEW i \in Nat, NEW x \in Nat, NEW l \in Nat, x + 1 < a + i, a + i <= x + 1 + (l - 1)
    PROVE  a + i - (x + 1) \in 1..(l - 1) /\ a + i - (x + 1) + 1 = a + i - x
OBVIOUS

\* The next token of a frame is the first of the window.
LEMMA PositionOfHead ==
    ASSUME NEW a \in Nat, NEW j \in Nat, NEW x \in Nat, NEW l \in Nat \ {0}, x = a + j
    PROVE  a + (j + 1) - x = 1 /\ x < a + (j + 1) /\ a + (j + 1) <= x + l
OBVIOUS

\* A token of the frame just appended.
LEMMA PositionInLast ==
    ASSUME NEW a \in Nat, NEW i \in Nat \ {0}, NEW x \in Nat, NEW l \in Nat, NEW m \in Nat, x + l = a, i <= m
    PROVE  a + i - x = l + i /\ l + i \in 1 .. l + m /\ ~(l + i <= l) /\ l + i - l = i
OBVIOUS

\* A token that was not cut off.
LEMMA PositionInCut ==
    ASSUME NEW a \in Nat, NEW i \in Nat, NEW x \in Nat, NEW l \in Nat, NEW m \in Nat,
           x < a + i, a + i <= x + m, m <= l
    PROVE  a + i - x \in 1..m /\ a + i <= x + l
OBVIOUS

\* A token of an earlier frame.
LEMMA PositionBefore ==
    ASSUME NEW a \in Nat, NEW i \in Nat, NEW x \in Nat, NEW l \in Nat, NEW m \in Nat, NEW e \in Nat,
           a + m <= e, x + l = e, i <= m, x < a + i
    PROVE  a + i <= x + l /\ a + i - x \in 1..l
OBVIOUS

\* The first token of a window and what remains without it.
LEMMA WindowTail ==
    ASSUME NEW q, NEW n \in Nat, NEW F \in [1..n -> Seq(Tokens)], NEW off \in [1..(n + 1) -> Nat],
           NEW x \in Nat, NEW lk, Window(q, F, off, n, x, lk), q # <<>>
    PROVE  /\ Window(Tail(q), F, off, n, x + 1, lk)
           /\ \A k \in 1..n : \A j \in 0..(Len(F[k]) - 1) : x = off[k] + j => Head(q) = F[k][j + 1]
           /\ x < off[n + 1]
<1>1. q \in Seq(Tokens) /\ Len(q) \in Nat \ {0} /\ off[n + 1] \in Nat
  BY EmptySeq DEF Window
<1>2. Head(q) = q[1]
  BY <1>1
<1>3. /\ Tail(q) \in Seq(Tokens) /\ Len(Tail(q)) = Len(q) - 1
      /\ \A i \in 1..(Len(q) - 1) : Tail(q)[i] = q[i + 1]
  BY <1>1, HeadTailProperties
<1>4. x + Len(q) <= off[n + 1] /\ (lk = "up" => x + Len(q) = off[n + 1])
  BY DEF Window
<1>5. /\ x + 1 + Len(Tail(q)) <= off[n + 1]
      /\ lk = "up" => x + 1 + Len(Tail(q)) = off[n + 1]
  BY <1>1, <1>3, <1>4
<1>6. ASSUME NEW k \in 1..n, NEW i \in 1..Len(F[k]),
             x + 1 < off[k] + i, off[k] + i <= x + 1 + Len(Tail(q))
      PROVE  Tail(q)[off[k] + i - (x + 1)] = F[k][i]
  <2>1. off[k] \in Nat /\ Len(F[k]) \in Nat
    OBVIOUS
  <2>2. q[off[k] + i - x] = F[k][i]
    BY <1>1, <1>3, <1>6, <2>1 DEF Window
  <2>3. off[k] + i - (x + 1) \in 1..(Len(q) - 1) /\ off[k] + i - (x + 1) + 1 = off[k] + i - x
    <3> DEFINE a == off[k]
               l == Len(q)
    <3>1. i \in Nat /\ x \in Nat /\ a \in Nat /\ l \in Nat
      BY <1>1, <2>1
    <3>2. x + 1 < a + i /\ a + i <= x + 1 + (l - 1)
      BY <1>3, <1>6
    <3> HIDE DEF a, l
    <3>3. a + i - (x + 1) \in 1..(l - 1) /\ a + i - (x + 1) + 1 = a + i - x
      BY ONLY <3>1, <3>2, PositionInTail
    <3> QED
      BY <3>3, Zenon DEF a, l
  <2> QED
    BY <1>3, <2>2, <2>3
<1>7. ASSUME NEW k \in 1..n, NEW j \in 0..(Len(F[k]) - 1), x = off[k] + j
      PROVE  Head(q) = F[k][j + 1]
  <2>1. off[k] \in Nat /\ Len(F[k]) \in Nat
    OBVIOUS
  <2>2. j + 1 \in 1..Len(F[k]) /\ off[k] + (j + 1) - x = 1 /\ x < off[k] + (j + 1) /\ off[k] + (j + 1) <= x + Len(q)
    <3> DEFINE a == off[k]
               l == Len(q)
    <3>1. j \in Nat /\ j + 1 \in 1..Len(F[k])
      BY <2>1
    <3>2. a \in Nat /\ x \in Nat /\ l \in Nat \ {0} /\ x = a + j
      BY <1>1, <1>7, <2>1
    <3> HIDE DEF a, l
    <3>3. a + (j + 1) - x = 1 /\ x < a + (j + 1) /\ a + (j + 1) <= x + l
      BY ONLY <3>1, <3>2, PositionOfHead
    <3> QED
      BY <3>1, <3>3, Zenon DEF a, l
  <2>3. q[off[k] + (j + 1) - x] = F[k][j + 1]
    BY <2>2 DEF Window
  <2> QED
    BY <1>2, <2>2, <2>3
<1>8. Window(Tail(q), F, off, n, x + 1, lk)
  BY <1>3, <1>5, <1>6 DEF Window
<1> QED
  BY <1>1, <1>4, <1>7, <1>8

\* A channel that breaks may lose the end of it.
LEMMA WindowCut ==
    ASSUME NEW q, NEW n \in Nat, NEW F \in [1..n -> Seq(Tokens)], NEW off \in [1..(n + 1) -> Nat],
           NEW x \in Nat, NEW lk, Window(q, F, off, n, x, lk), NEW m \in 0..Len(q)
    PROVE  Window(SubSeq(q, 1, m), F, off, n, x, "broken")
<1>1. q \in Seq(Tokens) /\ Len(q) \in Nat /\ off[n + 1] \in Nat /\ m \in Nat /\ m <= Len(q)
  BY DEF Window
<1>2. /\ SubSeq(q, 1, m) \in Seq(Tokens) /\ Len(SubSeq(q, 1, m)) = m
      /\ \A i \in 1..m : SubSeq(q, 1, m)[i] = q[i]
  BY <1>1
<1>3. x + Len(SubSeq(q, 1, m)) <= off[n + 1]
  BY <1>1, <1>2 DEF Window
<1>4. ASSUME NEW k \in 1..n, NEW i \in 1..Len(F[k]), x < off[k] + i, off[k] + i <= x + Len(SubSeq(q, 1, m))
      PROVE  SubSeq(q, 1, m)[off[k] + i - x] = F[k][i]
  <2>1. off[k] \in Nat /\ Len(F[k]) \in Nat
    OBVIOUS
  <2> DEFINE a == off[k]
             l == Len(q)
  <2>2. a \in Nat /\ i \in Nat /\ l \in Nat /\ x < a + i /\ a + i <= x + m /\ m <= l
    BY <1>1, <1>2, <1>4, <2>1
  <2> HIDE DEF a, l
  <2>3. a + i - x \in 1..m /\ a + i <= x + l
    BY ONLY <1>1, <2>2, x \in Nat, PositionInCut
  <2>4. q[a + i - x] = F[k][i]
    BY <2>2, <2>3, Zenon DEF Window, a, l
  <2> QED
    BY <1>2, <2>3, <2>4, Zenon DEF a
<1> QED
  BY <1>2, <1>3, <1>4 DEF Window

\* A channel that is no longer up promises nothing more.
LEMMA WindowDown ==
    ASSUME NEW q, NEW F, NEW off, NEW n, NEW x, NEW lk, NEW down,
           Window(q, F, off, n, x, lk), down # "up"
    PROVE  Window(q, F, off, n, x, down)
BY DEF Window

\* A write on a channel that is up appends a frame.
LEMMA WindowAppend ==
    ASSUME NEW q, NEW n \in Nat, NEW F \in [1..n -> Seq(Tokens)], NEW off \in [1..(n + 1) -> Nat],
           NEW x \in Nat, Window(q, F, off, n, x, "up"),
           NEW G \in [1..(n + 1) -> Seq(Tokens)], NEW offG \in [1..(n + 2) -> Nat],
           \A k \in 1..n : G[k] = F[k] /\ off[k] + Len(F[k]) <= off[n + 1],
           \A k \in 1..(n + 1) : offG[k] = off[k],
           offG[n + 2] = off[n + 1] + Len(G[n + 1])
    PROVE  Window(q \o G[n + 1], G, offG, n + 1, x, "up")
<1> DEFINE f == G[n + 1]
           p == q \o f
<1>1. q \in Seq(Tokens) /\ Len(q) \in Nat /\ f \in Seq(Tokens) /\ Len(f) \in Nat
  BY DEF Window
<1>2. /\ p \in Seq(Tokens) /\ Len(p) = Len(q) + Len(f)
      /\ \A i \in 1 .. Len(q) + Len(f) : p[i] = IF i <= Len(q) THEN q[i] ELSE f[i - Len(q)]
  BY <1>1, ConcatProperties
<1>3. off[n + 1] \in Nat /\ x + Len(q) = off[n + 1] /\ offG[n + 1 + 1] = off[n + 1] + Len(f)
  BY DEF Window
<1>4. x + Len(p) = offG[n + 1 + 1]
  BY <1>1, <1>2, <1>3
<1>5. ASSUME NEW k \in 1..(n + 1), NEW i \in 1..Len(G[k]), x < offG[k] + i, offG[k] + i <= x + Len(p)
      PROVE  p[offG[k] + i - x] = G[k][i]
  <2>1. offG[k] = off[k] /\ off[k] \in Nat /\ Len(G[k]) \in Nat
    OBVIOUS
  <2>2. CASE k = n + 1
    <3>1. i \in Nat \ {0} /\ i <= Len(f) /\ offG[k] = off[n + 1]
      BY <1>1, <2>1, <2>2
    <3>2. /\ off[n + 1] + i - x = Len(q) + i /\ Len(q) + i \in 1 .. Len(q) + Len(f)
          /\ ~(Len(q) + i <= Len(q)) /\ Len(q) + i - Len(q) = i
      <4> DEFINE a == off[n + 1]
                 l == Len(q)
                 m == Len(f)
      <4>1. a \in Nat /\ i \in Nat \ {0} /\ x \in Nat /\ l \in Nat /\ m \in Nat /\ x + l = a /\ i <= m
        BY <1>1, <1>3, <3>1
      <4> HIDE DEF a, l, m
      <4>2. a + i - x = l + i /\ l + i \in 1 .. l + m /\ ~(l + i <= l) /\ l + i - l = i
        BY ONLY <4>1, PositionInLast
      <4> QED
        BY <4>2, Zenon DEF a, l, m
    <3>3. p[Len(q) + i] = f[i]
      <4> DEFINE l == Len(q)
                 m == Len(f)
                 u == l + i
      <4>1. u \in 1 .. l + m /\ ~(u <= l) /\ u - l = i
        BY <3>2
      <4>2. \A j \in 1 .. l + m : p[j] = IF j <= l THEN q[j] ELSE f[j - l]
        BY <1>2
      <4> HIDE DEF l, m, u, p, f
      <4>3. p[u] = f[u - l]
        BY ONLY <4>1, <4>2, Zenon
      <4> QED
        BY <4>1, <4>3, Zenon DEF u, l
    <3> QED
      BY <2>2, <3>1, <3>2, <3>3
  <2>3. CASE k \in 1..n
    <3>1. G[k] = F[k] /\ off[k] + Len(F[k]) <= off[n + 1] /\ i \in 1..Len(F[k])
      BY <2>3
    <3>2. off[k] + i <= x + Len(q) /\ off[k] + i - x \in 1..Len(q)
      <4>1. i \in Nat /\ i <= Len(F[k]) /\ Len(F[k]) \in Nat /\ x < off[k] + i
        BY <1>5, <2>1, <3>1
      <4> QED
        BY <1>1, <1>3, <2>1, <3>1, <4>1, PositionBefore
    <3>3. q[off[k] + i - x] = F[k][i]
      BY <1>5, <2>1, <2>3, <3>1, <3>2 DEF Window
    <3>4. p[off[k] + i - x] = q[off[k] + i - x]
      <4>1. \A e \in 1..Len(q) : e \in 1 .. Len(q) + Len(f) /\ e <= Len(q)
        BY <1>1
      <4> QED
        BY <1>2, <3>2, <4>1
    <3> QED
      BY <2>1, <3>1, <3>3, <3>4
  <2>4. k = n + 1 \/ k \in 1..n
    OBVIOUS
  <2> QED
    BY <2>2, <2>3, <2>4
<1>6. x + Len(p) <= offG[n + 1 + 1]
  BY <1>1, <1>2, <1>3
<1> HIDE DEF p
<1>7. Window(p, G, offG, n + 1, x, "up")
  BY <1>2, <1>4, <1>5, <1>6 DEF Window
<1> QED
  BY <1>7 DEF p

-----------------------------------------------------------------------------
(* The two streams of a session, as an iteration in mode md that has written *)
(* RPCs with the message ids s sees them                                     *)

OpOf(md, k) == IF md # "edit-commit" THEN "get" ELSE IF k = 1 THEN "edit-config" ELSE "commit"
Request(md, s, k) == rpc(s[k], OpOf(md, k))
Reply(md, s, k) == reply(s[k], OpOf(md, k))
ReqLen(md, k) == IF md = "edit-commit" /\ k = 1 THEN 11 ELSE 10
RepLen(md) == IF md = "edit-commit" THEN 10 ELSE 14

\* The client's hello and its requests, and where the k-th of these starts.
Requests(md, s) == [k \in 1..(Len(s) + 1) |-> IF k = 1 THEN Hello ELSE writeChunked(Request(md, s, k - 1))]
RequestAt(md, k) ==
    IF k = 1 THEN 0 ELSE IF md = "edit-commit" /\ k > 2 THEN 10 * (k - 2) + 3 ELSE 10 * (k - 2) + 2
RequestsAt(md, s) == [k \in 1..(Len(s) + 2) |-> RequestAt(md, k)]
ToServer(md, s, x, q, lk) == Window(q, Requests(md, s), RequestsAt(md, s), Len(s) + 1, x, lk)

\* The replies to the first a requests.
Replies(md, s, a) == [k \in 1..a |-> writeChunked(Reply(md, s, k))]
ReplyAt(md, k) == IF md = "edit-commit" THEN 10 * (k - 1) ELSE 14 * (k - 1)
RepliesAt(md, a) == [k \in 1..(a + 1) |-> ReplyAt(md, k)]
ToClient(md, s, a, x, q, lk) == Window(q, Replies(md, s, a), RepliesAt(md, a), a, x, lk)

\* What the two ends read from a message.
LEMMA Bodies ==
    ASSUME NEW md \in AllModes, NEW id \in Nat, NEW k \in Nat \ {0}
    PROVE  /\ rpc(id, OpOf(md, k)) \in Seq(Tokens)
           /\ Len(rpc(id, OpOf(md, k))) = ReqLen(md, k) - 8
           /\ MessageID(rpc(id, OpOf(md, k))) = id
           /\ rpc(id, OpOf(md, k))[2][2] = OpOf(md, k)
           /\ reply(id, OpOf(md, k)) \in Seq(Tokens)
           /\ Len(reply(id, OpOf(md, k))) = RepLen(md) - 8
           /\ MessageID(reply(id, OpOf(md, k))) = id
           /\ OpOf(md, k) # "close-session"
<1> DEFINE op == OpOf(md, k)
           h == <<<<"id", id>>, <<"op", op>>>>
<1>1. op \in Ops /\ op # "close-session" /\ (op = "get" <=> md # "edit-commit")
      /\ (op = "edit-config" <=> md = "edit-commit" /\ k = 1)
  BY DEF OpOf, Ops
<1> HIDE DEF op
<1>2. <<"id", id>> \in Tokens /\ <<"op", op>> \in Tokens /\ LF \in Tokens /\ HASH \in Tokens /\ <<"esc", 0>> \in Tokens
  BY <1>1 DEF Tokens, LF, HASH
<1>3. h \in Seq(Tokens) /\ Len(h) = 2 /\ h[1] = <<"id", id>> /\ h[2] = <<"op", op>>
  BY <1>2
<1>4. <<>> \in Seq(Tokens) /\ <<LF>> \in Seq(Tokens) /\ Len(<<LF>>) = 1 /\ Len(<<>>) = 0
  BY <1>2
<1>5. xmlEscape(Output) \in Seq(Tokens) /\ Len(xmlEscape(Output)) = 4
  <2>1. Output \in Seq(Tokens) /\ Len(Output) = 4 /\ DOMAIN Output = 1..4
    BY <1>2 DEF Output
  <2>2. \A j \in 1..4 : Output[j] \in Tokens
    BY <2>1
  <2>3. xmlEscape(Output) \in [1..4 -> Tokens]
    BY <1>2, <2>1, <2>2 DEF xmlEscape
  <2> DEFINE x == xmlEscape(Output)
  <2> HIDE DEF x
  <2>4. x \in Seq(Tokens)
    BY <2>3, SeqDef DEF x
  <2>5. DOMAIN x = 1..4 /\ DOMAIN x = 1..Len(x) /\ Len(x) \in Nat
    BY <2>3, <2>4, LenProperties DEF x
  <2>6. Len(x) = 4
    BY <2>5
  <2> QED
    BY <2>4, <2>6 DEF x
<1> DEFINE ending == IF op = "edit-config" THEN <<LF>> ELSE <<>>
           output == IF op = "get" THEN xmlEscape(Output) ELSE <<>>
<1>6. ending \in Seq(Tokens) /\ Len(ending) = IF op = "edit-config" THEN 1 ELSE 0
  BY <1>4
<1>7. output \in Seq(Tokens) /\ Len(output) = IF op = "get" THEN 4 ELSE 0
  <2>1. CASE op = "get"
    BY <1>5, <2>1
  <2>2. CASE op # "get"
    BY <1>4, <2>2
  <2> QED
    BY <2>1, <2>2
<1>8. rpc(id, op) = h \o ending /\ reply(id, op) = h \o output
  BY DEF rpc, reply
<1> HIDE DEF h, ending, output
<1>9. /\ h \o ending \in Seq(Tokens) /\ Len(h \o ending) = 2 + Len(ending)
      /\ (h \o ending)[1] = h[1] /\ (h \o ending)[2] = h[2]
  <2>1. /\ h \o ending \in Seq(Tokens) /\ Len(h \o ending) = Len(h) + Len(ending)
        /\ \A i \in 1 .. Len(h) + Len(ending) : (h \o ending)[i] = IF i <= Len(h) THEN h[i] ELSE ending[i - Len(h)]
    BY <1>3, <1>6, ConcatProperties
  <2>2. Len(h) = 2 /\ Len(ending) \in Nat
    BY <1>3, <1>6
  <2>3. 1 \in 1 .. Len(h) + Len(ending) /\ 2 \in 1 .. Len(h) + Len(ending)
    BY <2>2
  <2> QED
    BY <2>1, <2>2, <2>3
<1>10. /\ h \o output \in Seq(Tokens) /\ Len(h \o output) = 2 + Len(output)
       /\ (h \o output)[1] = h[1] /\ (h \o output)[2] = h[2]
  <2>1. /\ h \o output \in Seq(Tokens) /\ Len(h \o output) = Len(h) + Len(output)
        /\ \A i \in 1 .. Len(h) + Len(output) : (h \o output)[i] = IF i <= Len(h) THEN h[i] ELSE output[i - Len(h)]
    BY <1>3, <1>7, ConcatProperties
  <2>2. Len(h) = 2 /\ Len(output) \in Nat
    BY <1>3, <1>7
  <2>3. 1 \in 1 .. Len(h) + Len(output) /\ 2 \in 1 .. Len(h) + Len(output)
    BY <2>2
  <2> QED
    BY <2>1, <2>2, <2>3
<1>11. Len(rpc(id, op)) = ReqLen(md, k) - 8 /\ Len(reply(id, op)) = RepLen(md) - 8
  BY <1>1, <1>6, <1>7, <1>8, <1>9, <1>10 DEF ReqLen, RepLen
<1>12. \A b \in Seq(Tokens) : Len(b) >= 2 /\ b[1] = <<"id", id>> => MessageID(b) = id
  BY DEF MessageID
<1>13. MessageID(rpc(id, op)) = id /\ MessageID(reply(id, op)) = id
  <2>1. Len(ending) \in Nat /\ Len(output) \in Nat
    BY <1>6, <1>7
  <2>2. Len(h \o ending) >= 2 /\ Len(h \o output) >= 2
    BY <1>9, <1>10, <2>1
  <2>3. (h \o ending)[1] = <<"id", id>> /\ (h \o output)[1] = <<"id", id>>
    BY <1>3, <1>9, <1>10
  <2>4. MessageID(h \o ending) = id /\ MessageID(h \o output) = id
    BY <1>9, <1>10, <1>12, <2>2, <2>3, Zenon
  <2> QED
    BY <1>8, <2>4
<1>14. rpc(id, op)[2][2] = op
  BY <1>3, <1>8, <1>9
<1>15. rpc(id, op) \in Seq(Tokens) /\ reply(id, op) \in Seq(Tokens)
  BY <1>8, <1>9, <1>10
<1> QED
  BY <1>1, <1>11, <1>13, <1>14, <1>15 DEF op

\* The requests of an iteration are texts of fixed length that make frames.
LEMMA RequestFrames ==
    ASSUME NEW md \in AllModes, NEW s \in Seq(Nat), NEW k \in 1..Len(s)
    PROVE  /\ Request(md, s, k) \in Seq(Tokens)
           /\ Len(Request(md, s, k)) = ReqLen(md, k) - 8
           /\ writeChunked(Request(md, s, k)) \in Seq(Tokens)
           /\ Len(writeChunked(Request(md, s, k))) = ReqLen(md, k)
<1>1. s[k] \in Nat /\ k \in Nat \ {0}
  BY ElementOfSeq
<1>2. Request(md, s, k) \in Seq(Tokens) /\ Len(Request(md, s, k)) = ReqLen(md, k) - 8
  BY <1>1, Bodies DEF Request
<1> QED
  <2>1. /\ writeChunked(Request(md, s, k)) \in Seq(Tokens)
        /\ Len(writeChunked(Request(md, s, k))) = Len(Request(md, s, k)) + 8
    BY <1>2, FrameTokens, Zenon
  <2>2. ReqLen(md, k) - 8 + 8 = ReqLen(md, k)
    BY DEF ReqLen
  <2> QED
    BY <1>2, <2>1, <2>2

\* The replies to an iteration are texts of fixed length that make frames.
LEMMA ReplyFrames ==
    ASSUME NEW md \in AllModes, NEW s \in Seq(Nat), NEW k \in 1..Len(s)
    PROVE  /\ Reply(md, s, k) \in Seq(Tokens)
           /\ Len(Reply(md, s, k)) = RepLen(md) - 8
           /\ writeChunked(Reply(md, s, k)) \in Seq(Tokens)
           /\ Len(writeChunked(Reply(md, s, k))) = RepLen(md)
<1>1. s[k] \in Nat /\ k \in Nat \ {0}
  BY ElementOfSeq
<1>2. Reply(md, s, k) \in Seq(Tokens) /\ Len(Reply(md, s, k)) = RepLen(md) - 8
  BY <1>1, Bodies DEF Reply
<1> QED
  <2>1. /\ writeChunked(Reply(md, s, k)) \in Seq(Tokens)
        /\ Len(writeChunked(Reply(md, s, k))) = Len(Reply(md, s, k)) + 8
    BY <1>2, FrameTokens, Zenon
  <2>2. RepLen(md) - 8 + 8 = RepLen(md)
    BY DEF RepLen
  <2> QED
    BY <1>2, <2>1, <2>2

\* The stream of the requests: the hello, then a frame for each.
LEMMA RequestStream ==
    ASSUME NEW md \in AllModes, NEW s \in Seq(Nat)
    PROVE  /\ Hello \in Seq(Tokens) /\ Len(Hello) = 2
           /\ Requests(md, s) \in [1..(Len(s) + 1) -> Seq(Tokens)]
           /\ RequestsAt(md, s) \in [1..(Len(s) + 1 + 1) -> Nat]
<1>1. Hello \in Seq(Tokens) /\ Len(Hello) = 2
  <2>1. <<"hello", 0>> \in Tokens /\ <<"eom", 0>> \in Tokens
    BY DEF Tokens
  <2> QED
    BY <2>1 DEF Hello
<1>2. Len(s) \in Nat
  OBVIOUS
<1>3. ASSUME NEW k \in 1..(Len(s) + 1)
      PROVE  (IF k = 1 THEN Hello ELSE writeChunked(Request(md, s, k - 1))) \in Seq(Tokens)
  <2>1. CASE k = 1
    BY <1>1, <2>1
  <2>2. CASE k # 1
    <3>1. k - 1 \in 1..Len(s)
      BY <1>2, <2>2
    <3> QED
      BY <2>2, <3>1, RequestFrames
  <2> QED
    BY <2>1, <2>2
<1>4. \A k \in 1..(Len(s) + 2) : RequestAt(md, k) \in Nat
  BY <1>2 DEF RequestAt
<1>5. Len(s) + 1 + 1 = Len(s) + 2
  BY <1>2
<1> QED
  BY <1>1, <1>3, <1>4, <1>5 DEF Requests, RequestsAt

\* The stream of the replies.
LEMMA ReplyStream ==
    ASSUME NEW md \in AllModes, NEW s \in Seq(Nat), NEW a \in 0..Len(s)
    PROVE  /\ Replies(md, s, a) \in [1..a -> Seq(Tokens)]
           /\ RepliesAt(md, a) \in [1..(a + 1) -> Nat]
<1>1. Len(s) \in Nat /\ 1..a \subseteq 1..Len(s)
  OBVIOUS
<1>2. \A k \in 1..a : writeChunked(Reply(md, s, k)) \in Seq(Tokens)
  BY <1>1, ReplyFrames
<1>3. \A k \in 1..(a + 1) : ReplyAt(md, k) \in Nat
  BY <1>1 DEF ReplyAt
<1> QED
  BY <1>2, <1>3 DEF Replies, RepliesAt

\* The server takes a token of its client's hello.
LEMMA HelloRead ==
    ASSUME NEW md \in AllModes, NEW s \in Seq(Nat), NEW k \in 0..1, NEW q, NEW lk,
           ToServer(md, s, k, q, lk), q # <<>>
    PROVE  Head(q) = Hello[k + 1] /\ ToServer(md, s, k + 1, Tail(q), lk)
<1>1. /\ Len(s) + 1 \in Nat /\ k \in Nat /\ 1 \in 1..(Len(s) + 1) /\ 1 \in 1..(Len(s) + 2)
      /\ Requests(md, s) \in [1..(Len(s) + 1) -> Seq(Tokens)]
      /\ RequestsAt(md, s) \in [1..(Len(s) + 1 + 1) -> Nat]
  BY RequestStream
<1>2. Window(q, Requests(md, s), RequestsAt(md, s), Len(s) + 1, k, lk)
  BY DEF ToServer
<1>3. Requests(md, s)[1] = Hello /\ RequestsAt(md, s)[1] = 0
  BY <1>1 DEF Requests, RequestsAt, RequestAt
<1>4. Len(Hello) = 2
  BY RequestStream
<1>5. k \in 0..(Len(Requests(md, s)[1]) - 1) /\ k = RequestsAt(md, s)[1] + k
  BY <1>3, <1>4
<1> DEFINE F == Requests(md, s)
           off == RequestsAt(md, s)
           n == Len(s) + 1
<1>6. /\ n \in Nat /\ k \in Nat /\ F \in [1..n -> Seq(Tokens)] /\ off \in [1..(n + 1) -> Nat]
      /\ Window(q, F, off, n, k, lk)
  BY <1>1, <1>2
<1> HIDE DEF F, off, n
<1>7. /\ Window(Tail(q), F, off, n, k + 1, lk)
      /\ \A i \in 1..n : \A j \in 0..(Len(F[i]) - 1) : k = off[i] + j => Head(q) = F[i][j + 1]
      /\ k < off[n + 1]
  BY <1>6, WindowTail
<1>8. Head(q) = F[1][k + 1]
  BY <1>1, <1>5, <1>7 DEF F, off, n
<1> QED
  BY <1>3, <1>7, <1>8 DEF ToServer, F, off, n

\* The server takes a token of the (a+1)-st request.
LEMMA RequestRead ==
    ASSUME NEW md \in AllModes, NEW s \in Seq(Nat), NEW a \in 0..Len(s), NEW k \in Nat,
           k < ReqLen(md, a + 1), NEW q, NEW lk,
           ToServer(md, s, RequestAt(md, a + 2) + k, q, lk), q # <<>>
    PROVE  /\ a < Len(s)
           /\ Head(q) = writeChunked(Request(md, s, a + 1))[k + 1]
           /\ ToServer(md, s, RequestAt(md, a + 2) + k + 1, Tail(q), lk)
<1> DEFINE F == Requests(md, s)
           off == RequestsAt(md, s)
           n == Len(s) + 1
           x == RequestAt(md, a + 2) + k
<1>1. n \in Nat /\ F \in [1..n -> Seq(Tokens)] /\ off \in [1..(n + 1) -> Nat] /\ a \in Nat /\ Len(s) \in Nat
  BY RequestStream
<1>2. RequestAt(md, a + 2) \in Nat /\ x \in Nat
  BY <1>1 DEF RequestAt
<1>3. Window(q, F, off, n, x, lk)
  BY DEF ToServer
<1>4. off[n + 1] = RequestAt(md, Len(s) + 2)
  BY <1>1 DEF RequestsAt
<1> HIDE DEF F, off, n, x
<1>5. /\ Window(Tail(q), F, off, n, x + 1, lk)
      /\ \A i \in 1..n : \A j \in 0..(Len(F[i]) - 1) : x = off[i] + j => Head(q) = F[i][j + 1]
      /\ x < off[n + 1]
  BY <1>1, <1>2, <1>3, WindowTail
<1>6. a < Len(s)
  BY <1>1, <1>4, <1>5 DEF x, RequestAt
<1>7. a + 2 \in 1..n /\ a + 1 \in 1..Len(s) /\ a + 2 - 1 = a + 1 /\ a + 2 \in 1..(Len(s) + 2) /\ a + 2 # 1
  BY <1>1, <1>6 DEF n
<1>8. F[a + 2] = writeChunked(Request(md, s, a + 1)) /\ off[a + 2] = RequestAt(md, a + 2)
  BY <1>7 DEF F, off, n, Requests, RequestsAt
<1>9. Len(F[a + 2]) = ReqLen(md, a + 1)
  BY <1>7, <1>8, RequestFrames
<1>10. k \in 0..(Len(F[a + 2]) - 1)
  BY <1>9 DEF ReqLen
<1>11. x = off[a + 2] + k
  BY <1>8 DEF x
<1>12. Head(q) = F[a + 2][k + 1]
  BY <1>5, <1>7, <1>10, <1>11
<1> QED
  BY <1>5, <1>6, <1>8, <1>12 DEF ToServer, F, off, n, x

\* The client takes a token of the (g+1)-st reply.
LEMMA ReplyRead ==
    ASSUME NEW md \in AllModes, NEW s \in Seq(Nat), NEW a \in 0..Len(s), NEW g \in 0..a, NEW c \in Nat,
           c < RepLen(md), NEW q, NEW lk,
           ToClient(md, s, a, ReplyAt(md, g + 1) + c, q, lk), q # <<>>
    PROVE  /\ g < a
           /\ Head(q) = writeChunked(Reply(md, s, g + 1))[c + 1]
           /\ ToClient(md, s, a, ReplyAt(md, g + 1) + c + 1, Tail(q), lk)
<1> DEFINE F == Replies(md, s, a)
           off == RepliesAt(md, a)
           x == ReplyAt(md, g + 1) + c
<1>1. a \in Nat /\ F \in [1..a -> Seq(Tokens)] /\ off \in [1..(a + 1) -> Nat] /\ g \in Nat /\ Len(s) \in Nat
  BY ReplyStream
<1>2. ReplyAt(md, g + 1) \in Nat /\ x \in Nat
  BY <1>1 DEF ReplyAt
<1>3. Window(q, F, off, a, x, lk)
  BY DEF ToClient
<1>4. off[a + 1] = ReplyAt(md, a + 1)
  BY <1>1 DEF RepliesAt
<1> HIDE DEF F, off, x
<1>5. /\ Window(Tail(q), F, off, a, x + 1, lk)
      /\ \A i \in 1..a : \A j \in 0..(Len(F[i]) - 1) : x = off[i] + j => Head(q) = F[i][j + 1]
      /\ x < off[a + 1]
  BY <1>1, <1>2, <1>3, WindowTail
<1>6. g < a
  BY <1>1, <1>4, <1>5 DEF x, ReplyAt
<1>7. g + 1 \in 1..a /\ g + 1 \in 1..Len(s) /\ g + 1 \in 1..(a + 1)
  BY <1>1, <1>6
<1>8. F[g + 1] = writeChunked(Reply(md, s, g + 1)) /\ off[g + 1] = ReplyAt(md, g + 1)
  BY <1>7 DEF F, off, Replies, RepliesAt
<1>9. Len(F[g + 1]) = RepLen(md)
  BY <1>7, <1>8, ReplyFrames
<1>10. c \in 0..(Len(F[g + 1]) - 1)
  BY <1>9 DEF RepLen
<1>11. x = off[g + 1] + c
  BY <1>8 DEF x
<1>12. Head(q) = F[g + 1][c + 1]
  BY <1>5, <1>7, <1>10, <1>11
<1> QED
  BY <1>5, <1>6, <1>8, <1>12 DEF ToClient, F, off, x

\* One more request does not change the ones before it, nor their replies.
LEMMA Earlier ==
    ASSUME NEW md \in AllModes, NEW s \in Seq(Nat), NEW m \in Nat
    PROVE  /\ Append(s, m) \in Seq(Nat) /\ Len(Append(s, m)) = Len(s) + 1
           /\ \A k \in 1..Len(s) : /\ Append(s, m)[k] = s[k]
                                   /\ Request(md, Append(s, m), k) = Request(md, s, k)
                                   /\ Reply(md, Append(s, m), k) = Reply(md, s, k)
           /\ \A a \in 0..Len(s) : Replies(md, Append(s, m), a) = Replies(md, s, a)
           /\ Request(md, Append(s, m), Len(s) + 1) = rpc(m, OpOf(md, Len(s) + 1))
<1>1. /\ Append(s, m) \in Seq(Nat) /\ Len(Append(s, m)) = Len(s) + 1 /\ Append(s, m)[Len(s) + 1] = m
      /\ \A k \in 1..Len(s) : Append(s, m)[k] = s[k]
  BY AppendProperties
<1>2. \A k \in 1..Len(s) : /\ Request(md, Append(s, m), k) = Request(md, s, k)
                           /\ Reply(md, Append(s, m), k) = Reply(md, s, k)
  BY <1>1 DEF Request, Reply
<1>3. ASSUME NEW a \in 0..Len(s)
      PROVE  Replies(md, Append(s, m), a) = Replies(md, s, a)
  <2>1. \A k \in 1..a : k \in 1..Len(s)
    OBVIOUS
  <2> QED
    BY <1>2, <2>1 DEF Replies
<1> QED
  BY <1>1, <1>2, <1>3 DEF Request

\* The client writes a request.
LEMMA RequestWritten ==
    ASSUME NEW md \in AllModes, NEW s \in Seq(Nat), NEW m \in Nat, NEW x \in Nat, NEW q,
           ToServer(md, s, x, q, "up")
    PROVE  ToServer(md, Append(s, m), x, q \o writeChunked(rpc(m, OpOf(md, Len(s) + 1))), "up")
<1> DEFINE t == Append(s, m)
           n == Len(s) + 1
           F == Requests(md, s)
           G == Requests(md, t)
           off == RequestsAt(md, s)
           offG == RequestsAt(md, t)
<1>1. t \in Seq(Nat) /\ Len(t) = Len(s) + 1 /\ Len(s) \in Nat
  BY Earlier
<1>2. n \in Nat /\ F \in [1..n -> Seq(Tokens)] /\ off \in [1..(n + 1) -> Nat]
  BY <1>1, RequestStream
<1>3. Len(t) + 1 = n + 1 /\ Len(t) + 1 + 1 = n + 2
  BY <1>1
<1>4. G \in [1..(n + 1) -> Seq(Tokens)] /\ offG \in [1..(n + 2) -> Nat]
  BY <1>1, <1>3, RequestStream
<1>5. \A k \in 1..n : G[k] = F[k]
  <2> TAKE k \in 1..n
  <2>1. G[k] = (IF k = 1 THEN Hello ELSE writeChunked(Request(md, t, k - 1)))
    BY <1>1 DEF Requests
  <2>2. F[k] = (IF k = 1 THEN Hello ELSE writeChunked(Request(md, s, k - 1)))
    BY <1>1 DEF Requests
  <2>3. k # 1 => k - 1 \in 1..Len(s)
    BY <1>1
  <2> QED
    BY <2>1, <2>2, <2>3, Earlier
<1>6. \A k \in 1..(n + 1) : offG[k] = off[k] /\ off[k] = RequestAt(md, k)
  BY <1>1 DEF RequestsAt
<1>7. \A k \in 1..n : off[k] + Len(F[k]) <= off[n + 1]
  <2> TAKE k \in 1..n
  <2>1. CASE k = 1
    <3>1. F[k] = Hello /\ Len(Hello) = 2
      BY <1>1, <2>1, RequestStream DEF Requests
    <3>2. off[k] = 0 /\ off[n + 1] = RequestAt(md, n + 1)
      BY <1>2, <1>6, <2>1 DEF RequestAt
    <3> QED
      BY <1>1, <3>1, <3>2 DEF RequestAt
  <2>2. CASE k # 1
    <3>1. k - 1 \in 1..Len(s) /\ k \in Nat /\ k > 1
      BY <1>1, <2>2
    <3>2. F[k] = writeChunked(Request(md, s, k - 1))
      BY <1>1, <2>2 DEF Requests
    <3>3. Len(F[k]) = ReqLen(md, k - 1)
      BY <3>1, <3>2, RequestFrames
    <3>4. off[k] = RequestAt(md, k) /\ off[n + 1] = RequestAt(md, n + 1)
      BY <1>2, <1>6
    <3> QED
      BY <1>1, <3>1, <3>3, <3>4 DEF RequestAt, ReqLen
  <2> QED
    BY <2>1, <2>2
<1>8. G[n + 1] = writeChunked(rpc(m, OpOf(md, Len(s) + 1))) /\ Len(G[n + 1]) = ReqLen(md, Len(s) + 1)
  <2>1. n + 1 \in 1..(Len(t) + 1) /\ n + 1 # 1 /\ n + 1 - 1 = Len(s) + 1 /\ Len(s) + 1 \in 1..Len(t)
    BY <1>1
  <2>2. G[n + 1] = writeChunked(Request(md, t, Len(s) + 1))
    BY <2>1 DEF Requests
  <2>3. Len(G[n + 1]) = ReqLen(md, Len(s) + 1)
    BY <1>1, <2>1, <2>2, RequestFrames
  <2> QED
    BY <2>2, <2>3, Earlier
<1>9. offG[n + 2] = off[n + 1] + Len(G[n + 1])
  <2>1. offG[n + 2] = RequestAt(md, n + 2) /\ off[n + 1] = RequestAt(md, n + 1)
    BY <1>1, <1>2, <1>6 DEF RequestsAt
  <2>2. RequestAt(md, Len(s) + 3) = RequestAt(md, Len(s) + 2) + ReqLen(md, Len(s) + 1)
    <3>1. CASE Len(s) = 0
      BY <3>1 DEF RequestAt, ReqLen
    <3>2. CASE Len(s) > 0
      <4> DEFINE l == Len(s)
      <4>1. l \in Nat /\ l > 0
        BY <1>1, <3>2
      <4> HIDE DEF l
      <4>2. RequestAt(md, l + 3) = RequestAt(md, l + 2) + ReqLen(md, l + 1)
        BY <4>1 DEF RequestAt, ReqLen
      <4> QED
        BY <4>2 DEF l
    <3> QED
      BY <1>1, <3>1, <3>2
  <2>3. n + 2 = Len(s) + 3 /\ n + 1 = Len(s) + 2
    BY <1>1
  <2> QED
    BY <1>8, <2>1, <2>2, <2>3
<1>10. Window(q, F, off, n, x, "up")
  BY DEF ToServer
<1> HIDE DEF F, off, G, offG, n
<1>11. Window(q \o G[n + 1], G, offG, n + 1, x, "up")
  BY <1>2, <1>4, <1>5, <1>6, <1>7, <1>9, <1>10, WindowAppend
<1> QED
  BY <1>3, <1>8, <1>11 DEF ToServer, G, offG

\* The server writes a reply.
LEMMA ReplyWritten ==
    ASSUME NEW md \in AllModes, NEW s \in Seq(Nat), NEW a \in 0..Len(s), a < Len(s), NEW x \in Nat, NEW q,
           ToClient(md, s, a, x, q, "up")
    PROVE  ToClient(md, s, a + 1, x, q \o writeChunked(Reply(md, s, a + 1)), "up")
<1> DEFINE F == Replies(md, s, a)
           G == Replies(md, s, a + 1)
           off == RepliesAt(md, a)
           offG == RepliesAt(md, a + 1)
<1>1. a \in Nat /\ Len(s) \in Nat /\ a + 1 \in 0..Len(s) /\ a + 1 + 1 = a + 2 /\ a + 1 \in 1..Len(s)
  OBVIOUS
<1>2. F \in [1..a -> Seq(Tokens)] /\ off \in [1..(a + 1) -> Nat]
  BY ReplyStream
<1>3. G \in [1..(a + 1) -> Seq(Tokens)] /\ offG \in [1..(a + 2) -> Nat]
  BY <1>1, ReplyStream
<1>4. \A k \in 1..a : G[k] = F[k]
  BY <1>1 DEF Replies
<1>5. \A k \in 1..(a + 1) : offG[k] = off[k] /\ off[k] = ReplyAt(md, k)
  BY <1>1 DEF RepliesAt
<1>6. \A k \in 1..a : off[k] + Len(F[k]) <= off[a + 1]
  <2> TAKE k \in 1..a
  <2>1. F[k] = writeChunked(Reply(md, s, k)) /\ k \in 1..Len(s)
    BY <1>1 DEF Replies
  <2>2. Len(F[k]) = RepLen(md)
    BY <2>1, ReplyFrames
  <2>3. off[k] = ReplyAt(md, k) /\ off[a + 1] = ReplyAt(md, a + 1)
    BY <1>1, <1>5
  <2> QED
    BY <1>1, <2>2, <2>3 DEF ReplyAt, RepLen
<1>7. G[a + 1] = writeChunked(Reply(md, s, a + 1)) /\ Len(G[a + 1]) = RepLen(md)
  BY <1>1, ReplyFrames DEF Replies
<1>8. offG[a + 2] = off[a + 1] + Len(G[a + 1])
  <2>1. offG[a + 2] = ReplyAt(md, a + 2) /\ off[a + 1] = ReplyAt(md, a + 1)
    BY <1>1, <1>5 DEF RepliesAt
  <2>2. ReplyAt(md, a + 2) = ReplyAt(md, a + 1) + RepLen(md)
    BY <1>1 DEF ReplyAt, RepLen
  <2> QED
    BY <1>7, <2>1, <2>2
<1>9. Window(q, F, off, a, x, "up")
  BY DEF ToClient
<1> HIDE DEF F, off, G, offG
<1>10. Window(q \o G[a + 1], G, offG, a + 1, x, "up")
  BY <1>1, <1>2, <1>3, <1>4, <1>5, <1>6, <1>8, <1>9, WindowAppend
<1> QED
  BY <1>7, <1>10 DEF ToClient, G, offG

-----------------------------------------------------------------------------
(* Both ends of the session *)

\* The server sv, with its reader sr, has answered a requests and has read k
\* tokens of the next message, the one after q on the way to it.
Serving(md, s, a, k, sv, sr, q, lk) ==
    /\ sv \in {"readHello", "read", "dispatch", "done"}
    /\ sv = "readHello" => a = 0 /\ k < 2 /\ sr = NewReader /\ ToServer(md, s, k, q, lk)
    /\ sv = "read" => /\ k < ReqLen(md, a + 1)
                      /\ IF k = 0 THEN sr = NewReader
                                  ELSE a < Len(s) /\ sr = Inside(Request(md, s, a + 1), k)
                      /\ ToServer(md, s, RequestAt(md, a + 2) + k, q, lk)
    /\ sv = "dispatch" => /\ a < Len(s)
                          /\ sr.msg = Request(md, s, a + 1)
                          /\ ToServer(md, s, RequestAt(md, a + 3), q, lk)
    /\ sv = "done" => lk # "up"

\* The client has written the requests s, read g replies and c tokens of the
\* next; q is on the way to the server and r to the client.
Connected(md, s, g, c, sv, sr, q, r, lk) ==
    \E a \in 0..Len(s), k \in 0..10 :
        /\ g <= a
        /\ Serving(md, s, a, k, sv, sr, q, lk)
        /\ ToClient(md, s, a, ReplyAt(md, g + 1) + c, r, lk)

\* readEOM.
LEMMA ConnectedHello ==
    ASSUME NEW md \in AllModes, NEW s \in Seq(Nat), NEW g \in Nat, NEW c \in Nat,
           NEW sr, NEW q, NEW r, NEW lk,
           Connected(md, s, g, c, "readHello", sr, q, r, lk), q # <<>>
    PROVE  Connected(md, s, g, c, IF Head(q)[1] = "eom" THEN "read" ELSE "readHello", sr, Tail(q), r, lk)
<1>1. PICK a \in 0..Len(s), k \in 0..10 :
         /\ g <= a
         /\ Serving(md, s, a, k, "readHello", sr, q, lk)
         /\ ToClient(md, s, a, ReplyAt(md, g + 1) + c, r, lk)
  BY DEF Connected
<1>2. a = 0 /\ k \in 0..1 /\ sr = NewReader /\ ToServer(md, s, k, q, lk)
  BY <1>1 DEF Serving
<1>3. Head(q) = Hello[k + 1] /\ ToServer(md, s, k + 1, Tail(q), lk)
  BY <1>2, HelloRead
<1>4. CASE k = 0
  <2>1. Head(q)[1] # "eom"
    BY <1>3, <1>4 DEF Hello
  <2>2. Serving(md, s, a, 1, "readHello", sr, Tail(q), lk)
    BY <1>2, <1>3, <1>4 DEF Serving
  <2>3. 1 \in 0..10
    OBVIOUS
  <2> QED
    BY <1>1, <2>1, <2>2, <2>3 DEF Connected
<1>5. CASE k = 1
  <2>1. Head(q)[1] = "eom"
    BY <1>3, <1>5 DEF Hello
  <2>2. RequestAt(md, a + 2) + 0 = k + 1 /\ 0 < ReqLen(md, a + 1)
    BY <1>2, <1>5 DEF RequestAt, ReqLen
  <2>3. Serving(md, s, a, 0, "read", sr, Tail(q), lk)
    BY <1>2, <1>3, <2>2 DEF Serving
  <2>4. 0 \in 0..10
    OBVIOUS
  <2> QED
    BY <1>1, <2>1, <2>3, <2>4 DEF Connected
<1> QED
  BY <1>2, <1>4, <1>5

\* The server's readChunked finds the client's frames intact.
LEMMA ConnectedServerRead ==
    ASSUME NEW md \in AllModes, NEW s \in Seq(Nat), NEW g \in Nat, NEW c \in Nat,
           NEW sr, NEW q, NEW r, NEW lk,
           Connected(md, s, g, c, "read", sr, q, r, lk), q # <<>>
    PROVE  /\ feed(sr, Head(q)).at # "err"
           /\ Connected(md, s, g, c, IF feed(sr, Head(q)).at = "end" THEN "dispatch" ELSE "read",
                        feed(sr, Head(q)), Tail(q), r, lk)
<1>1. PICK a \in 0..Len(s), k \in 0..10 :
         /\ g <= a
         /\ Serving(md, s, a, k, "read", sr, q, lk)
         /\ ToClient(md, s, a, ReplyAt(md, g + 1) + c, r, lk)
  BY DEF Connected
<1> DEFINE b == Request(md, s, a + 1)
           n == feed(sr, Head(q))
<1>2. /\ k \in Nat /\ k < ReqLen(md, a + 1) /\ ToServer(md, s, RequestAt(md, a + 2) + k, q, lk)
      /\ IF k = 0 THEN sr = NewReader ELSE sr = Inside(b, k)
  BY <1>1 DEF Serving
<1>3. /\ a < Len(s)
      /\ Head(q) = writeChunked(b)[k + 1]
      /\ ToServer(md, s, RequestAt(md, a + 2) + k + 1, Tail(q), lk)
  BY <1>2, RequestRead
<1>4. a + 1 \in 1..Len(s) /\ a \in Nat
  BY <1>3
<1>5. b \in Seq(Tokens) /\ Len(b) = ReqLen(md, a + 1) - 8
  BY <1>4, RequestFrames
<1>6. Len(b) > 0 /\ k \in 0..(Len(b) + 7) /\ k + 1 \in 0..(Len(b) + 8) /\ ReqLen(md, a + 1) = Len(b) + 8
  BY <1>2, <1>5 DEF ReqLen
<1> HIDE DEF b
<1>7. sr = Inside(b, k)
  <2>1. Inside(b, 0) = NewReader
    BY <1>5, <1>6, InsideEnds
  <2> QED
    BY <1>2, <2>1
<1>8. n = Inside(b, k + 1)
  BY <1>3, <1>5, <1>6, <1>7, FeedInside
<1>9. n.at # "err" /\ (n.at = "end" <=> k + 1 = Len(b) + 8)
  BY <1>5, <1>6, <1>8, InsideEnds
<1> HIDE DEF n
<1>10. CASE n.at = "end"
  <2>1. k + 1 = Len(b) + 8 /\ n.msg = b
    BY <1>5, <1>6, <1>8, <1>9, <1>10, InsideEnds
  <2>2. RequestAt(md, a + 2) + k + 1 = RequestAt(md, a + 3)
    BY <1>4, <1>6, <2>1 DEF RequestAt, ReqLen
  <2>3. Serving(md, s, a, k, "dispatch", n, Tail(q), lk)
    BY <1>3, <2>1, <2>2 DEF Serving, b
  <2>4. Connected(md, s, g, c, "dispatch", n, Tail(q), r, lk)
    BY <1>1, <2>3 DEF Connected
  <2> QED
    BY <1>9, <1>10, <2>4 DEF n
<1>11. CASE n.at # "end"
  <2>1. k + 1 < ReqLen(md, a + 1) /\ k + 1 \in 0..10 /\ k + 1 # 0
    BY <1>2, <1>6, <1>9, <1>11 DEF ReqLen
  <2>2. RequestAt(md, a + 2) + (k + 1) = RequestAt(md, a + 2) + k + 1
    BY <1>2, <1>4 DEF RequestAt
  <2>3. Serving(md, s, a, k + 1, "read", n, Tail(q), lk)
    BY <1>3, <1>8, <2>1, <2>2 DEF Serving, b
  <2>4. Connected(md, s, g, c, "read", n, Tail(q), r, lk)
    BY <1>1, <2>1, <2>3 DEF Connected
  <2> QED
    BY <1>9, <1>11, <2>4 DEF n
<1> QED
  BY <1>10, <1>11

\* dispatch answers the request it has read.
LEMMA ConnectedDispatch ==
    ASSUME NEW md \in AllModes, NEW s \in Seq(Nat), NEW g \in Nat, NEW c \in Nat,
           NEW sr, NEW q, NEW r, NEW lk,
           Connected(md, s, g, c, "dispatch", sr, q, r, lk)
    PROVE  /\ sr.msg[2][2] # "close-session"
           /\ lk = "up" => Connected(md, s, g, c, "read", NewReader, q,
                                     r \o writeChunked(reply(MessageID(sr.msg), sr.msg[2][2])), lk)
<1>1. PICK a \in 0..Len(s), k \in 0..10 :
         /\ g <= a
         /\ Serving(md, s, a, k, "dispatch", sr, q, lk)
         /\ ToClient(md, s, a, ReplyAt(md, g + 1) + c, r, lk)
  BY DEF Connected
<1>2. a < Len(s) /\ sr.msg = Request(md, s, a + 1) /\ ToServer(md, s, RequestAt(md, a + 3), q, lk)
  BY <1>1 DEF Serving
<1>3. a \in Nat /\ a + 1 \in 1..Len(s) /\ a + 1 \in Nat \ {0} /\ s[a + 1] \in Nat /\ a + 1 \in 0..Len(s)
  BY <1>2
<1>4. /\ MessageID(sr.msg) = s[a + 1] /\ sr.msg[2][2] = OpOf(md, a + 1)
      /\ OpOf(md, a + 1) # "close-session"
  <2>1. /\ MessageID(rpc(s[a + 1], OpOf(md, a + 1))) = s[a + 1]
        /\ rpc(s[a + 1], OpOf(md, a + 1))[2][2] = OpOf(md, a + 1)
        /\ OpOf(md, a + 1) # "close-session"
    BY <1>3, Bodies
  <2> QED
    BY <1>2, <2>1 DEF Request
<1>5. ASSUME lk = "up"
      PROVE  Connected(md, s, g, c, "read", NewReader, q,
                       r \o writeChunked(reply(MessageID(sr.msg), sr.msg[2][2])), lk)
  <2> DEFINE p == r \o writeChunked(Reply(md, s, a + 1))
  <2>1. ReplyAt(md, g + 1) + c \in Nat
    BY DEF ReplyAt
  <2>2. ToClient(md, s, a + 1, ReplyAt(md, g + 1) + c, p, lk)
    BY <1>1, <1>2, <1>5, <2>1, ReplyWritten
  <2>3. p = r \o writeChunked(reply(MessageID(sr.msg), sr.msg[2][2]))
    BY <1>4 DEF Reply
  <2>4. a + 1 + 2 = a + 3 /\ RequestAt(md, a + 3) + 0 = RequestAt(md, a + 3) /\ 0 < ReqLen(md, a + 1 + 1)
    BY <1>3 DEF RequestAt, ReqLen
  <2>5. Serving(md, s, a + 1, 0, "read", NewReader, q, lk)
    BY <1>2, <2>4 DEF Serving
  <2>6. 0 \in 0..10 /\ g <= a + 1
    BY <1>1, <1>3
  <2> HIDE DEF p
  <2>7. Connected(md, s, g, c, "read", NewReader, q, p, lk)
    BY <1>3, <2>2, <2>5, <2>6 DEF Connected
  <2> QED
    BY <2>3, <2>7
<1> QED
  BY <1>4, <1>5

\* A session that the network has broken and the server has left.
LEMMA ConnectedDone ==
    ASSUME NEW md \in AllModes, NEW s \in Seq(Nat), NEW g \in Nat, NEW c \in Nat,
           NEW sv, NEW sr, NEW q, NEW r, NEW lk, NEW sr2, NEW q2, lk # "up",
           Connected(md, s, g, c, sv, sr, q, r, lk)
    PROVE  Connected(md, s, g, c, "done", sr2, q2, r, lk)
<1>1. PICK a \in 0..Len(s), k \in 0..10 :
         g <= a /\ ToClient(md, s, a, ReplyAt(md, g + 1) + c, r, lk)
  BY DEF Connected
<1>2. Serving(md, s, a, k, "done", sr2, q2, lk)
  BY DEF Serving
<1> QED
  BY <1>1, <1>2 DEF Connected

\* A channel that breaks, and may lose tokens of both directions, leaves the ends connected.
LEMMA ConnectedBreak ==
    ASSUME NEW md \in AllModes, NEW s \in Seq(Nat), NEW g \in Nat, NEW c \in Nat,
           NEW sv, NEW sr, NEW q, NEW r, NEW m \in 0..Len(q), NEW n \in 0..Len(r),
           Connected(md, s, g, c, sv, sr, q, r, "up")
    PROVE  Connected(md, s, g, c, sv, sr, SubSeq(q, 1, m), SubSeq(r, 1, n), "broken")
<1>1. PICK a \in 0..Len(s), k \in 0..10 :
         /\ g <= a
         /\ Serving(md, s, a, k, sv, sr, q, "up")
         /\ ToClient(md, s, a, ReplyAt(md, g + 1) + c, r, "up")
  BY DEF Connected
<1>2. a \in Nat /\ ReplyAt(md, g + 1) + c \in Nat
  BY DEF ReplyAt
<1>3. ToClient(md, s, a, ReplyAt(md, g + 1) + c, SubSeq(r, 1, n), "broken")
  BY <1>1, <1>2, ReplyStream, WindowCut DEF ToClient
<1>4. ASSUME NEW x \in Nat, ToServer(md, s, x, q, "up")
      PROVE  ToServer(md, s, x, SubSeq(q, 1, m), "broken")
  <2>1. /\ Len(s) + 1 \in Nat
        /\ Requests(md, s) \in [1..(Len(s) + 1) -> Seq(Tokens)]
        /\ RequestsAt(md, s) \in [1..(Len(s) + 1 + 1) -> Nat]
    BY RequestStream
  <2>2. Window(q, Requests(md, s), RequestsAt(md, s), Len(s) + 1, x, "up")
    BY <1>4 DEF ToServer
  <2>3. Window(SubSeq(q, 1, m), Requests(md, s), RequestsAt(md, s), Len(s) + 1, x, "broken")
    BY <2>1, <2>2, WindowCut
  <2> QED
    BY <2>3 DEF ToServer
<1>5. k \in Nat /\ RequestAt(md, a + 2) + k \in Nat /\ RequestAt(md, a + 3) \in Nat
  BY <1>2 DEF RequestAt
<1>6. Serving(md, s, a, k, sv, sr, SubSeq(q, 1, m), "broken")
  BY <1>1, <1>4, <1>5 DEF Serving
<1> QED
  BY <1>1, <1>3, <1>6 DEF Connected

\* The client writes its next request.
LEMMA ConnectedSend ==
    ASSUME NEW md \in AllModes, NEW s \in Seq(Nat), NEW g \in Nat, NEW c \in Nat,
           NEW sv, NEW sr, NEW q, NEW r, NEW m \in Nat,
           Connected(md, s, g, c, sv, sr, q, r, "up")
    PROVE  Connected(md, Append(s, m), g, c, sv, sr,
                     q \o writeChunked(rpc(m, OpOf(md, Len(s) + 1))), r, "up")
<1> DEFINE t == Append(s, m)
           p == q \o writeChunked(rpc(m, OpOf(md, Len(s) + 1)))
<1>1. PICK a \in 0..Len(s), k \in 0..10 :
         /\ g <= a
         /\ Serving(md, s, a, k, sv, sr, q, "up")
         /\ ToClient(md, s, a, ReplyAt(md, g + 1) + c, r, "up")
  BY DEF Connected
<1>2. a \in Nat /\ Len(s) \in Nat /\ Len(t) = Len(s) + 1 /\ a \in 0..Len(t)
  BY Earlier
<1>3. ToClient(md, t, a, ReplyAt(md, g + 1) + c, r, "up")
  <2>1. Replies(md, t, a) = Replies(md, s, a)
    BY Earlier
  <2> QED
    BY <1>1, <2>1 DEF ToClient
<1>4. ASSUME NEW x \in Nat, ToServer(md, s, x, q, "up")
      PROVE  ToServer(md, t, x, p, "up")
  BY <1>4, RequestWritten
<1>5. k \in Nat /\ RequestAt(md, a + 2) + k \in Nat /\ RequestAt(md, a + 3) \in Nat
  BY <1>2 DEF RequestAt
<1>6. a < Len(s) => a < Len(t) /\ Request(md, t, a + 1) = Request(md, s, a + 1)
  <2> SUFFICES ASSUME a < Len(s) PROVE a < Len(t) /\ Request(md, t, a + 1) = Request(md, s, a + 1)
    OBVIOUS
  <2>1. a + 1 \in 1..Len(s)
    BY <1>2
  <2> QED
    BY <1>2, <2>1, Earlier
<1> HIDE DEF t, p
<1>7. Serving(md, t, a, k, sv, sr, p, "up")
  BY <1>1, <1>4, <1>5, <1>6 DEF Serving
<1>8. Connected(md, t, g, c, sv, sr, p, r, "up")
  BY <1>1, <1>2, <1>3, <1>7 DEF Connected
<1> QED
  BY <1>8 DEF t, p

\* The client reads a token of a reply.
LEMMA ConnectedRead ==
    ASSUME NEW md \in AllModes, NEW s \in Seq(Nat), NEW g \in Nat, NEW c \in Nat, c < RepLen(md),
           NEW sv, NEW sr, NEW q, NEW r, NEW lk,
           Connected(md, s, g, c, sv, sr, q, r, lk), r # <<>>
    PROVE  /\ g < Len(s)
           /\ Head(r) = writeChunked(Reply(md, s, g + 1))[c + 1]
           /\ Connected(md, s, g, c + 1, sv, sr, q, Tail(r), lk)
           /\ c + 1 = RepLen(md) => Connected(md, s, g + 1, 0, sv, sr, q, Tail(r), lk)
<1>1. PICK a \in 0..Len(s), k \in 0..10 :
         /\ g <= a
         /\ Serving(md, s, a, k, sv, sr, q, lk)
         /\ ToClient(md, s, a, ReplyAt(md, g + 1) + c, r, lk)
  BY DEF Connected
<1>2. a \in Nat /\ g \in 0..a
  BY <1>1
<1>3. /\ g < a
      /\ Head(r) = writeChunked(Reply(md, s, g + 1))[c + 1]
      /\ ToClient(md, s, a, ReplyAt(md, g + 1) + c + 1, Tail(r), lk)
  BY <1>1, <1>2, ReplyRead
<1>4. ReplyAt(md, g + 1) + (c + 1) = ReplyAt(md, g + 1) + c + 1
  BY DEF ReplyAt
<1>5. Connected(md, s, g, c + 1, sv, sr, q, Tail(r), lk)
  BY <1>1, <1>3, <1>4 DEF Connected
<1>6. ASSUME c + 1 = RepLen(md)
      PROVE  Connected(md, s, g + 1, 0, sv, sr, q, Tail(r), lk)
  <2>1. ReplyAt(md, g + 1 + 1) + 0 = ReplyAt(md, g + 1) + c + 1 /\ g + 1 <= a
    BY <1>2, <1>3, <1>6 DEF ReplyAt, RepLen
  <2> QED
    BY <1>1, <1>3, <2>1 DEF Connected
<1>7. g < Len(s)
  BY <1>2, <1>3
<1> QED
  BY <1>3, <1>5, <1>6, <1>7

\* Once every reply is read nothing is under way, and the server is where it
\* was before the iteration.
LEMMA ConnectedAligned ==
    ASSUME NEW md \in AllModes, NEW s \in Seq(Nat),
           NEW sv, NEW sr, NEW q, NEW r, NEW lk,
           Connected(md, s, Len(s), 0, sv, sr, q, r, lk)
    PROVE  /\ sv = "read" => q = <<>> /\ r = <<>> /\ sr = NewReader
           /\ s # <<>> => Connected(md, <<>>, 0, 0, sv, sr, q, r, lk)
<1> DEFINE l == Len(s)
<1>1. PICK a \in 0..l, k \in 0..10 :
         /\ l <= a
         /\ Serving(md, s, a, k, sv, sr, q, lk)
         /\ ToClient(md, s, a, ReplyAt(md, l + 1) + 0, r, lk)
  BY DEF Connected
<1>2. a = l /\ l \in Nat
  BY <1>1
<1>3. r \in Seq(Tokens) /\ Len(r) = 0
  <2>1. ReplyAt(md, l + 1) + 0 + Len(r) <= RepliesAt(md, l)[l + 1] /\ r \in Seq(Tokens) /\ Len(r) \in Nat
    BY <1>1, <1>2 DEF ToClient, Window
  <2>2. RepliesAt(md, l)[l + 1] = ReplyAt(md, l + 1) /\ ReplyAt(md, l + 1) \in Nat
    BY <1>2 DEF RepliesAt, ReplyAt
  <2> QED
    BY <2>1, <2>2
<1>4. r = <<>>
  BY <1>3, EmptySeq
<1>5. ASSUME sv = "read" PROVE q = <<>> /\ sr = NewReader
  <2>1. k = 0 /\ sr = NewReader
    BY <1>1, <1>2, <1>5 DEF Serving
  <2>2. ToServer(md, s, RequestAt(md, l + 2) + 0, q, lk)
    BY <1>1, <1>2, <1>5, <2>1 DEF Serving
  <2>3. RequestAt(md, l + 2) + 0 + Len(q) <= RequestsAt(md, s)[l + 1 + 1] /\ q \in Seq(Tokens) /\ Len(q) \in Nat
    BY <2>2 DEF ToServer, Window
  <2>4. RequestsAt(md, s)[l + 1 + 1] = RequestAt(md, l + 2) /\ RequestAt(md, l + 2) \in Nat
    BY <1>2 DEF RequestsAt, RequestAt
  <2>5. Len(q) = 0
    BY <2>3, <2>4
  <2> QED
    BY <2>1, <2>3, <2>5, EmptySeq
<1>6. ASSUME s # <<>> PROVE Connected(md, <<>>, 0, 0, sv, sr, q, r, lk)
  <2>1. <<>> \in Seq(Nat) /\ Len(<<>>) = 0 /\ l > 0 /\ 0 \in 0..Len(<<>>) /\ 0 \in 0..10
    BY <1>2, <1>6, EmptySeq
  <2>2. sv = "read" \/ (sv = "done" /\ lk # "up")
    BY <1>1, <1>2, <2>1 DEF Serving
  <2>3. <<>> \in Seq(Tokens)
    OBVIOUS
  <2>4. RepliesAt(md, 0)[0 + 1] = 0 /\ ReplyAt(md, 0 + 1) + 0 = 0
    BY DEF RepliesAt, ReplyAt
  <2>5. ToClient(md, <<>>, 0, ReplyAt(md, 0 + 1) + 0, r, lk)
    BY <1>4, <2>1, <2>3, <2>4 DEF ToClient, Window
  <2>6. CASE sv = "read"
    <3>1. q = <<>> /\ sr = NewReader
      BY <1>5, <2>6
    <3>2. RequestsAt(md, <<>>)[Len(<<>>) + 1 + 1] = 2 /\ RequestAt(md, 0 + 2) + 0 = 2 /\ 0 < ReqLen(md, 0 + 1)
      BY <2>1 DEF RequestsAt, RequestAt, ReqLen
    <3>3. ToServer(md, <<>>, RequestAt(md, 0 + 2) + 0, q, lk)
      <4>1. Len(q) = 0 /\ q \in Seq(Tokens)
        BY <2>1, <2>3, <3>1
      <4>2. 2 + Len(q) = 2
        BY <4>1
      <4>3. \A i, j \in Nat : ~(2 < i + j /\ i + j <= 2 + Len(q))
        BY <4>1
      <4>4. ASSUME NEW i \in 1..(Len(<<>>) + 1), NEW j \in 1..Len(Requests(md, <<>>)[i])
            PROVE  ~(2 < RequestsAt(md, <<>>)[i] + j /\ RequestsAt(md, <<>>)[i] + j <= 2 + Len(q))
        <5>1. RequestsAt(md, <<>>)[i] \in Nat /\ Len(Requests(md, <<>>)[i]) \in Nat
          <6>1. /\ Requests(md, <<>>) \in [1..(Len(<<>>) + 1) -> Seq(Tokens)]
                /\ RequestsAt(md, <<>>) \in [1..(Len(<<>>) + 1 + 1) -> Nat]
            BY <2>1, RequestStream
          <6>2. i \in 1..(Len(<<>>) + 1 + 1)
            BY <2>1
          <6> QED
            BY <6>1, <6>2
        <5> QED
          BY <4>3, <5>1
      <4> QED
        BY <3>2, <4>1, <4>2, <4>4 DEF ToServer, Window
    <3>4. Serving(md, <<>>, 0, 0, "read", sr, q, lk)
      BY <3>1, <3>2, <3>3 DEF Serving
    <3> QED
      BY <2>1, <2>5, <2>6, <3>4 DEF Connected
  <2>7. CASE sv = "done" /\ lk # "up"
    <3>1. Serving(md, <<>>, 0, 0, "done", sr, q, lk)
      BY <2>7 DEF Serving
    <3> QED
      BY <2>1, <2>5, <2>7, <3>1 DEF Connected
  <2> QED
    BY <2>2, <2>6, <2>7
<1> QED
  BY <1>4, <1>5, <1>6

-----------------------------------------------------------------------------
(* The inductive invariant *)

Types ==
    /\ mode \in Modes
    /\ link \in {"up", "broken", "closed"}
    /\ client \in {"dial", "run", "done", "failed"}
    /\ server \in {"hello", "readHello", "read", "dispatch", "done"}
    /\ it \in [Workers -> {"idle", "load", "store", "send", "read", "ok", "err"}]
    /\ DOMAIN rd = Workers
    /\ tmp \in [Workers -> Nat]
    /\ sent \in [Workers -> Seq(Nat)]
    /\ got \in [Workers -> Seq(Nat)]
    /\ msgCounter \in Nat \ {0}

NoErr == \A w \in Workers : it[w] # "err"

\* How many RPCs iteration w has written, and that the replies it has read are
\* the replies to these, in order.
Progress(w) ==
    /\ Len(sent[w]) <= Count
    /\ Len(got[w]) <= Len(sent[w])
    /\ \A i \in 1..Len(got[w]) : got[w][i] = sent[w][i]
    /\ it[w] = "idle" => sent[w] = <<>> /\ got[w] = <<>>
    /\ it[w] \in {"load", "store", "send"} =>
          Len(sent[w]) < Count /\ Len(got[w]) = IF mode = "batch-rpc" THEN 0 ELSE Len(sent[w])
    /\ it[w] = "read" =>
          /\ Len(got[w]) < Len(sent[w])
          /\ Len(sent[w]) = IF mode = "batch-rpc" THEN Count ELSE Len(got[w]) + 1
    /\ it[w] = "ok" => Len(got[w]) = Count /\ Len(sent[w]) = Count

Progressing == \A w \in Workers : Progress(w)

\* Iteration o is the latest to have started, 0 before the first.
Started(o) ==
    /\ \A w \in Workers : w < o => it[w] \in {"ok", "err"}
    /\ \A w \in Workers : w > o => it[w] = "idle"
    /\ o \in Workers => it[o] # "idle"

\* One message id for every RPC written, and for the one about to be.
Counted(o) ==
    /\ msgCounter <= 1 + (IF o = 0 THEN 0
                          ELSE (o - 1) * Count + Len(sent[o])
                               + (IF it[o] \in {"send", "err"} /\ Len(sent[o]) < Count THEN 1 ELSE 0))
    /\ o # 0 /\ it[o] = "store" => tmp[o] = msgCounter

\* The iteration that uses the session.
Written(o) == IF o = 0 THEN <<>> ELSE sent[o]
Answers(o) == IF o = 0 THEN 0 ELSE Len(got[o])
Linked(o) ==
    \E c \in 0..13 :
        /\ c < RepLen(mode)
        /\ Connected(mode, Written(o), Answers(o), c, server, srd, c2s, s2c, link)
        /\ IF o # 0 /\ it[o] = "read" THEN rd[o] = Inside(Reply(mode, Written(o), Answers(o) + 1), c) ELSE c = 0

Placed == \E o \in 0..Iterations : Started(o) /\ Counted(o) /\ (client = "run" /\ NoErr => Linked(o))

\* After a failure the channel is gone for good and every write fails.
Failing == client = "run" /\ ~NoErr => link = "broken" /\ \A w \in Workers : it[w] # "read"

\* The server never closes the session before the client.
Kept == client = "run" => link # "closed"

Quiet == client # "run" => \A w \in Workers : it[w] \in {"idle", "ok", "err"}

\* Before the exchange of hellos is complete.
Dialling ==
    client = "dial" =>
        /\ \A w \in Workers : it[w] = "idle"
        /\ c2s = <<>>
        /\ srd = NewReader
        /\ server \in {"hello", "readHello", "done"}
        /\ server = "done" => link # "up"
        /\ server = "hello" => s2c = <<>>
        /\ server = "readHello" /\ link = "up" => s2c \in {Hello, Tail(Hello), <<>>}

IInv ==
    /\ Types
    /\ Progressing
    /\ Placed
    /\ Failing
    /\ Kept
    /\ Quiet
    /\ Dialling

\* Types of what the steps are about.
LEMMA Basics ==
    ASSUME Types
    PROVE  /\ mode \in AllModes /\ Count \in Nat \ {0} /\ \A k \in Nat : Op(k) = OpOf(mode, k)
           /\ Iterations \in Nat
           /\ \A w \in Workers : /\ w \in Nat /\ w # 0
                                 /\ sent[w] \in Seq(Nat) /\ Len(sent[w]) \in Nat
                                 /\ got[w] \in Seq(Nat) /\ Len(got[w]) \in Nat
BY SizesAssumption, ModesAssumption DEF Types, AllModes, Count, Op, OpOf, Workers

\* The iteration that is under way is the latest.
LEMMA Alone ==
    ASSUME Types, NEW o \in 0..Iterations, Started(o), NEW w \in Workers,
           it[w] \in {"load", "store", "send", "read"}
    PROVE  o = w
<1>1. w \in Nat /\ o \in Nat
  BY Basics
<1> QED
  BY <1>1 DEF Started

\* Types of what the iteration under way has written and read.
LEMMA LinkedTypes ==
    ASSUME Types, NEW o \in 0..Iterations
    PROVE  Written(o) \in Seq(Nat) /\ Answers(o) \in Nat
<1>1. o # 0 => o \in Workers
  BY Basics DEF Workers
<1>2. <<>> \in Seq(Nat)
  OBVIOUS
<1>3. o # 0 => sent[o] \in Seq(Nat) /\ Len(got[o]) \in Nat
  BY <1>1, Basics
<1> QED
  BY <1>2, <1>3 DEF Written, Answers

\* A step of the server or of the network keeps the iterations as they are.
LEMMA LinkedStep ==
    ASSUME UNCHANGED iteration, mode' = mode, NEW o \in 0..Iterations, Linked(o),
           \A c \in Nat :
              Connected(mode, Written(o), Answers(o), c, server, srd, c2s, s2c, link)
                 => Connected(mode, Written(o), Answers(o), c, server', srd', c2s', s2c', link')
    PROVE  Linked(o)'
<1>1. Written(o)' = Written(o) /\ Answers(o)' = Answers(o)
  BY DEF iteration, Written, Answers
<1>2. PICK c \in 0..13 :
        /\ c < RepLen(mode)
        /\ Connected(mode, Written(o), Answers(o), c, server, srd, c2s, s2c, link)
        /\ IF o # 0 /\ it[o] = "read" THEN rd[o] = Inside(Reply(mode, Written(o), Answers(o) + 1), c) ELSE c = 0
  BY DEF Linked
<1>3. Connected(mode, Written(o), Answers(o), c, server', srd', c2s', s2c', link')
  BY <1>2
<1>4. it' = it /\ rd' = rd
  BY DEF iteration
<1> QED
  BY <1>1, <1>2, <1>3, <1>4 DEF Linked

\* A step of the session that changes no iteration keeps what the invariant says of them.
LEMMA SameIterations ==
    ASSUME IInv, UNCHANGED iteration, mode' = mode
    PROVE  /\ Progressing'
           /\ NoErr' = NoErr
           /\ \A o \in 0..Iterations : Started(o)' = Started(o) /\ Counted(o)' = Counted(o)
<1>1. Count' = Count
  BY DEF Count
<1>2. it' = it /\ sent' = sent /\ got' = got /\ tmp' = tmp /\ msgCounter' = msgCounter
  BY DEF iteration
<1>3. ASSUME NEW w \in Workers PROVE Progress(w)'
  BY <1>1, <1>2 DEF IInv, Progressing, Progress
<1>4. \A o \in 0..Iterations : Started(o)' = Started(o)
  BY <1>2 DEF Started
<1>5. \A o \in 0..Iterations : Counted(o)' = Counted(o)
  BY <1>1, <1>2 DEF Counted
<1>6. NoErr' = NoErr
  BY <1>2 DEF NoErr
<1> QED
  BY <1>3, <1>4, <1>5, <1>6 DEF Progressing

\* ... so it is enough to look at the session.
LEMMA SessionStep ==
    ASSUME IInv, UNCHANGED iteration, mode' = mode, Types', Kept', Quiet', Dialling',
           client' = "run" /\ ~NoErr => link' = "broken" /\ client = "run",
           \A o \in 0..Iterations : client' = "run" /\ NoErr /\ Started(o) /\ (client = "run" => Linked(o)) => Linked(o)'
    PROVE  IInv'
<1>1. /\ Progressing' /\ NoErr' = NoErr
      /\ \A o \in 0..Iterations : Started(o)' = Started(o) /\ Counted(o)' = Counted(o)
  BY SameIterations
<1>2. PICK o \in 0..Iterations : Started(o) /\ Counted(o) /\ (client = "run" /\ NoErr => Linked(o))
  BY DEF IInv, Placed
<1>3. client' = "run" /\ NoErr' => Linked(o)'
  BY <1>1, <1>2
<1>4. Placed'
  <2>1. Started(o)' /\ Counted(o)'
    BY <1>1, <1>2
  <2> QED
    BY <1>3, <2>1 DEF Placed
<1>5. it' = it
  BY DEF iteration
<1>6. Failing'
  BY <1>1, <1>5 DEF IInv, Failing
<1> QED
  BY <1>1, <1>4, <1>6 DEF IInv

\* netconfHello.
LEMMA ClientHelloStep ==
    ASSUME IInv, ClientHello
    PROVE  IInv'
<1>1. /\ client = "dial" /\ UNCHANGED iteration /\ mode' = mode /\ link' = link /\ server' = server /\ srd' = srd
      /\ it' = it /\ \A w \in Workers : it[w] = "idle"
  BY DEF ClientHello, iteration, IInv, Dialling
<1>2. /\ c2s = <<>> /\ srd = NewReader /\ server \in {"hello", "readHello", "done"}
      /\ server = "done" => link # "up"
      /\ server = "hello" => s2c = <<>>
      /\ server = "readHello" /\ link = "up" => s2c \in {Hello, Tail(Hello), <<>>}
  BY <1>1 DEF IInv, Dialling
<1>3. NoErr
  BY <1>1 DEF NoErr
<1>4. client' \in {"dial", "run", "failed"}
  BY <1>1 DEF ClientHello
<1>5. Types'
  <2>1. tmp' = tmp /\ sent' = sent /\ got' = got /\ msgCounter' = msgCounter /\ rd' = rd
    BY <1>1 DEF iteration
  <2> QED
    BY <1>1, <1>4, <2>1 DEF IInv, Types
<1>6. Quiet'
  BY <1>1 DEF Quiet
<1>7. Hello \in Seq(Tokens) /\ Len(Hello) = 2 /\ Head(Hello)[1] # "eom"
      /\ Tail(Hello) = <<<<"eom", 0>>>> /\ Head(Tail(Hello))[1] = "eom" /\ Tail(Tail(Hello)) = <<>>
  <2>1. Hello \in Seq(Tokens) /\ Len(Hello) = 2
    <3>1. <<>> \in Seq(Nat) /\ mode \in AllModes
      BY Basics DEF IInv
    <3> QED
      BY <3>1, RequestStream
  <2>2. Tail(Hello) = <<<<"eom", 0>>>>
    BY DEF Hello
  <2>3. Head(Hello)[1] # "eom"
    BY DEF Hello
  <2>4. Head(<<<<"eom", 0>>>>) = <<"eom", 0>>
    OBVIOUS
  <2>5. Head(Tail(Hello))[1] = "eom"
    <3>1. Head(Tail(Hello)) = <<"eom", 0>>
      BY <2>2, <2>4, Zenon
    <3>2. <<"eom", 0>>[1] = "eom"
      OBVIOUS
    <3> QED
      BY <3>1, <3>2, Zenon
  <2>6. Tail(<<<<"eom", 0>>>>) = <<>>
    OBVIOUS
  <2>7. Tail(Tail(Hello)) = <<>>
    BY <2>2, <2>6, Zenon
  <2> QED
    BY <2>1, <2>2, <2>3, <2>5, <2>7
<1>8. CASE client' = "dial"
  <2>1. s2c # <<>> /\ s2c' = Tail(s2c) /\ Head(s2c)[1] # "eom" /\ c2s' = c2s
    BY <1>1, <1>8 DEF ClientHello
  <2>2. server = "readHello" /\ link = "up" => s2c' \in {Hello, Tail(Hello), <<>>}
    BY <1>2, <1>7, <2>1
  <2>3. Dialling'
    BY <1>1, <1>2, <2>1, <2>2 DEF Dialling
  <2>4. Kept'
    BY <1>8 DEF Kept
  <2> QED
    BY <1>1, <1>3, <1>5, <1>6, <1>8, <2>3, <2>4, SessionStep
<1>9. CASE client' = "failed"
  <2>1. Dialling' /\ Kept'
    BY <1>9 DEF Dialling, Kept
  <2> QED
    BY <1>1, <1>3, <1>5, <1>6, <1>9, <2>1, SessionStep
<1>10. CASE client' = "run"
  <2>1. s2c # <<>> /\ s2c' = Tail(s2c) /\ Head(s2c)[1] = "eom" /\ link = "up" /\ c2s' = c2s \o Hello
    BY <1>1, <1>10 DEF ClientHello
  <2>2. server = "readHello" /\ s2c' = <<>>
    BY <1>2, <1>7, <2>1
  <2>3. c2s' = Hello
    BY <1>2, <1>7, <2>1, ConcatEmptySeq
  <2>4. Dialling' /\ Kept'
    BY <1>1, <1>10, <2>1 DEF Dialling, Kept
  <2>5. mode \in AllModes
    BY Basics DEF IInv
  <2>6. Connected(mode, <<>>, 0, 0, "readHello", NewReader, Hello, <<>>, "up")
    <3>1. /\ <<>> \in Seq(Nat) /\ Len(<<>>) = 0 /\ 0 \in 0..Len(<<>>) /\ 0 \in 0..10 /\ <<>> \in Seq(Tokens)
      OBVIOUS
    <3>2. RepliesAt(mode, 0)[0 + 1] = 0 /\ ReplyAt(mode, 0 + 1) + 0 = 0
      BY DEF RepliesAt, ReplyAt
    <3>3. ToClient(mode, <<>>, 0, ReplyAt(mode, 0 + 1) + 0, <<>>, "up")
      BY <3>1, <3>2 DEF ToClient, Window
    <3>4. /\ RequestsAt(mode, <<>>)[Len(<<>>) + 1 + 1] = 2
          /\ RequestsAt(mode, <<>>)[1] = 0 /\ Requests(mode, <<>>)[1] = Hello
      BY <3>1 DEF RequestsAt, RequestAt, Requests
    <3>5. ASSUME NEW i \in 1..(Len(<<>>) + 1), NEW j \in 1..Len(Requests(mode, <<>>)[i])
          PROVE  Hello[RequestsAt(mode, <<>>)[i] + j - 0] = Requests(mode, <<>>)[i][j]
      <4>1. i = 1
        BY <3>1
      <4>2. j \in Nat /\ 0 + j - 0 = j
        BY <1>7, <3>4, <4>1
      <4> QED
        BY <3>4, <4>1, <4>2
    <3>6. 0 + Len(Hello) = 2
      BY <1>7
    <3>7. ToServer(mode, <<>>, 0, Hello, "up")
      BY <1>7, <3>4, <3>5, <3>6 DEF ToServer, Window
    <3>8. Serving(mode, <<>>, 0, 0, "readHello", NewReader, Hello, "up")
      BY <3>7 DEF Serving
    <3> QED
      BY <3>1, <3>3, <3>8 DEF Connected
  <2>7. ASSUME NEW o \in 0..Iterations, Started(o)
        PROVE  Linked(o)'
    <3>1. o = 0
      BY <1>1, <2>7, Basics DEF Started, Workers, IInv
    <3>2. Written(o)' = <<>> /\ Answers(o)' = 0
      BY <3>1 DEF Written, Answers
    <3>3. Connected(mode', Written(o)', Answers(o)', 0, server', srd', c2s', s2c', link')
      BY <1>1, <1>2, <2>1, <2>2, <2>3, <2>6, <3>2
    <3>4. 0 \in 0..13 /\ 0 < RepLen(mode)'
      BY DEF RepLen
    <3> QED
      BY <3>1, <3>3, <3>4 DEF Linked
  <2> QED
    BY <1>1, <1>3, <1>5, <1>6, <2>4, <2>7, SessionStep
<1> QED
  BY <1>4, <1>8, <1>9, <1>10

\* The deferred clean-up of the mode.
LEMMA CleanupStep ==
    ASSUME IInv, Cleanup
    PROVE  IInv'
<1>1. /\ client' = "done" /\ link' = "closed" /\ UNCHANGED iteration /\ mode' = mode /\ server' = server
      /\ Over = Workers
  BY DEF Cleanup
<1>2. tmp' = tmp /\ sent' = sent /\ got' = got /\ msgCounter' = msgCounter /\ rd' = rd /\ it' = it
  BY <1>1 DEF iteration
<1>3. Types'
  BY <1>1, <1>2 DEF IInv, Types
<1>4. Quiet'
  BY <1>1, <1>2 DEF Quiet, Over
<1>5. Dialling' /\ Kept'
  BY <1>1 DEF Dialling, Kept
<1> QED
  BY <1>1, <1>3, <1>4, <1>5, SessionStep

\* runSession sends its hello.
LEMMA ServerHelloStep ==
    ASSUME IInv, ServerHello
    PROVE  IInv'
<1>1. server = "hello" /\ UNCHANGED iteration /\ mode' = mode /\ c2s' = c2s /\ client' = client /\ srd' = srd
  BY DEF ServerHello
<1>2. /\ link = "up" => server' = "readHello" /\ s2c' = s2c \o Hello /\ link' = link
      /\ link # "up" => server' = "done" /\ link' = link /\ s2c' = s2c
  BY DEF ServerHello, serverReturns
<1>3. tmp' = tmp /\ sent' = sent /\ got' = got /\ msgCounter' = msgCounter /\ rd' = rd /\ it' = it /\ link' = link
  BY <1>1, <1>2 DEF iteration
<1>4. Types'
  BY <1>1, <1>2, <1>3 DEF IInv, Types
<1>5. Quiet' /\ Kept'
  BY <1>1, <1>3 DEF IInv, Quiet, Kept
<1>6. Dialling'
  <2> SUFFICES ASSUME client = "dial" PROVE Dialling'
    BY <1>1 DEF Dialling
  <2>1. s2c = <<>>
    BY <1>1 DEF IInv, Dialling
  <2>2. <<>> \o Hello = Hello
    BY DEF Hello
  <2> QED
    BY <1>1, <1>2, <1>3, <2>1, <2>2 DEF IInv, Dialling
<1>7. client = "run" /\ ~NoErr => link' = "broken"
  BY <1>3 DEF IInv, Failing
<1>8. ASSUME NEW o \in 0..Iterations, Linked(o) PROVE FALSE
  BY <1>1, <1>8 DEF Linked, Connected, Serving
<1> QED
  BY <1>1, <1>4, <1>5, <1>6, <1>7, <1>8, SessionStep

\* The effect of the steps of the server: it never gives up a session of its own
\* accord, so the link changes only when a client has already left.
LEMMA ServerStep ==
    ASSUME IInv, UNCHANGED iteration, mode' = mode, client' = client,
           server \in {"readHello", "read", "dispatch"},
           server' \in {"readHello", "read", "dispatch", "done"},
           link' \in {"up", "broken", "closed"},
           link # "up" => link' = link,
           client = "dial" => c2s' = c2s /\ srd' = srd /\ s2c' = s2c /\ link' = link
                              /\ (server' = "readHello" \/ (server' = "done" /\ link # "up")),
           \A o \in 0..Iterations : \A c \in Nat :
              Connected(mode, Written(o), Answers(o), c, server, srd, c2s, s2c, link)
                 => /\ link' = link
                    /\ Connected(mode, Written(o), Answers(o), c, server', srd', c2s', s2c', link')
    PROVE  IInv'
<1>1. tmp' = tmp /\ sent' = sent /\ got' = got /\ msgCounter' = msgCounter /\ rd' = rd /\ it' = it
  BY DEF iteration
<1>2. Types'
  BY <1>1 DEF IInv, Types
<1>3. Quiet'
  BY <1>1 DEF IInv, Quiet
<1>4. Dialling'
  BY <1>1 DEF IInv, Dialling
<1>5. client = "run" /\ ~NoErr => link' = "broken"
  BY DEF IInv, Failing
<1>6. ASSUME NEW o \in 0..Iterations, Linked(o)
      PROVE  Linked(o)' /\ link' = link
  <2>1. Linked(o)'
    BY <1>6, LinkedStep
  <2>2. PICK c \in 0..13 : Connected(mode, Written(o), Answers(o), c, server, srd, c2s, s2c, link)
    BY <1>6 DEF Linked
  <2>3. link' = link
    BY <2>2
  <2> QED
    BY <2>1, <2>3
<1>7. Kept'
  <2> SUFFICES ASSUME client = "run" PROVE link' # "closed"
    BY DEF Kept
  <2>1. CASE NoErr
    BY <1>6, <2>1 DEF IInv, Kept, Placed
  <2>2. CASE ~NoErr
    BY <1>5, <2>2
  <2> QED
    BY <2>1, <2>2
<1> QED
  BY <1>2, <1>3, <1>4, <1>5, <1>6, <1>7, SessionStep

\* The server reads a token of the hello.
LEMMA ReadHelloStep ==
    ASSUME IInv, ReadHello
    PROVE  IInv'
<1>1. server = "readHello" /\ UNCHANGED iteration /\ mode' = mode /\ client' = client /\ s2c' = s2c /\ srd' = srd
  BY DEF ReadHello
<1>2. mode \in AllModes
  BY Basics DEF IInv
<1>3. CASE c2s # <<>> /\ c2s' = Tail(c2s) /\ link' = link
           /\ server' = IF Head(c2s)[1] = "eom" THEN "read" ELSE "readHello"
  <2>1. ASSUME NEW o \in 0..Iterations, NEW c \in Nat,
               Connected(mode, Written(o), Answers(o), c, server, srd, c2s, s2c, link)
        PROVE  Connected(mode, Written(o), Answers(o), c, server', srd', c2s', s2c', link')
    <3>1. Written(o) \in Seq(Nat) /\ Answers(o) \in Nat
      BY LinkedTypes DEF IInv
    <3> QED
      BY <1>1, <1>2, <1>3, <2>1, <3>1, ConnectedHello
  <2>2. client # "dial"
    BY <1>3 DEF IInv, Dialling
  <2>3. server' \in {"readHello", "read"} /\ link' \in {"up", "broken", "closed"}
    BY <1>3 DEF IInv, Types
  <2> QED
    BY <1>1, <1>3, <2>1, <2>2, <2>3, ServerStep
<1>4. CASE c2s = <<>> /\ c2s' = c2s /\ link # "up" /\ link' = link /\ server' = "done"
  <2>1. ASSUME NEW o \in 0..Iterations, NEW c \in Nat,
               Connected(mode, Written(o), Answers(o), c, server, srd, c2s, s2c, link)
        PROVE  Connected(mode, Written(o), Answers(o), c, server', srd', c2s', s2c', link')
    <3>1. Written(o) \in Seq(Nat) /\ Answers(o) \in Nat
      BY LinkedTypes DEF IInv
    <3> QED
      BY <1>1, <1>2, <1>4, <2>1, <3>1, ConnectedDone
  <2>2. link' \in {"up", "broken", "closed"}
    BY <1>4 DEF IInv, Types
  <2> QED
    BY <1>1, <1>4, <2>1, <2>2, ServerStep
<1> QED
  BY <1>1, <1>3, <1>4 DEF ReadHello, serverReturns

\* The branches of a read of the server.
LEMMA ServerReadCases ==
    ASSUME ServerRead
    PROVE  \/ /\ c2s # <<>> /\ c2s' = Tail(c2s) /\ srd' = feed(srd, Head(c2s))
              /\ srd'.at = "end" => server' = "dispatch" /\ link' = link
              /\ srd'.at \notin {"end", "err"} => server' = server /\ link' = link
              /\ srd'.at = "err" => serverReturns
           \/ c2s = <<>> /\ link # "up" /\ serverReturns /\ c2s' = c2s /\ srd' = srd
<1>1. CASE c2s = <<>>
  BY <1>1, Zenon DEF ServerRead
<1>2. CASE c2s # <<>>
  <2>1. CASE srd'.at = "end"
    BY <1>2, <2>1, Zenon DEF ServerRead
  <2>2. CASE srd'.at = "err"
    BY <1>2, <2>2, Zenon DEF ServerRead
  <2>3. CASE srd'.at # "end" /\ srd'.at # "err"
    BY <1>2, <2>3, Zenon DEF ServerRead
  <2> QED
    BY <2>1, <2>2, <2>3, Zenon
<1> QED
  BY <1>1, <1>2, Zenon

\* The server's readChunked consumes a token.
LEMMA ServerReadStep ==
    ASSUME IInv, ServerRead
    PROVE  IInv'
<1>1. server = "read" /\ UNCHANGED iteration /\ mode' = mode /\ client' = client /\ s2c' = s2c
  BY Zenon DEF ServerRead
<1>2. mode \in AllModes
  BY Basics DEF IInv
<1>3. client # "dial"
  BY <1>1 DEF IInv, Dialling
<1>4. CASE /\ c2s # <<>> /\ c2s' = Tail(c2s) /\ srd' = feed(srd, Head(c2s))
           /\ srd'.at = "end" => server' = "dispatch" /\ link' = link
           /\ srd'.at \notin {"end", "err"} => server' = server /\ link' = link
           /\ srd'.at = "err" => serverReturns
  <2>1. ASSUME NEW o \in 0..Iterations, NEW c \in Nat,
               Connected(mode, Written(o), Answers(o), c, server, srd, c2s, s2c, link)
        PROVE  /\ link' = link
               /\ Connected(mode, Written(o), Answers(o), c, server', srd', c2s', s2c', link')
    <3>1. Written(o) \in Seq(Nat) /\ Answers(o) \in Nat
      BY LinkedTypes DEF IInv
    <3>2. /\ srd'.at # "err"
          /\ Connected(mode, Written(o), Answers(o), c, IF srd'.at = "end" THEN "dispatch" ELSE "read",
                       srd', c2s', s2c, link)
      BY <1>1, <1>2, <1>4, <2>1, <3>1, ConnectedServerRead
    <3> QED
      BY <1>1, <1>4, <3>2
  <2>2. /\ server' \in {"read", "dispatch", "done"} /\ link' \in {"up", "broken", "closed"}
        /\ link # "up" => link' = link
    BY <1>1, <1>4 DEF IInv, Types, serverReturns
  <2> QED
    BY <1>1, <1>3, <2>1, <2>2, ServerStep
<1>5. CASE c2s = <<>> /\ link # "up" /\ serverReturns /\ c2s' = c2s /\ srd' = srd
  <2>1. server' = "done" /\ link' = link
    BY <1>5 DEF serverReturns
  <2>2. ASSUME NEW o \in 0..Iterations, NEW c \in Nat,
               Connected(mode, Written(o), Answers(o), c, server, srd, c2s, s2c, link)
        PROVE  Connected(mode, Written(o), Answers(o), c, server', srd', c2s', s2c', link')
    <3>1. Written(o) \in Seq(Nat) /\ Answers(o) \in Nat
      BY LinkedTypes DEF IInv
    <3> QED
      BY <1>1, <1>2, <1>5, <2>1, <2>2, <3>1, ConnectedDone
  <2>3. link' \in {"up", "broken", "closed"}
    BY <2>1 DEF IInv, Types
  <2> QED
    BY <1>1, <1>3, <1>5, <2>1, <2>2, <2>3, ServerStep
<1> QED
  BY <1>4, <1>5, ServerReadCases

\* dispatch answers a request.
LEMMA DispatchStep ==
    ASSUME IInv, Dispatch
    PROVE  IInv'
<1> DEFINE id == MessageID(srd.msg)
           op == srd.msg[2][2]
<1>1. server = "dispatch" /\ UNCHANGED iteration /\ mode' = mode /\ client' = client /\ c2s' = c2s /\ srd' = NewReader
  BY DEF Dispatch
<1>2. mode \in AllModes
  BY Basics DEF IInv
<1>3. client # "dial"
  BY <1>1 DEF IInv, Dialling
<1>4. /\ s2c' = IF link = "up" THEN s2c \o writeChunked(reply(id, op)) ELSE s2c
      /\ IF link # "up" \/ op = "close-session" THEN serverReturns ELSE server' = "read" /\ link' = link
  BY DEF Dispatch
<1>5. ASSUME NEW o \in 0..Iterations, NEW c \in Nat,
             Connected(mode, Written(o), Answers(o), c, server, srd, c2s, s2c, link)
      PROVE  /\ link' = link
             /\ Connected(mode, Written(o), Answers(o), c, server', srd', c2s', s2c', link')
  <2>1. Written(o) \in Seq(Nat) /\ Answers(o) \in Nat
    BY LinkedTypes DEF IInv
  <2>2. /\ op # "close-session"
        /\ link = "up" => Connected(mode, Written(o), Answers(o), c, "read", NewReader, c2s,
                                    s2c \o writeChunked(reply(id, op)), link)
    BY <1>1, <1>2, <1>5, <2>1, ConnectedDispatch
  <2>3. CASE link = "up"
    BY <1>1, <1>4, <2>2, <2>3
  <2>4. CASE link # "up"
    <3>1. server' = "done" /\ link' = link /\ s2c' = s2c
      BY <1>4, <2>4 DEF serverReturns
    <3> QED
      BY <1>1, <1>2, <1>5, <2>1, <2>4, <3>1, ConnectedDone
  <2> QED
    BY <2>3, <2>4
<1>6. /\ server' \in {"read", "done"} /\ link' \in {"up", "broken", "closed"}
      /\ link # "up" => link' = link
  BY <1>4 DEF IInv, Types, serverReturns
<1> QED
  BY <1>1, <1>3, <1>5, <1>6, ServerStep

\* The connection breaks.
LEMMA BreakStep ==
    ASSUME IInv, Break
    PROVE  IInv'
<1>1. /\ link = "up" /\ link' = "broken" /\ UNCHANGED iteration /\ mode' = mode /\ client' = client
      /\ server' = server /\ srd' = srd
  BY DEF Break
<1>2. PICK m \in 0..Len(c2s), n \in 0..Len(s2c) : c2s' = SubSeq(c2s, 1, m) /\ s2c' = SubSeq(s2c, 1, n)
  BY DEF Break
<1>3. tmp' = tmp /\ sent' = sent /\ got' = got /\ msgCounter' = msgCounter /\ rd' = rd /\ it' = it
  BY <1>1 DEF iteration
<1>4. Types'
  BY <1>1, <1>3 DEF IInv, Types
<1>5. Quiet' /\ Kept'
  BY <1>1, <1>3 DEF IInv, Quiet, Kept
<1>6. Dialling'
  <2> SUFFICES ASSUME client = "dial" PROVE Dialling'
    BY <1>1 DEF Dialling
  <2>1. c2s = <<>> /\ (server = "hello" => s2c = <<>>)
    BY DEF IInv, Dialling
  <2>2. c2s' = <<>>
    BY <1>2, <2>1
  <2>3. server = "hello" => s2c' = <<>>
    BY <1>2, <2>1
  <2> QED
    BY <1>1, <1>3, <2>2, <2>3 DEF IInv, Dialling
<1>7. ASSUME NEW o \in 0..Iterations, Linked(o) PROVE Linked(o)'
  <2>1. Written(o) \in Seq(Nat) /\ Answers(o) \in Nat /\ mode \in AllModes
    BY LinkedTypes, Basics DEF IInv
  <2>2. \A c \in Nat : Connected(mode, Written(o), Answers(o), c, server, srd, c2s, s2c, link)
                          => Connected(mode, Written(o), Answers(o), c, server', srd', c2s', s2c', link')
    BY <1>1, <1>2, <2>1, ConnectedBreak
  <2> QED
    BY <1>1, <1>7, <2>2, LinkedStep
<1> QED
  BY <1>1, <1>4, <1>5, <1>6, <1>7, SessionStep

\* A step of iteration w, the one that is under way, that leaves the session
\* alone or uses it as Linked allows.
LEMMA IterationStep ==
    ASSUME IInv, NEW w \in Workers, Types', mode' = mode, client' = client, link' = link,
           client = "run", w \in Workers,
           \A v \in Workers \ {w} : it'[v] = it[v] /\ sent'[v] = sent[v] /\ got'[v] = got[v],
           Progress(w)', Started(w)', Counted(w)',
           ~NoErr' => link = "broken" /\ \A v \in Workers : it'[v] # "read",
           NoErr' => Linked(w)'
    PROVE  IInv'
<1>1. Count' = Count
  BY DEF Count
<1>2. Progressing'
  <2>1. ASSUME NEW v \in Workers \ {w} PROVE Progress(v)'
    BY <1>1, <2>1 DEF IInv, Progressing, Progress
  <2> QED
    BY <2>1 DEF Progressing
<1>3. w \in 0..Iterations
  BY Basics DEF Workers, IInv
<1>4. Placed'
  BY <1>3 DEF Placed
<1>5. Failing'
  BY DEF Failing
<1>6. Kept' /\ Quiet' /\ Dialling'
  BY DEF IInv, Kept, Quiet, Dialling
<1> QED
  BY <1>2, <1>4, <1>5, <1>6 DEF IInv

\* RunParallel starts an iteration.
LEMMA StartStep ==
    ASSUME IInv, Concurrency = 1, NEW w \in Workers, Start(w)
    PROVE  IInv'
<1>1. /\ client = "run" /\ it[w] = "idle" /\ (\A v \in Workers : v < w => it[v] # "idle")
      /\ it' = [it EXCEPT ![w] = "load"]
      /\ mode' = mode /\ link' = link /\ c2s' = c2s /\ s2c' = s2c /\ client' = client /\ server' = server
      /\ srd' = srd /\ rd' = rd /\ tmp' = tmp /\ sent' = sent /\ got' = got /\ msgCounter' = msgCounter
  BY DEF Start
<1>2. Types'
  BY <1>1 DEF IInv, Types
<1>3. /\ mode \in AllModes /\ Count \in Nat \ {0} /\ Iterations \in Nat
      /\ \A v \in Workers : /\ v \in Nat /\ v # 0
                            /\ sent[v] \in Seq(Nat) /\ Len(sent[v]) \in Nat
                            /\ got[v] \in Seq(Nat) /\ Len(got[v]) \in Nat
  BY Basics DEF IInv
<1>4. Running = {}
  <2>1. IsFiniteSet(Running)
    <3>1. IsFiniteSet(1..Iterations)
      BY <1>3, FS_Interval
    <3> QED
      BY <3>1, FS_Subset DEF Running, Workers
  <2>2. Cardinality(Running) \in Nat /\ Cardinality(Running) < 1
    BY <2>1, FS_CardinalityType DEF Start
  <2>3. Cardinality(Running) = 0
    BY <2>2
  <2> QED
    BY <2>1, <2>3, FS_EmptySet
<1>5. \A v \in Workers : it[v] \in {"idle", "ok", "err"}
  BY <1>4 DEF Running, IInv, Types
<1>6. PICK o \in 0..Iterations : Started(o) /\ Counted(o) /\ (client = "run" /\ NoErr => Linked(o))
  BY DEF IInv, Placed
<1>7. o = w - 1 /\ o \in Nat
  <2>1. o \in Nat /\ w \in Nat
    BY <1>3
  <2>2. w > o
    <3>1. ~(w < o)
      BY <1>1, <1>6, <2>1 DEF Started
    <3>2. w # o
      BY <1>1, <1>6 DEF Started
    <3> QED
      BY <2>1, <3>1, <3>2
  <2>3. ~(o + 1 < w)
    <3> SUFFICES ASSUME o + 1 < w PROVE FALSE
      OBVIOUS
    <3>1. o + 1 \in Workers
      BY <1>3, <2>1 DEF Workers
    <3>2. it[o + 1] = "idle"
      BY <1>6, <2>1, <3>1 DEF Started
    <3> QED
      BY <1>1, <3>1, <3>2
  <2> QED
    BY <2>1, <2>2, <2>3
<1>8. o # 0 => o \in Workers /\ it[o] \in {"ok", "err"}
  <2>1. o # 0 => o \in Workers
    BY <1>3 DEF Workers
  <2> QED
    BY <1>5, <1>6, <2>1 DEF Started
<1>9. /\ \A v \in Workers \ {w} : it'[v] = it[v]
      /\ it'[w] = "load" /\ sent[w] = <<>> /\ got[w] = <<>> /\ Len(<<>>) = 0
  <2>1. Progress(w)
    BY DEF IInv, Progressing
  <2> QED
    BY <1>1, <2>1 DEF IInv, Types, Progress
<1>10. Count' = Count
  BY <1>1 DEF Count
<1>11. Progress(w)'
  BY <1>1, <1>3, <1>9, <1>10 DEF Progress
<1>12. Started(w)'
  <2>1. ASSUME NEW v \in Workers, v < w PROVE it'[v] \in {"ok", "err"}
    <3>1. v \in Nat /\ v # w /\ (v = o \/ v < o)
      BY <1>3, <1>7, <2>1
    <3>2. it'[v] = it[v]
      BY <1>9, <3>1
    <3>3. CASE v = o
      BY <1>3, <1>8, <3>2, <3>3
    <3>4. CASE v < o
      BY <1>6, <3>2, <3>4 DEF Started
    <3> QED
      BY <3>1, <3>3, <3>4
  <2>2. ASSUME NEW v \in Workers, v > w PROVE it'[v] = "idle"
    <3>1. v \in Nat /\ v # w /\ v > o
      BY <1>3, <1>7, <2>2
    <3> QED
      BY <1>6, <1>9, <3>1 DEF Started
  <2> QED
    BY <1>9, <2>1, <2>2 DEF Started
<1>13. Counted(w)'
  <2>1. msgCounter <= 1 + (w - 1) * Count
    <3>1. CASE o = 0
      <4>1. msgCounter <= 1 + 0 /\ (w - 1) * Count = 0
        BY <1>3, <1>6, <1>7, <3>1 DEF Counted
      <4> QED
        BY <4>1
    <3>2. CASE o # 0
      <4>1. Progress(o)
        BY <1>8, <3>2 DEF IInv, Progressing
      <4>2. Len(sent[o]) \in Nat /\ Len(sent[o]) <= Count
        BY <1>3, <1>8, <3>2, <4>1 DEF Progress
      <4> DEFINE e == IF it[o] \in {"send", "err"} /\ Len(sent[o]) < Count THEN 1 ELSE 0
      <4>3. msgCounter <= 1 + ((o - 1) * Count + Len(sent[o]) + e)
        BY <1>6, <3>2 DEF Counted
      <4>4. Len(sent[o]) + e <= Count /\ e \in Nat
        <5>1. e \in {0, 1} /\ (~(Len(sent[o]) < Count) => e = 0)
          OBVIOUS
        <5> HIDE DEF e
        <5> DEFINE n == Count
        <5>2. n \in Nat
          BY <1>3
        <5> HIDE DEF n
        <5>3. Len(sent[o]) + e <= n /\ e \in Nat
          BY <4>2, <5>1, <5>2 DEF n
        <5> QED
          BY <5>3 DEF n
      <4> HIDE DEF e
      <4>5. (w - 1) * Count = (o - 1) * Count + Count /\ (o - 1) * Count \in Int
        BY <1>3, <1>7
      <4>6. msgCounter \in Nat /\ Count \in Nat
        BY <1>3 DEF IInv, Types
      <4> DEFINE z == (o - 1) * Count
      <4> HIDE DEF z
      <4>7. msgCounter <= 1 + (z + Len(sent[o]) + e) /\ (w - 1) * Count = z + Count /\ z \in Int
        BY <4>3, <4>5 DEF z
      <4> QED
        BY <4>2, <4>4, <4>6, <4>7
    <3> QED
      BY <3>1, <3>2
  <2>2. (w - 1) * Count \in Int
    BY <1>3
  <2>3. w # 0 /\ Len(sent[w]) = 0 /\ msgCounter \in Nat
    BY <1>3, <1>9 DEF IInv, Types
  <2> QED
    BY <1>1, <1>9, <1>10, <2>1, <2>2, <2>3 DEF Counted
<1>14. NoErr' = NoErr
  BY <1>1, <1>9 DEF NoErr
<1>15. ~NoErr' => link = "broken" /\ \A v \in Workers : it'[v] # "read"
  BY <1>1, <1>9, <1>14 DEF IInv, Failing
<1>16. ASSUME NoErr' PROVE Linked(w)'
  <2>1. Linked(o) /\ NoErr
    BY <1>1, <1>6, <1>14, <1>16
  <2>2. o # 0 => it[o] = "ok"
    BY <1>8, <2>1 DEF NoErr
  <2>3. Connected(mode, Written(o), Answers(o), 0, server, srd, c2s, s2c, link)
    BY <2>1, <2>2 DEF Linked
  <2>4. Connected(mode, <<>>, 0, 0, server, srd, c2s, s2c, link)
    <3>1. CASE o = 0
      BY <2>3, <3>1 DEF Written, Answers
    <3>2. CASE o # 0
      <4>1. Len(got[o]) = Count /\ Len(sent[o]) = Count
        BY <1>8, <2>2, <3>2 DEF IInv, Progressing, Progress
      <4>2. sent[o] # <<>> /\ sent[o] \in Seq(Nat)
        BY <1>3, <1>8, <3>2, <4>1
      <4>3. Connected(mode, sent[o], Len(sent[o]), 0, server, srd, c2s, s2c, link)
        BY <2>3, <3>2, <4>1 DEF Written, Answers
      <4> QED
        BY <1>3, <4>2, <4>3, ConnectedAligned
    <3> QED
      BY <3>1, <3>2
  <2>5. w # 0 /\ Written(w)' = <<>> /\ Answers(w)' = 0
    BY <1>1, <1>3, <1>9 DEF Written, Answers
  <2>6. 0 < RepLen(mode)' /\ 0 \in 0..13
    BY DEF RepLen
  <2>7. Connected(mode', Written(w)', Answers(w)', 0, server', srd', c2s', s2c', link')
    BY <1>1, <2>4, <2>5
  <2> QED
    BY <1>9, <2>6, <2>7 DEF Linked
<1> QED
  BY <1>1, <1>2, <1>9, <1>11, <1>12, <1>13, <1>15, <1>16, IterationStep

\* The iteration that is under way is the only one.
LEMMA UnderWay ==
    ASSUME IInv, NEW w \in Workers, it[w] \in {"load", "store", "send", "read"}
    PROVE  /\ client = "run" /\ Started(w) /\ Counted(w) /\ (NoErr => Linked(w)) /\ Progress(w)
           /\ it[w] = "read" => NoErr
<1>1. client = "run"
  BY DEF IInv, Quiet
<1>2. PICK o \in 0..Iterations : Started(o) /\ Counted(o) /\ (client = "run" /\ NoErr => Linked(o))
  BY DEF IInv, Placed
<1>3. o = w
  BY <1>2, Alone DEF IInv
<1>4. Progress(w)
  BY DEF IInv, Progressing
<1>5. it[w] = "read" => NoErr
  BY <1>1 DEF IInv, Failing
<1> QED
  BY <1>1, <1>2, <1>3, <1>4, <1>5

\* An iteration that is under way stays the latest.
LEMMA StaysLatest ==
    ASSUME IInv, NEW w \in Workers, it[w] \in {"load", "store", "send", "read"},
           NEW to \in {"load", "store", "send", "read", "ok", "err"}, it' = [it EXCEPT ![w] = to]
    PROVE  /\ Started(w)' /\ it'[w] = to /\ \A v \in Workers \ {w} : it'[v] = it[v]
           /\ it' \in [Workers -> {"idle", "load", "store", "send", "read", "ok", "err"}]
<1>1. /\ it'[w] = to /\ \A v \in Workers \ {w} : it'[v] = it[v]
      /\ it' \in [Workers -> {"idle", "load", "store", "send", "read", "ok", "err"}]
  BY DEF IInv, Types
<1>2. Started(w)
  BY UnderWay
<1>3. \A v \in Workers : v \in Nat
  BY Basics DEF IInv
<1>4. ASSUME NEW v \in Workers PROVE (v < w => it'[v] \in {"ok", "err"}) /\ (v > w => it'[v] = "idle")
  <2>1. v < w \/ v > w => v # w
    BY <1>3
  <2> QED
    BY <1>1, <1>2, <2>1 DEF Started
<1> QED
  BY <1>1, <1>4 DEF Started

\* An iteration loads the message counter.
LEMMA LoadStep ==
    ASSUME IInv, NEW w \in Workers, Load(w)
    PROVE  IInv'
<1>1. /\ it[w] = "load" /\ tmp' = [tmp EXCEPT ![w] = msgCounter] /\ it' = [it EXCEPT ![w] = "store"]
      /\ mode' = mode /\ link' = link /\ c2s' = c2s /\ s2c' = s2c /\ client' = client /\ server' = server
      /\ srd' = srd /\ rd' = rd /\ sent' = sent /\ got' = got /\ msgCounter' = msgCounter
  BY DEF Load
<1>2. client = "run" /\ Counted(w) /\ (NoErr => Linked(w)) /\ Progress(w)
  BY <1>1, UnderWay
<1>3. /\ Started(w)' /\ it'[w] = "store" /\ \A v \in Workers \ {w} : it'[v] = it[v]
      /\ it' \in [Workers -> {"idle", "load", "store", "send", "read", "ok", "err"}]
  BY <1>1, StaysLatest
<1>4. tmp'[w] = msgCounter /\ tmp' \in [Workers -> Nat]
  BY <1>1 DEF IInv, Types
<1>5. Types'
  BY <1>1, <1>3, <1>4 DEF IInv, Types
<1>6. Count' = Count
  BY <1>1 DEF Count
<1>7. Progress(w)'
  BY <1>1, <1>2, <1>3, <1>6 DEF Progress
<1>8. Counted(w)'
  BY <1>1, <1>2, <1>3, <1>4, <1>6 DEF Counted
<1>9. NoErr' = NoErr
  BY <1>1, <1>3 DEF NoErr
<1>10. ~NoErr' => link = "broken" /\ \A v \in Workers : it'[v] # "read"
  BY <1>2, <1>3, <1>9 DEF IInv, Failing
<1>11. ASSUME NoErr' PROVE Linked(w)'
  <2>1. Linked(w)
    BY <1>2, <1>9, <1>11
  <2> QED
    BY <1>1, <1>3, <2>1 DEF Linked, Written, Answers
<1> QED
  BY <1>1, <1>2, <1>3, <1>5, <1>7, <1>8, <1>10, <1>11, IterationStep

\* An iteration stores the message counter.
LEMMA StoreStep ==
    ASSUME IInv, NEW w \in Workers, Store(w)
    PROVE  IInv'
<1>1. /\ it[w] = "store" /\ msgCounter' = tmp[w] + 1 /\ it' = [it EXCEPT ![w] = "send"]
      /\ mode' = mode /\ link' = link /\ c2s' = c2s /\ s2c' = s2c /\ client' = client /\ server' = server
      /\ srd' = srd /\ rd' = rd /\ sent' = sent /\ got' = got /\ tmp' = tmp
  BY DEF Store
<1>2. client = "run" /\ Counted(w) /\ (NoErr => Linked(w)) /\ Progress(w)
  BY <1>1, UnderWay
<1>3. /\ Started(w)' /\ it'[w] = "send" /\ \A v \in Workers \ {w} : it'[v] = it[v]
      /\ it' \in [Workers -> {"idle", "load", "store", "send", "read", "ok", "err"}]
  BY <1>1, StaysLatest
<1>4. tmp[w] \in Nat /\ msgCounter' \in Nat \ {0} /\ msgCounter \in Nat
  BY <1>1 DEF IInv, Types
<1>5. Types'
  BY <1>1, <1>3, <1>4 DEF IInv, Types
<1>6. Count' = Count
  BY <1>1 DEF Count
<1>7. Progress(w)'
  BY <1>1, <1>2, <1>3, <1>6 DEF Progress
<1>8. Counted(w)'
  <2>1. w \in Nat /\ w # 0 /\ Len(sent[w]) \in Nat /\ Count \in Nat
    BY Basics DEF IInv
  <2>2. Len(sent[w]) < Count
    BY <1>1, <1>2 DEF Progress
  <2>3. msgCounter' = msgCounter + 1
    BY <1>1, <1>2, <2>1 DEF Counted
  <2> DEFINE z == (w - 1) * Count
  <2>4. z \in Int
    BY <2>1
  <2>5. msgCounter <= 1 + (z + Len(sent[w]) + 0)
    BY <1>1, <1>2, <2>1 DEF Counted
  <2> HIDE DEF z
  <2>6. msgCounter' <= 1 + (z + Len(sent[w]) + 1)
    BY <1>4, <2>1, <2>3, <2>4, <2>5
  <2> QED
    BY <1>1, <1>3, <1>6, <2>1, <2>2, <2>6 DEF Counted, z
<1>9. NoErr' = NoErr
  BY <1>1, <1>3 DEF NoErr
<1>10. ~NoErr' => link = "broken" /\ \A v \in Workers : it'[v] # "read"
  BY <1>2, <1>3, <1>9 DEF IInv, Failing
<1>11. ASSUME NoErr' PROVE Linked(w)'
  <2>1. Linked(w)
    BY <1>2, <1>9, <1>11
  <2> QED
    BY <1>1, <1>3, <2>1 DEF Linked, Written, Answers
<1> QED
  BY <1>1, <1>2, <1>3, <1>5, <1>7, <1>8, <1>10, <1>11, IterationStep

\* An iteration fails to read.
LEMMA ReadErrorStep ==
    ASSUME IInv, NEW w \in Workers, ReadError(w)
    PROVE  IInv'
<1>1. /\ it[w] = "read" /\ link # "up" /\ it' = [it EXCEPT ![w] = "err"]
      /\ mode' = mode /\ link' = link /\ c2s' = c2s /\ s2c' = s2c /\ client' = client /\ server' = server
      /\ srd' = srd /\ rd' = rd /\ sent' = sent /\ got' = got /\ tmp' = tmp /\ msgCounter' = msgCounter
  BY DEF ReadError
<1>2. client = "run" /\ Counted(w) /\ Progress(w) /\ Started(w)
  BY <1>1, UnderWay
<1>3. /\ Started(w)' /\ it'[w] = "err" /\ \A v \in Workers \ {w} : it'[v] = it[v]
      /\ it' \in [Workers -> {"idle", "load", "store", "send", "read", "ok", "err"}]
  BY <1>1, StaysLatest
<1>4. Types'
  BY <1>1, <1>3 DEF IInv, Types
<1>5. Count' = Count
  BY <1>1 DEF Count
<1>6. Progress(w)'
  BY <1>1, <1>2, <1>3, <1>5 DEF Progress
<1>7. Counted(w)'
  <2>1. w \in Nat /\ w # 0 /\ Len(sent[w]) \in Nat /\ msgCounter \in Nat /\ Count \in Nat
    BY Basics DEF IInv, Types
  <2> DEFINE z == (w - 1) * Count
  <2>2. z \in Int
    BY <2>1
  <2>3. msgCounter <= 1 + (z + Len(sent[w]) + 0)
    BY <1>1, <1>2, <2>1 DEF Counted
  <2> HIDE DEF z
  <2>4. msgCounter <= 1 + (z + Len(sent[w]) + 1)
    BY <2>1, <2>2, <2>3
  <2> QED
    BY <1>1, <1>3, <1>5, <2>1, <2>3, <2>4 DEF Counted, z
<1>8. ~NoErr'
  BY <1>3 DEF NoErr
<1>9. link = "broken"
  BY <1>1, <1>2 DEF IInv, Kept, Types
<1>10. \A v \in Workers : it'[v] # "read"
  <2>1. \A v \in Workers \ {w} : it[v] # "read"
    <3>1. \A v \in Workers : v \in Nat
      BY Basics DEF IInv
    <3> QED
      BY <1>2, <3>1 DEF Started
  <2> QED
    BY <1>3, <2>1
<1> QED
  BY <1>1, <1>2, <1>3, <1>4, <1>6, <1>7, <1>8, <1>9, <1>10, IterationStep

\* An iteration writes a request.
LEMMA SendStep ==
    ASSUME IInv, NEW w \in Workers, Send(w)
    PROVE  IInv'
<1>1. /\ it[w] = "send"
      /\ mode' = mode /\ link' = link /\ s2c' = s2c /\ client' = client /\ server' = server
      /\ srd' = srd /\ got' = got /\ tmp' = tmp /\ msgCounter' = msgCounter
  BY DEF Send
<1>2. client = "run" /\ Counted(w) /\ (NoErr => Linked(w)) /\ Progress(w) /\ Started(w)
  BY <1>1, UnderWay
<1>3. /\ mode \in AllModes /\ Count \in Nat \ {0} /\ (\A k \in Nat : Op(k) = OpOf(mode, k))
      /\ w \in Nat /\ w # 0 /\ (\A v \in Workers : v \in Nat)
      /\ sent[w] \in Seq(Nat) /\ Len(sent[w]) \in Nat /\ got[w] \in Seq(Nat) /\ Len(got[w]) \in Nat
      /\ msgCounter \in Nat
  BY Basics DEF IInv, Types
<1>4. Len(sent[w]) < Count /\ Len(got[w]) = IF mode = "batch-rpc" THEN 0 ELSE Len(sent[w])
  BY <1>1, <1>2 DEF Progress
<1>5. Count' = Count
  BY <1>1 DEF Count
<1> DEFINE z == (w - 1) * Count
<1>6. z \in Int /\ msgCounter <= 1 + (z + Len(sent[w]) + 1)
  <2>1. z \in Int
    BY <1>3
  <2>2. msgCounter <= 1 + (z + Len(sent[w]) + (IF it[w] \in {"send", "err"} /\ Len(sent[w]) < Count THEN 1 ELSE 0))
    BY <1>2, <1>3 DEF Counted
  <2>3. it[w] \in {"send", "err"} /\ Len(sent[w]) < Count
    BY <1>1, <1>4
  <2> QED
    BY <2>1, <2>2, <2>3, Zenon
<1> HIDE DEF z
<1>7. CASE link = "up"
  <2> DEFINE s == sent[w]
             t == Append(s, msgCounter)
             to == IF mode = "batch-rpc" /\ Len(s) + 1 < Count THEN "load" ELSE "read"
  <2>1. /\ c2s' = c2s \o writeChunked(rpc(msgCounter, OpOf(mode, Len(s) + 1)))
        /\ sent' = [sent EXCEPT ![w] = t]
        /\ it' = [it EXCEPT ![w] = to]
        /\ rd' = [rd EXCEPT ![w] = NewReader]
    <3>1. Op(Len(s) + 1) = OpOf(mode, Len(s) + 1)
      BY <1>3
    <3> QED
      BY <1>7, <3>1, Zenon DEF Send, AfterSend
  <2>2. t \in Seq(Nat) /\ Len(t) = Len(s) + 1 /\ \A i \in 1..Len(s) : t[i] = s[i]
    BY <1>3, AppendProperties
  <2> HIDE DEF t
  <2>3. /\ sent'[w] = t /\ sent' \in [Workers -> Seq(Nat)] /\ \A v \in Workers \ {w} : sent'[v] = sent[v]
    BY <2>1, <2>2 DEF IInv, Types
  <2>4. to \in {"load", "read"} /\ it' = [it EXCEPT ![w] = to]
    BY <2>1
  <2>5. to = "load" <=> mode = "batch-rpc" /\ Len(s) + 1 < Count
    OBVIOUS
  <2> HIDE DEF to
  <2>6. /\ Started(w)' /\ it'[w] = to /\ \A v \in Workers \ {w} : it'[v] = it[v]
        /\ it' \in [Workers -> {"idle", "load", "store", "send", "read", "ok", "err"}]
    BY <1>1, <2>4, StaysLatest
  <2>7. rd'[w] = NewReader /\ DOMAIN rd' = Workers
    BY <2>1 DEF IInv, Types
  <2>8. Types'
    BY <1>1, <2>3, <2>6, <2>7 DEF IInv, Types
  <2>9. Progress(w)'
    <3>1. Len(t) <= Count /\ Len(got[w]) <= Len(t)
      BY <1>2, <1>3, <1>4, <2>2 DEF Progress
    <3>2. \A i \in 1..Len(got[w]) : got[w][i] = t[i]
      <4>1. \A i \in 1..Len(got[w]) : i \in 1..Len(s)
        BY <1>2, <1>3 DEF Progress
      <4> QED
        BY <1>2, <2>2, <4>1 DEF Progress
    <3>3. CASE to = "load"
      BY <1>1, <1>3, <1>4, <1>5, <2>2, <2>3, <2>5, <2>6, <3>1, <3>2, <3>3 DEF Progress
    <3>4. CASE to = "read"
      <4>1. mode = "batch-rpc" => Len(t) = Count
        BY <1>3, <1>4, <2>2, <2>5, <3>4
      <4>2. Len(got[w]) < Len(t) /\ Len(t) = IF mode = "batch-rpc" THEN Count ELSE Len(got[w]) + 1
        BY <1>3, <1>4, <2>2, <4>1
      <4> QED
        BY <1>1, <1>5, <2>3, <2>6, <3>1, <3>2, <3>4, <4>2 DEF Progress
    <3> QED
      BY <2>4, <3>3, <3>4
  <2>10. Counted(w)'
    <3>1. msgCounter <= 1 + (z + Len(t) + 0)
      BY <1>3, <1>6, <2>2
    <3>2. ~(it'[w] \in {"send", "err"}) /\ it'[w] # "store"
      BY <2>4, <2>6
    <3> QED
      BY <1>1, <1>3, <1>5, <2>3, <3>1, <3>2 DEF Counted, z
  <2>11. NoErr
    BY <1>2, <1>7 DEF IInv, Failing
  <2>12. NoErr'
    BY <2>4, <2>6, <2>11 DEF NoErr
  <2>13. Linked(w)'
    <3>1. Connected(mode, s, Len(got[w]), 0, server, srd, c2s, s2c, "up")
      BY <1>1, <1>2, <1>3, <1>7, <2>11 DEF Linked, Written, Answers
    <3>2. Connected(mode, t, Len(got[w]), 0, server, srd, c2s', s2c, "up")
      BY <1>3, <2>1, <3>1, ConnectedSend DEF t
    <3>3. Written(w)' = t /\ Answers(w)' = Len(got[w])
      BY <1>1, <1>3, <2>3 DEF Written, Answers
    <3>4. Connected(mode', Written(w)', Answers(w)', 0, server', srd', c2s', s2c', link')
      BY <1>1, <1>7, <3>2, <3>3
    <3>5. 0 < RepLen(mode)' /\ 0 \in 0..13
      BY DEF RepLen
    <3>6. it'[w] = "read" => rd'[w] = Inside(Reply(mode', Written(w)', Answers(w)' + 1), 0)
      <4> SUFFICES ASSUME it'[w] = "read" PROVE rd'[w] = Inside(Reply(mode, t, Len(got[w]) + 1), 0)
        BY <1>1, <3>3
      <4>1. Len(got[w]) + 1 \in 1..Len(t)
        BY <1>3, <2>2, <2>3, <2>9, <1>1 DEF Progress
      <4>2. Reply(mode, t, Len(got[w]) + 1) \in Seq(Tokens) /\ Len(Reply(mode, t, Len(got[w]) + 1)) = RepLen(mode) - 8
        BY <1>3, <2>2, <4>1, ReplyFrames
      <4>3. RepLen(mode) - 8 > 0
        BY DEF RepLen
      <4>4. Inside(Reply(mode, t, Len(got[w]) + 1), 0) = NewReader
        BY <4>2, <4>3, InsideEnds
      <4> QED
        BY <2>7, <4>4
    <3> QED
      BY <3>4, <3>5, <3>6 DEF Linked
  <2> QED
    BY <1>1, <1>2, <2>3, <2>6, <2>8, <2>9, <2>10, <2>12, <2>13, IterationStep
<1>8. CASE link # "up"
  <2>1. it' = [it EXCEPT ![w] = "err"] /\ c2s' = c2s /\ sent' = sent /\ rd' = rd
    BY <1>8 DEF Send
  <2>2. /\ Started(w)' /\ it'[w] = "err" /\ \A v \in Workers \ {w} : it'[v] = it[v]
        /\ it' \in [Workers -> {"idle", "load", "store", "send", "read", "ok", "err"}]
    BY <1>1, <2>1, StaysLatest
  <2>3. Types'
    BY <1>1, <2>1, <2>2 DEF IInv, Types
  <2>4. Progress(w)'
    BY <1>1, <1>2, <1>5, <2>1, <2>2 DEF Progress
  <2>5. Counted(w)'
    BY <1>1, <1>3, <1>4, <1>5, <1>6, <2>1, <2>2 DEF Counted, z
  <2>6. ~NoErr' /\ link = "broken"
    BY <1>2, <1>8, <2>2 DEF NoErr, IInv, Kept, Types
  <2>7. \A v \in Workers : it'[v] # "read"
    <3>1. \A v \in Workers \ {w} : it[v] # "read"
      BY <1>2, <1>3 DEF Started
    <3> QED
      BY <2>2, <3>1
  <2> QED
    BY <1>1, <1>2, <2>1, <2>2, <2>3, <2>4, <2>5, <2>6, <2>7, IterationStep
<1> QED
  BY <1>7, <1>8

\* The branches of a read of the client.
LEMMA ReadCases ==
    ASSUME NEW w \in Workers, Read(w), NEW n, n = feed(rd[w], Head(s2c))
    PROVE  /\ n.at = "end" => /\ got' = [got EXCEPT ![w] = Append(@, MessageID(n.msg))]
                              /\ it' = [it EXCEPT ![w] = AfterReply(w)]
                              /\ rd' = [rd EXCEPT ![w] = NewReader]
           /\ n.at \notin {"end", "err"} => rd' = [rd EXCEPT ![w] = n] /\ got' = got /\ it' = it
<1>1. CASE n.at = "end"
  BY <1>1, Zenon DEF Read
<1>2. CASE n.at = "err"
  BY <1>2, Zenon
<1>3. CASE n.at # "end" /\ n.at # "err"
  BY <1>3, Zenon DEF Read
<1> QED
  BY <1>1, <1>2, <1>3, Zenon

\* An iteration's readChunked consumes a token.
LEMMA ReadStep ==
    ASSUME IInv, NEW w \in Workers, Read(w)
    PROVE  IInv'
<1>1. /\ it[w] = "read" /\ s2c # <<>> /\ s2c' = Tail(s2c)
      /\ mode' = mode /\ link' = link /\ c2s' = c2s /\ client' = client /\ server' = server
      /\ srd' = srd /\ sent' = sent /\ tmp' = tmp /\ msgCounter' = msgCounter
  BY Zenon DEF Read
<1>2. client = "run" /\ Counted(w) /\ Linked(w) /\ Progress(w) /\ Started(w) /\ NoErr
  BY <1>1, UnderWay
<1>3. /\ mode \in AllModes /\ Count \in Nat \ {0}
      /\ w \in Nat /\ w # 0
      /\ sent[w] \in Seq(Nat) /\ Len(sent[w]) \in Nat /\ got[w] \in Seq(Nat) /\ Len(got[w]) \in Nat
      /\ msgCounter \in Nat
  BY Basics DEF IInv, Types
<1>4. /\ Len(got[w]) < Len(sent[w]) /\ Len(sent[w]) <= Count
      /\ Len(sent[w]) = IF mode = "batch-rpc" THEN Count ELSE Len(got[w]) + 1
  BY <1>1, <1>2 DEF Progress
<1>5. Count' = Count
  BY <1>1 DEF Count
<1> DEFINE s == sent[w]
           g == Len(got[w])
           b == Reply(mode, s, g + 1)
           n == feed(rd[w], Head(s2c))
<1>6. PICK c \in 0..13 : c < RepLen(mode) /\ Connected(mode, s, g, c, server, srd, c2s, s2c, link) /\ rd[w] = Inside(b, c)
  BY <1>1, <1>2, <1>3 DEF Linked, Written, Answers
<1>7. /\ Head(s2c) = writeChunked(b)[c + 1]
      /\ Connected(mode, s, g, c + 1, server, srd, c2s, Tail(s2c), link)
      /\ c + 1 = RepLen(mode) => Connected(mode, s, g + 1, 0, server, srd, c2s, Tail(s2c), link)
  BY <1>1, <1>3, <1>6, ConnectedRead
<1>8. g + 1 \in 1..Len(s) /\ g + 1 \in Nat \ {0} /\ s[g + 1] \in Nat
  <2>1. g + 1 \in 1..Len(s) /\ g + 1 \in Nat \ {0}
    BY <1>3, <1>4
  <2> QED
    BY <1>3, <2>1, ElementOfSeq
<1>9. b \in Seq(Tokens) /\ Len(b) = RepLen(mode) - 8 /\ MessageID(b) = s[g + 1]
  <2>1. b \in Seq(Tokens) /\ Len(b) = RepLen(mode) - 8
    BY <1>3, <1>8, ReplyFrames
  <2>2. MessageID(reply(s[g + 1], OpOf(mode, g + 1))) = s[g + 1]
    BY <1>3, <1>8, Bodies
  <2> QED
    BY <2>1, <2>2 DEF Reply
<1>10. Len(b) > 0 /\ c \in 0..(Len(b) + 7) /\ c + 1 \in 0..(Len(b) + 8) /\ RepLen(mode) = Len(b) + 8
  BY <1>6, <1>9 DEF RepLen
<1> HIDE DEF b
<1>11. n = Inside(b, c + 1)
  BY <1>6, <1>7, <1>9, <1>10, FeedInside
<1>12. n.at # "err" /\ (n.at = "end" <=> c + 1 = Len(b) + 8)
  BY <1>9, <1>10, <1>11, InsideEnds
<1> HIDE DEF n
<1>13. CASE n.at = "end"
  <2>1. c + 1 = RepLen(mode) /\ n.msg = b
    BY <1>9, <1>10, <1>11, <1>12, <1>13, InsideEnds
  <2> DEFINE h == Append(got[w], s[g + 1])
             to == IF g + 1 = Count THEN "ok" ELSE IF mode = "batch-rpc" THEN "read" ELSE "load"
  <2>2. /\ got' = [got EXCEPT ![w] = h]
        /\ it' = [it EXCEPT ![w] = to]
        /\ rd' = [rd EXCEPT ![w] = NewReader]
    <3>1. n = feed(rd[w], Head(s2c))
      BY DEF n
    <3>2. /\ got' = [got EXCEPT ![w] = Append(@, MessageID(n.msg))]
          /\ it' = [it EXCEPT ![w] = AfterReply(w)]
          /\ rd' = [rd EXCEPT ![w] = NewReader]
      BY <1>13, <3>1, ReadCases
    <3> QED
      BY <1>9, <2>1, <3>2 DEF AfterReply
  <2>3. h \in Seq(Nat) /\ Len(h) = g + 1 /\ h[g + 1] = s[g + 1] /\ \A i \in 1..g : h[i] = got[w][i]
    BY <1>3, <1>8, AppendProperties
  <2> HIDE DEF h
  <2>4. got'[w] = h /\ got' \in [Workers -> Seq(Nat)] /\ \A v \in Workers \ {w} : got'[v] = got[v]
    BY <2>2, <2>3 DEF IInv, Types
  <2>5. to \in {"ok", "read", "load"} /\ it' = [it EXCEPT ![w] = to]
    BY <2>2
  <2>6. /\ to = "ok" <=> g + 1 = Count
        /\ to = "read" => mode = "batch-rpc"
        /\ to = "load" => mode # "batch-rpc"
    OBVIOUS
  <2> HIDE DEF to
  <2>7. /\ Started(w)' /\ it'[w] = to /\ \A v \in Workers \ {w} : it'[v] = it[v]
        /\ it' \in [Workers -> {"idle", "load", "store", "send", "read", "ok", "err"}]
    BY <1>1, <2>5, StaysLatest
  <2>8. rd'[w] = NewReader /\ DOMAIN rd' = Workers
    BY <2>2 DEF IInv, Types
  <2>9. Types'
    BY <1>1, <2>4, <2>7, <2>8 DEF IInv, Types
  <2>10. Progress(w)'
    <3>1. Len(s) <= Count /\ Len(h) <= Len(s)
      BY <1>3, <1>4, <2>3
    <3>2. \A i \in 1..Len(h) : h[i] = s[i]
      <4>1. \A i \in 1..Len(h) : i \in 1..g \/ i = g + 1
        BY <1>3, <2>3
      <4>2. \A i \in 1..g : got[w][i] = s[i]
        BY <1>2 DEF Progress
      <4> QED
        BY <2>3, <4>1, <4>2
    <3>3. CASE to = "ok"
      <4>1. Len(h) = Count /\ Len(s) = Count
        BY <1>3, <1>4, <2>3, <2>6, <3>3
      <4> QED
        BY <1>1, <1>5, <2>4, <2>7, <3>1, <3>2, <3>3, <4>1 DEF Progress
    <3>4. CASE to = "read"
      <4>1. Len(h) < Len(s) /\ Len(s) = Count /\ mode = "batch-rpc"
        BY <1>3, <1>4, <2>3, <2>6, <3>4
      <4> QED
        BY <1>1, <1>5, <2>4, <2>7, <3>1, <3>2, <3>4, <4>1 DEF Progress
    <3>5. CASE to = "load"
      <4>1. Len(h) = Len(s) /\ Len(s) < Count /\ mode # "batch-rpc"
        BY <1>3, <1>4, <2>3, <2>6, <3>5
      <4> QED
        BY <1>1, <1>5, <2>4, <2>7, <3>1, <3>2, <3>5, <4>1 DEF Progress
    <3> QED
      BY <2>5, <3>3, <3>4, <3>5
  <2>11. Counted(w)'
    <3>1. ~(it'[w] \in {"send", "err"}) /\ it'[w] # "store"
      BY <2>5, <2>7
    <3>2. msgCounter <= 1 + ((w - 1) * Count + Len(s) + 0)
      BY <1>1, <1>2, <1>3 DEF Counted
    <3> QED
      BY <1>1, <1>3, <1>5, <3>1, <3>2 DEF Counted
  <2>12. NoErr'
    BY <1>2, <2>5, <2>7 DEF NoErr
  <2>13. Linked(w)'
    <3>1. Connected(mode, s, g + 1, 0, server, srd, c2s, s2c', link)
      BY <1>1, <1>7, <2>1
    <3>2. Written(w)' = s /\ Answers(w)' = g + 1
      BY <1>1, <1>3, <2>3, <2>4 DEF Written, Answers
    <3>3. Connected(mode', Written(w)', Answers(w)', 0, server', srd', c2s', s2c', link')
      BY <1>1, <3>1, <3>2
    <3>4. 0 < RepLen(mode)' /\ 0 \in 0..13
      BY DEF RepLen
    <3>5. it'[w] = "read" => rd'[w] = Inside(Reply(mode', Written(w)', Answers(w)' + 1), 0)
      <4> SUFFICES ASSUME it'[w] = "read" PROVE rd'[w] = Inside(Reply(mode, s, g + 1 + 1), 0)
        BY <1>1, <3>2
      <4>1. Len(h) < Len(s)
        BY <1>1, <2>4, <2>10 DEF Progress
      <4>2. g + 1 + 1 \in 1..Len(s)
        BY <1>3, <2>3, <4>1
      <4>3. Reply(mode, s, g + 1 + 1) \in Seq(Tokens) /\ Len(Reply(mode, s, g + 1 + 1)) = RepLen(mode) - 8
        BY <1>3, <4>2, ReplyFrames
      <4>4. RepLen(mode) - 8 > 0
        BY DEF RepLen
      <4>5. Inside(Reply(mode, s, g + 1 + 1), 0) = NewReader
        BY <4>3, <4>4, InsideEnds
      <4> QED
        BY <2>8, <4>5
    <3> QED
      BY <3>3, <3>4, <3>5 DEF Linked
  <2> QED
    BY <1>1, <1>2, <2>4, <2>7, <2>9, <2>10, <2>11, <2>12, <2>13, IterationStep
<1>14. CASE n.at # "end"
  <2>1. rd' = [rd EXCEPT ![w] = n] /\ got' = got /\ it' = it
    <3>1. n = feed(rd[w], Head(s2c)) /\ n.at \notin {"end", "err"}
      BY <1>12, <1>14 DEF n
    <3> QED
      BY <3>1, ReadCases
  <2>2. rd'[w] = n /\ DOMAIN rd' = Workers
    BY <2>1 DEF IInv, Types
  <2>3. Types'
    BY <1>1, <2>1, <2>2 DEF IInv, Types
  <2>4. Progress(w)' /\ Started(w)'
    BY <1>1, <1>2, <1>5, <2>1 DEF Progress, Started
  <2>5. Counted(w)'
    BY <1>1, <1>2, <1>5, <2>1 DEF Counted
  <2>6. NoErr'
    BY <1>2, <2>1 DEF NoErr
  <2>7. Linked(w)'
    <3>1. c + 1 \in 0..13 /\ c + 1 < RepLen(mode)
      BY <1>6, <1>10, <1>12, <1>14 DEF RepLen
    <3>2. Written(w)' = s /\ Answers(w)' = g
      BY <1>1, <1>3, <2>1 DEF Written, Answers
    <3>3. Connected(mode', Written(w)', Answers(w)', c + 1, server', srd', c2s', s2c', link')
      BY <1>1, <1>7, <3>2
    <3>4. rd'[w] = Inside(Reply(mode', Written(w)', Answers(w)' + 1), c + 1)
      BY <1>1, <1>11, <2>2, <3>2 DEF b
    <3>5. it'[w] = "read" /\ RepLen(mode)' = RepLen(mode)
      BY <1>1, <2>1
    <3> QED
      BY <1>3, <3>1, <3>3, <3>4, <3>5 DEF Linked
  <2> QED
    BY <1>1, <1>2, <2>1, <2>3, <2>4, <2>5, <2>6, <2>7, IterationStep
<1> QED
  BY <1>13, <1>14

-----------------------------------------------------------------------------
(* Theorems *)

\* The state before the dial satisfies the invariant.
LEMMA InitIInv ==
    ASSUME Init
    PROVE  IInv
<1>1. mode \in AllModes /\ Iterations \in Nat /\ \A w \in Workers : w \in Nat /\ w # 0
  BY SizesAssumption, ModesAssumption DEF Init, AllModes, Workers
<1>2. Count \in Nat \ {0}
  BY SizesAssumption DEF Count
<1>3. <<>> \in Seq(Nat) /\ Len(<<>>) = 0
  OBVIOUS
<1>4. Types
  BY <1>3 DEF Init, Types
<1>5. Progressing
  BY <1>2, <1>3 DEF Init, Progressing, Progress
<1>6. Placed
  <2>1. 0 \in 0..Iterations
    BY <1>1
  <2>2. Started(0)
    BY <1>1 DEF Init, Started
  <2>3. Counted(0)
    BY DEF Init, Counted
  <2>4. client # "run"
    BY DEF Init
  <2> QED
    BY <2>1, <2>2, <2>3, <2>4 DEF Placed
<1>7. Failing /\ Kept /\ Quiet /\ Dialling
  BY DEF Init, Failing, Kept, Quiet, Dialling
<1> QED
  BY <1>4, <1>5, <1>6, <1>7 DEF IInv

\* Every step of the benchmark client, of runSession and of the network keeps the invariant.
LEMMA NextIInv ==
    ASSUME Concurrency = 1, IInv, [Next]_vars
    PROVE  IInv'
<1>1. CASE Client
  BY <1>1, ClientHelloStep, CleanupStep DEF Client
<1>2. CASE Server
  BY <1>2, ServerHelloStep, ReadHelloStep, ServerReadStep, DispatchStep DEF Server
<1>3. CASE \E w \in Workers : Iterate(w)
  <2>1. PICK w \in Workers : Iterate(w)
    BY <1>3
  <2> QED
    BY <2>1, StartStep, LoadStep, StoreStep, SendStep, ReadStep, ReadErrorStep DEF Iterate
<1>4. CASE Break
  BY <1>4, BreakStep
<1>5. CASE UNCHANGED vars
  <2>1. /\ UNCHANGED iteration /\ mode' = mode /\ client' = client /\ link' = link /\ server' = server
        /\ srd' = srd /\ c2s' = c2s /\ s2c' = s2c
        /\ tmp' = tmp /\ sent' = sent /\ got' = got /\ msgCounter' = msgCounter /\ rd' = rd /\ it' = it
    BY <1>5 DEF vars, iteration
  <2>2. Types' /\ Kept' /\ Quiet' /\ Dialling'
    BY <2>1 DEF IInv, Types, Kept, Quiet, Dialling
  <2>3. ~NoErr /\ client = "run" => link' = "broken"
    BY <2>1 DEF IInv, Failing
  <2>4. \A o \in 0..Iterations : Linked(o) => Linked(o)'
    BY <2>1, LinkedStep
  <2> QED
    BY <2>1, <2>2, <2>3, <2>4, SessionStep
<1> QED
  BY <1>1, <1>2, <1>3, <1>4, <1>5 DEF Next, Finished

\* The inductive invariant holds in every state, as long as iterations follow one another.
THEOREM Invariance ==
    ASSUME Concurrency = 1
    PROVE  Spec => []IInv
<1>1. Init => IInv
  BY InitIInv
<1>2. IInv /\ [Next]_vars => IInv'
  BY NextIInv
<1> QED
  BY <1>1, <1>2, PTL DEF Spec

\* The counter of message ids stays within what the RPCs of all iterations need,
\* and no iteration writes more RPCs, or reads more replies, than it has.
THEOREM TypeCorrect ==
    ASSUME Concurrency = 1
    PROVE  Spec => []TypeOK
<1>1. IInv => TypeOK
  <2> SUFFICES ASSUME IInv PROVE TypeOK
    OBVIOUS
  <2>1. /\ Count \in Nat \ {0} /\ Iterations \in Nat
        /\ \A w \in Workers : w \in Nat /\ w # 0 /\ Len(sent[w]) \in Nat
    BY Basics DEF IInv
  <2>2. \A w \in Workers : Len(sent[w]) <= Count /\ Len(got[w]) <= Len(sent[w])
    BY DEF IInv, Progressing, Progress
  <2>3. PICK o \in 0..Iterations : Counted(o)
    BY DEF IInv, Placed
  <2>4. msgCounter \in Nat \ {0}
    BY DEF IInv, Types
  <2> DEFINE N == Count
  <2>5. msgCounter <= 1 + Iterations * N
    <3>1. N \in Nat /\ Iterations * N \in Nat
      BY <2>1
    <3>2. CASE o = 0
      <4>1. msgCounter <= 1 + 0
        BY <2>3, <3>2 DEF Counted
      <4> HIDE DEF N
      <4> QED
        BY <2>4, <3>1, <4>1
    <3>3. CASE o # 0
      <4>1. o \in Workers /\ o \in Nat
        BY <2>1, <3>3 DEF Workers
      <4> DEFINE e == IF it[o] \in {"send", "err"} /\ Len(sent[o]) < Count THEN 1 ELSE 0
                 n == Len(sent[o])
                 z == (o - 1) * N
                 y == Iterations * N
      <4>2. msgCounter <= 1 + (z + n + e)
        BY <2>3, <3>3 DEF Counted
      <4>3. e \in {0, 1} /\ (~(n < N) => e = 0) /\ n \in Nat /\ n <= N
        BY <2>1, <2>2, <4>1
      <4>4. z \in Int /\ y \in Int /\ z + N <= y
        <5> HIDE DEF N
        <5>1. z + N = o * N
          BY <3>1, <4>1
        <5>2. (Iterations - o) * N >= 0 /\ (Iterations - o) * N = Iterations * N - o * N
          BY <2>1, <3>1, <4>1
        <5>3. o * N \in Int /\ z \in Int /\ y \in Int
          BY <2>1, <3>1, <4>1
        <5> QED
          BY <5>1, <5>2, <5>3
      <4> HIDE DEF e, n, z, N, y
      <4>5. msgCounter <= 1 + y
        BY <2>4, <3>1, <4>2, <4>3, <4>4
      <4> QED
        BY <4>5 DEF y
    <3> QED
      BY <3>2, <3>3
  <2>6. msgCounter \in 1..(1 + Iterations * Count)
    <3>1. Iterations * N \in Nat
      BY <2>1
    <3> HIDE DEF N
    <3>2. msgCounter \in 1..(1 + Iterations * N)
      BY <2>4, <2>5, <3>1
    <3> QED
      BY <3>2 DEF N
  <2> QED
    BY <2>2, <2>6 DEF IInv, Types, TypeOK
<1> QED
  BY <1>1, Invariance, PTL

\* On a session shared by any number of iterations, whose replies the client
\* never matches by message-id, every iteration reads the replies to its own
\* RPCs, in order, and a successful one has read them all.
THEOREM Matched ==
    ASSUME Concurrency = 1
    PROVE  Spec => []OwnReplies
<1>1. IInv => OwnReplies
  <2> SUFFICES ASSUME IInv, NEW w \in Workers
               PROVE  IsPrefix(got[w], sent[w]) /\ (it[w] = "ok" => Len(got[w]) = Count)
    BY DEF OwnReplies
  <2>1. Progress(w)
    BY DEF IInv, Progressing
  <2>2. sent[w] \in Seq(Nat) /\ got[w] \in Seq(Nat) /\ Len(sent[w]) \in Nat /\ Len(got[w]) \in Nat
    BY Basics DEF IInv
  <2>3. got[w] = SubSeq(sent[w], 1, Len(got[w]))
    <3> DEFINE p == SubSeq(sent[w], 1, Len(got[w]))
    <3>1. Len(got[w]) <= Len(sent[w]) /\ \A i \in 1..Len(got[w]) : got[w][i] = sent[w][i]
      BY <2>1 DEF Progress
    <3>2. p \in Seq(Nat) /\ Len(p) = Len(got[w]) /\ \A i \in 1..Len(got[w]) : p[i] = sent[w][i]
      BY <2>2, <3>1
    <3> HIDE DEF p
    <3>3. got[w] = p
      BY <2>2, <3>1, <3>2, SeqEqual
    <3> QED
      BY <3>3 DEF p
  <2>4. Len(got[w]) <= Len(sent[w]) /\ (it[w] = "ok" => Len(got[w]) = Count)
    BY <2>1 DEF Progress
  <2>5. IsPrefix(got[w], sent[w])
    BY <2>2, <2>3, <2>4 DEF IsPrefix
  <2> QED
    BY <2>4, <2>5
<1> QED
  BY <1>1, Invariance, PTL

\* Between two iterations that have not failed nothing is under way in either
\* direction and both readers are at the start of a frame.
THEOREM Aligned ==
    ASSUME Concurrency = 1
    PROVE  Spec => []SessionAligned
<1>1. IInv => SessionAligned
  <2> SUFFICES ASSUME IInv, client = "run", server = "read", \A w \in Workers : it[w] \in {"idle", "ok"}
               PROVE  c2s = <<>> /\ s2c = <<>> /\ srd = NewReader
    BY DEF SessionAligned
  <2>1. NoErr
    BY DEF NoErr
  <2>2. PICK o \in 0..Iterations : Started(o) /\ Linked(o)
    BY <2>1 DEF IInv, Placed
  <2>3. mode \in AllModes /\ Written(o) \in Seq(Nat)
    BY Basics, LinkedTypes DEF IInv
  <2>4. o # 0 => o \in Workers /\ it[o] = "ok"
    <3>1. o # 0 => o \in Workers
      BY Basics DEF Workers, IInv
    <3> QED
      BY <2>2, <3>1 DEF Started
  <2>5. Answers(o) = Len(Written(o))
    <3>1. CASE o = 0
      BY <3>1 DEF Answers, Written
    <3>2. CASE o # 0
      <4>1. Len(got[o]) = Len(sent[o])
        BY <2>4, <3>2 DEF IInv, Progressing, Progress
      <4> QED
        BY <3>2, <4>1 DEF Answers, Written
    <3> QED
      BY <3>1, <3>2
  <2>6. Connected(mode, Written(o), Answers(o), 0, server, srd, c2s, s2c, link)
    BY <2>2, <2>4 DEF Linked
  <2> QED
    BY <2>3, <2>5, <2>6, ConnectedAligned
<1> QED
  BY <1>1, Invariance, PTL

\* Framing survives every reply and the server never gives a session up: an
\* iteration fails only when the network broke the channel.
THEOREM FailuresAreTheNetworks ==
    ASSUME Concurrency = 1
    PROVE  Spec => []FailsOnlyIfBroken
<1>1. IInv => FailsOnlyIfBroken
  BY DEF IInv, Failing, NoErr, FailsOnlyIfBroken
<1> QED
  BY <1>1, Invariance, PTL
=============================================================================
