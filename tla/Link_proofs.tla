------------------------------ MODULE Link_proofs ------------------------------
(***************************************************************************)
(* Proofs about a client and a server joined: each of the ways in which a  *)
(* step moves bytes and credit keeps the accounts and the windows of the   *)
(* two ends in agreement, and each step hands over, carries or delivers    *)
(* the messages of the streams as Exchange promises.                       *)
(***************************************************************************)
EXTENDS LinkMoves_proofs
-------------------------------------------------------------------------------
(***************************************************************************)
(* The accounts agree                                                      *)
(***************************************************************************)

\* Two byte streams with the same bytes and the same credit under way.
Kept(buf, next) ==
    /\ next \in Seq(FrameType)
    /\ Data(next) = Data(buf) /\ Credits(next) = Credits(buf)
    /\ \A i : InFlight(next, "DATA", i) = InFlight(buf, "DATA", i)

\* A frame that is no DATA and no WINDOW_UPDATE joins or leaves a byte stream.
LEMMA PlainJoins ==
    ASSUME NEW buf \in Seq(FrameType), NEW f \in FrameType, f.type \notin {"DATA", "WINDOW_UPDATE"}
    PROVE  Kept(buf, Append(buf, f))
  <1>1. DataIn(f) = 0 /\ CreditIn(f) = 0 /\ \A i : DataOn(f, i) = 0
    BY DEF DataIn, CreditIn, DataOn
  <1>2. Data(buf) \in Nat /\ Credits(buf) \in Nat /\ \A i : InFlight(buf, "DATA", i) \in Nat
    BY UnderWayType
  <1>3. /\ Append(buf, f) \in Seq(FrameType)
        /\ Data(Append(buf, f)) = Data(buf) + 0 /\ Credits(Append(buf, f)) = Credits(buf) + 0
        /\ \A i : InFlight(Append(buf, f), "DATA", i) = InFlight(buf, "DATA", i) + 0
    BY <1>1, FrameAdded
  <1> QED
    BY <1>2, <1>3 DEF Kept

\* The same of a frame that leaves.
LEMMA PlainLeaves ==
    ASSUME NEW buf \in Seq(FrameType), buf # <<>>, buf[1].type \notin {"DATA", "WINDOW_UPDATE"}
    PROVE  Kept(buf, Tail(buf))
  <1>1. DataIn(buf[1]) = 0 /\ CreditIn(buf[1]) = 0 /\ \A i : DataOn(buf[1], i) = 0
    BY DEF DataIn, CreditIn, DataOn
  <1>2. /\ Tail(buf) \in Seq(FrameType)
        /\ Data(buf) = DataIn(buf[1]) + Data(Tail(buf))
        /\ Credits(buf) = CreditIn(buf[1]) + Credits(Tail(buf))
        /\ \A i : InFlight(buf, "DATA", i) = DataOn(buf[1], i) + InFlight(Tail(buf), "DATA", i)
    BY FrameTaken
  <1>3. Data(Tail(buf)) \in Nat /\ Credits(Tail(buf)) \in Nat
        /\ \A i : InFlight(Tail(buf), "DATA", i) \in Nat
    BY <1>2, UnderWayType
  <1> QED
    BY <1>1, <1>2, <1>3 DEF Kept

\* A step that moves no account: neither do the frames that it writes or takes.
StillMoves ==
    \/ ClientWrites \/ ServerWrites \/ ServerTakesPlain \/ ClientTakesPlain
    \/ ClientOpens \/ ServerOpens

\* What is under way is the same after such a step.
LEMMA StillAccounts ==
    ASSUME LinkInv, StillMoves
    PROVE  /\ C!CountersStay /\ S!CountersStay
           /\ Kept(cSock, cSock') /\ Kept(sWriteBuf, sWriteBuf')
  <1>1. cSock \in Seq(FrameType) /\ sWriteBuf \in Seq(FrameType)
    BY Typed
  <1>2. Kept(cSock, cSock) /\ Kept(sWriteBuf, sWriteBuf)
    BY <1>1 DEF Kept
  <1>3. \A f : Plain(f) => /\ f \in FrameType /\ f.type \notin {"DATA", "WINDOW_UPDATE"}
                           /\ Kept(cSock, Append(cSock, f)) /\ Kept(sWriteBuf, Append(sWriteBuf, f))
    BY <1>1, PlainJoins DEF Plain
  <1>4. \A f : Control(f) => Plain(f)
    BY DEF Control
  <1>5. CASE ClientWrites
    <2>1. CASE cSock' = cSock
      BY <1>2, <1>5, <2>1 DEF ClientWrites, ClientStill, ServerStill
    <2>2. CASE \E a, b : Control(a) /\ Control(b) /\ cSock' = Append(Append(cSock, a), b)
      <3>1. PICK a, b : Control(a) /\ Control(b) /\ cSock' = Append(Append(cSock, a), b)
        BY <2>2
      <3>2. PICK buf : buf = Append(cSock, a)
        OBVIOUS
      <3>3. Kept(cSock, buf) /\ b \in FrameType /\ b.type \notin {"DATA", "WINDOW_UPDATE"}
        BY <1>3, <1>4, <3>1, <3>2
      <3>4. buf \in Seq(FrameType)
        BY <3>3 DEF Kept
      <3>5. Kept(buf, cSock')
        BY <3>1, <3>2, <3>3, <3>4, PlainJoins
      <3>6. Kept(cSock, cSock')
        BY <3>3, <3>5 DEF Kept
      <3> QED
        BY <1>2, <1>5, <3>6 DEF ClientWrites, ClientStill, ServerStill
    <2> QED
      BY <1>5, <2>1, <2>2 DEF ClientWrites
  <1>6. CASE ServerWrites
    BY <1>2, <1>3, <1>6 DEF ServerWrites, ClientStill, ServerStill
  <1>7. CASE ServerTakesPlain
    <2>1. Kept(cSock, cSock')
      BY <1>1, <1>7, PlainLeaves DEF ServerTakesPlain, Control, Plain
    <2> QED
      BY <1>2, <1>3, <1>4, <1>7, <2>1 DEF ServerTakesPlain, ClientStill, ServerStill
  <1>8. CASE ClientTakesPlain
    <2>1. Kept(sWriteBuf, sWriteBuf')
      BY <1>1, <1>8, PlainLeaves DEF ClientTakesPlain, Plain
    <2> QED
      BY <1>2, <1>3, <1>4, <1>8, <2>1 DEF ClientTakesPlain, ClientStill, ServerStill
  <1>9. CASE ClientOpens
    <2>1. PICK f \in FrameType : f.type = "HEADERS" /\ cSock' = Append(cSock, f)
      BY <1>9 DEF ClientOpens
    <2>2. Kept(cSock, cSock')
      BY <1>1, <2>1, PlainJoins
    <2> QED
      BY <1>2, <1>9, <2>2 DEF ClientOpens, ServerStill
  <1>10. CASE ServerOpens
    <2>1. Kept(cSock, cSock')
      BY <1>1, <1>10, PlainLeaves DEF ServerOpens
    <2> QED
      BY <1>2, <1>10, <2>1 DEF ServerOpens, ClientStill
  <1> QED
    BY <1>5, <1>6, <1>7, <1>8, <1>9, <1>10 DEF StillMoves

\* No step makes the accounts of the two ends disagree, nor lets both withhold much
\* while no DATA is under way.
LEMMA AccountsKept ==
    ASSUME LinkInv, Moves
    PROVE  AccountsAgree' /\ OneWithholdsLittle'
  <1>1. AccountsAgree /\ OneWithholdsLittle
    BY DEF LinkInv
  <1>2. Data(cSock) \in Nat /\ Credits(cSock) \in Nat
        /\ Data(sWriteBuf) \in Nat /\ Credits(sWriteBuf) \in Nat
        /\ cSock \in Seq(FrameType) /\ sWriteBuf \in Seq(FrameType)
        /\ cSent[0] \in Nat /\ cCredit[0] \in Nat /\ cRcvd \in Nat /\ cGranted \in Nat
        /\ sSent[0] \in Nat /\ sCredit[0] \in Nat /\ sRcvd \in Nat /\ sGranted \in Nat
        /\ cFlow.consumed \in Nat /\ sFlow.consumed \in Nat
    BY Typed, UnderWayType
  <1>3. CASE StillMoves
    <2>1. /\ C!CountersStay /\ S!CountersStay
          /\ Data(cSock') = Data(cSock) /\ Credits(cSock') = Credits(cSock)
          /\ Data(sWriteBuf') = Data(sWriteBuf) /\ Credits(sWriteBuf') = Credits(sWriteBuf)
      BY <1>3, StillAccounts DEF Kept
    <2> QED
      BY <1>1, <2>1 DEF AccountsAgree, OneWithholdsLittle, C!CountersStay, S!CountersStay
  <1>4. ASSUME NEW i, NEW n \in Nat, ClientSends(i, n)
        PROVE  AccountsAgree' /\ OneWithholdsLittle'
    <2>1. PICK f \in FrameType : f.type = "DATA" /\ f.n = n /\ cSock' = Append(cSock, f)
      BY <1>4 DEF ClientSends
    <2>2. DataIn(f) = n /\ CreditIn(f) = 0
      BY <2>1 DEF DataIn, CreditIn
    <2>3. Data(cSock') = Data(cSock) + n /\ Credits(cSock') = Credits(cSock)
      BY <1>2, <2>1, <2>2, FrameAdded
    <2>4. sWriteBuf' = sWriteBuf /\ S!CountersStay
      BY <1>4 DEF ClientSends, ServerStill
    <2>5. AccountsAgree'
      BY <1>1, <1>2, <1>4, <2>3, <2>4 DEF AccountsAgree, ClientSends, S!CountersStay
    <2>6. OneWithholdsLittle'
      <3>1. CASE n = 0
        BY <1>1, <1>2, <1>4, <2>3, <2>4, <3>1 DEF OneWithholdsLittle, ClientSends, S!CountersStay
      <3>2. CASE n > 0
        BY <1>2, <2>3, <3>2 DEF OneWithholdsLittle
      <3> QED
        BY <3>1, <3>2
    <2> QED
      BY <2>5, <2>6
  <1>5. ASSUME NEW i, NEW n \in Nat, ServerSends(i, n)
        PROVE  AccountsAgree' /\ OneWithholdsLittle'
    <2>1. PICK f \in FrameType : f.type = "DATA" /\ f.n = n /\ sWriteBuf' = Append(sWriteBuf, f)
      BY <1>5 DEF ServerSends
    <2>2. DataIn(f) = n /\ CreditIn(f) = 0
      BY <2>1 DEF DataIn, CreditIn
    <2>3. Data(sWriteBuf') = Data(sWriteBuf) + n /\ Credits(sWriteBuf') = Credits(sWriteBuf)
      BY <1>2, <2>1, <2>2, FrameAdded
    <2>4. cSock' = cSock /\ C!CountersStay
      BY <1>5 DEF ServerSends, ClientStill
    <2>5. AccountsAgree'
      BY <1>1, <1>2, <1>5, <2>3, <2>4 DEF AccountsAgree, ServerSends, C!CountersStay
    <2>6. OneWithholdsLittle'
      <3>1. CASE n = 0
        BY <1>1, <1>2, <1>5, <2>3, <2>4, <3>1 DEF OneWithholdsLittle, ServerSends, C!CountersStay
      <3>2. CASE n > 0
        BY <1>2, <2>3, <3>2 DEF OneWithholdsLittle
      <3> QED
        BY <3>1, <3>2
    <2> QED
      BY <2>5, <2>6
  <1>6. CASE ServerTakesData
    <2>1. PICK n : n = cSock[1].n
      OBVIOUS
    <2>2. /\ cSock' = Tail(cSock) /\ cSock[1] \in FrameType /\ n \in Nat
          /\ Tail(cSock) \in Seq(FrameType)
          /\ Data(cSock) = n + Data(cSock') /\ Credits(cSock) = 0 + Credits(cSock')
      BY <1>6, <1>2, <2>1, FrameTaken DEF ServerTakesData, DataIn, CreditIn, FrameType, C!FrameType
    <2>3. Data(cSock') \in Nat /\ Credits(cSock') \in Nat
      BY <2>2, UnderWayType
    <2>4. C!CountersStay /\ sSent'[0] = sSent[0] /\ sCredit'[0] = sCredit[0] /\ sRcvd' = sRcvd + n
      BY <1>6, <2>1 DEF ServerTakesData, ClientStill
    <2>5. Data(sWriteBuf') = Data(sWriteBuf) /\ sGranted' = cCredit[0] + Credits(sWriteBuf')
      <3>1. CASE sWriteBuf' = sWriteBuf /\ sGranted' = sGranted
        BY <1>1, <3>1 DEF AccountsAgree
      <3>2. CASE \E g : Refill(g) /\ sGranted' = sGranted + g.n /\ sWriteBuf' = Append(sWriteBuf, g)
        <4>1. PICK g : Refill(g) /\ sGranted' = sGranted + g.n /\ sWriteBuf' = Append(sWriteBuf, g)
          BY <3>2
        <4>2. g \in FrameType /\ DataIn(g) = 0 /\ CreditIn(g) = g.n /\ g.n \in Nat
          BY <4>1 DEF Refill, DataIn, CreditIn, FrameType, C!FrameType
        <4>3. /\ Data(sWriteBuf') = Data(sWriteBuf) + 0
              /\ Credits(sWriteBuf') = Credits(sWriteBuf) + g.n
          BY <1>2, <4>1, <4>2, FrameAdded
        <4>4. sGranted = cCredit[0] + Credits(sWriteBuf)
          BY <1>1 DEF AccountsAgree
        <4>5. PICK x, y, z, d : /\ x = cCredit[0] /\ y = Credits(sWriteBuf)
                                /\ z = g.n /\ d = Data(sWriteBuf)
          OBVIOUS
        <4>7. x \in Nat /\ y \in Nat /\ z \in Nat /\ d \in Nat
          BY <1>2, <4>2, <4>5
        <4>6. (x + y) + z = x + (y + z) /\ d + 0 = d
          BY <4>7
        <4> QED
          BY <4>1, <4>3, <4>4, <4>5, <4>6
      <3> QED
        BY <1>6, <3>1, <3>2 DEF ServerTakesData
    <2>6. AccountsAgree'
      <3>1. cSent'[0] = sRcvd' + Data(cSock')
        BY <1>1, <1>2, <2>2, <2>3, <2>4 DEF AccountsAgree, C!CountersStay
      <3> QED
        BY <1>1, <1>2, <2>2, <2>3, <2>4, <2>5, <3>1 DEF AccountsAgree, C!CountersStay
    <2> QED
      BY <1>6, <2>6 DEF ServerTakesData, OneWithholdsLittle
  <1>7. CASE ClientTakesData
    <2>1. PICK n : n = sWriteBuf[1].n
      OBVIOUS
    <2>2. /\ sWriteBuf' = Tail(sWriteBuf) /\ sWriteBuf[1] \in FrameType /\ n \in Nat
          /\ Tail(sWriteBuf) \in Seq(FrameType)
          /\ Data(sWriteBuf) = n + Data(sWriteBuf') /\ Credits(sWriteBuf) = 0 + Credits(sWriteBuf')
      BY <1>7, <1>2, <2>1, FrameTaken DEF ClientTakesData, DataIn, CreditIn, FrameType, C!FrameType
    <2>3. Data(sWriteBuf') \in Nat /\ Credits(sWriteBuf') \in Nat
      BY <2>2, UnderWayType
    <2>4. S!CountersStay /\ cSent'[0] = cSent[0] /\ cCredit'[0] = cCredit[0] /\ cRcvd' = cRcvd + n
      BY <1>7, <2>1 DEF ClientTakesData, ServerStill
    <2>5. Data(cSock') = Data(cSock) /\ cGranted' = sCredit[0] + Credits(cSock')
      <3>1. CASE cSock' = cSock /\ cGranted' = cGranted
        BY <1>1, <3>1 DEF AccountsAgree
      <3>2. CASE \E g : Refill(g) /\ cGranted' = cGranted + g.n /\ cSock' = Append(cSock, g)
        <4>1. PICK g : Refill(g) /\ cGranted' = cGranted + g.n /\ cSock' = Append(cSock, g)
          BY <3>2
        <4>2. g \in FrameType /\ DataIn(g) = 0 /\ CreditIn(g) = g.n /\ g.n \in Nat
          BY <4>1 DEF Refill, DataIn, CreditIn, FrameType, C!FrameType
        <4>3. Data(cSock') = Data(cSock) + 0 /\ Credits(cSock') = Credits(cSock) + g.n
          BY <1>2, <4>1, <4>2, FrameAdded
        <4>4. cGranted = sCredit[0] + Credits(cSock)
          BY <1>1 DEF AccountsAgree
        <4>5. PICK x, y, z, d : x = sCredit[0] /\ y = Credits(cSock) /\ z = g.n /\ d = Data(cSock)
          OBVIOUS
        <4>7. x \in Nat /\ y \in Nat /\ z \in Nat /\ d \in Nat
          BY <1>2, <4>2, <4>5
        <4>6. (x + y) + z = x + (y + z) /\ d + 0 = d
          BY <4>7
        <4> QED
          BY <4>1, <4>3, <4>4, <4>5, <4>6
      <3> QED
        BY <1>7, <3>1, <3>2 DEF ClientTakesData
    <2>6. AccountsAgree'
      <3>1. sSent'[0] = cRcvd' + Data(sWriteBuf')
        BY <1>1, <1>2, <2>2, <2>3, <2>4 DEF AccountsAgree, S!CountersStay
      <3> QED
        BY <1>1, <1>2, <2>2, <2>3, <2>4, <2>5, <3>1 DEF AccountsAgree, S!CountersStay
    <2> QED
      BY <1>7, <2>6 DEF ClientTakesData, OneWithholdsLittle
  <1>8. CASE ServerCredited
    <2>1. PICK n : n = cSock[1].n
      OBVIOUS
    <2>2. /\ cSock' = Tail(cSock) /\ n \in Nat /\ Tail(cSock) \in Seq(FrameType)
          /\ Data(cSock) = 0 + Data(cSock') /\ Credits(cSock) = n + Credits(cSock')
      BY <1>8, <1>2, <2>1, FrameTaken DEF ServerCredited, DataIn, CreditIn, FrameType, C!FrameType
    <2>3. Data(cSock') \in Nat /\ Credits(cSock') \in Nat
      BY <2>2, UnderWayType
    <2>4. /\ C!CountersStay /\ sWriteBuf' = sWriteBuf
          /\ sSent'[0] = sSent[0] /\ sCredit'[0] = sCredit[0] + n /\ sRcvd' = sRcvd
          /\ sGranted' = sGranted /\ sFlow'.consumed = sFlow.consumed
      BY <1>8, <2>1 DEF ServerCredited, ClientStill
    <2>5. cGranted' = sCredit'[0] + Credits(cSock')
      <3>1. cGranted' = sCredit[0] + (n + Credits(cSock'))
        BY <1>1, <2>2, <2>4 DEF AccountsAgree, C!CountersStay
      <3>2. PICK x, y \in Nat : x = sCredit[0] /\ y = Credits(cSock')
        BY <1>2, <2>3
      <3>3. x + (n + y) = (x + n) + y
        BY <2>2
      <3> QED
        BY <2>4, <3>1, <3>2, <3>3
    <2>6. Data(cSock') = Data(cSock)
      BY <2>2, <2>3
    <2> QED
      BY <1>1, <2>4, <2>5, <2>6
         DEF AccountsAgree, OneWithholdsLittle, C!CountersStay
  <1>9. CASE ClientCredited
    <2>1. PICK n : n = sWriteBuf[1].n
      OBVIOUS
    <2>2. /\ sWriteBuf' = Tail(sWriteBuf) /\ n \in Nat /\ Tail(sWriteBuf) \in Seq(FrameType)
          /\ Data(sWriteBuf) = 0 + Data(sWriteBuf') /\ Credits(sWriteBuf) = n + Credits(sWriteBuf')
      BY <1>9, <1>2, <2>1, FrameTaken DEF ClientCredited, DataIn, CreditIn, FrameType, C!FrameType
    <2>3. Data(sWriteBuf') \in Nat /\ Credits(sWriteBuf') \in Nat
      BY <2>2, UnderWayType
    <2>4. /\ S!CountersStay /\ cSock' = cSock
          /\ cSent'[0] = cSent[0] /\ cCredit'[0] = cCredit[0] + n /\ cRcvd' = cRcvd
          /\ cGranted' = cGranted /\ cFlow'.consumed = cFlow.consumed
      BY <1>9, <2>1 DEF ClientCredited, ServerStill
    <2>5. sGranted' = cCredit'[0] + Credits(sWriteBuf')
      <3>1. sGranted' = cCredit[0] + (n + Credits(sWriteBuf'))
        BY <1>1, <2>2, <2>4 DEF AccountsAgree, S!CountersStay
      <3>2. PICK x, y \in Nat : x = cCredit[0] /\ y = Credits(sWriteBuf')
        BY <1>2, <2>3
      <3>3. x + (n + y) = (x + n) + y
        BY <2>2
      <3> QED
        BY <2>4, <3>1, <3>2, <3>3
    <2>6. Data(sWriteBuf') = Data(sWriteBuf)
      BY <2>2, <2>3
    <2> QED
      BY <1>1, <2>4, <2>5, <2>6
         DEF AccountsAgree, OneWithholdsLittle, S!CountersStay
  <1> QED
    BY <1>3, <1>4, <1>5, <1>6, <1>7, <1>8, <1>9 DEF Moves, StillMoves
-------------------------------------------------------------------------------
(***************************************************************************)
(* Frames and streams                                                      *)
(***************************************************************************)

\* The sum of nothing but zeros.
LEMMA SumZero ==
    ASSUME NEW n \in Nat, NEW q \in [1 .. n -> Nat], \A k \in 1 .. n : q[k] = 0
    PROVE  Sum(q) = 0
  <1>1. PICK g \in [0 .. n -> Nat] : /\ g[0] = 0 /\ Sum(q) = g[n]
                                     /\ \A k \in 1 .. n : g[k] = g[k - 1] + q[k]
    BY SumSteps
  <1>2. PICK z \in [0 .. n -> Nat] : \A k \in 0 .. n : z[k] = 0
    <2>1. [k \in 0 .. n |-> 0] \in [0 .. n -> Nat]
      OBVIOUS
    <2> QED
      BY <2>1
  <1>3. z[0] = g[0] + 0 /\ 0 \in Nat
    BY <1>1, <1>2
  <1>4. ASSUME NEW k \in 1 .. n PROVE z[k] - z[k - 1] = g[k] - g[k - 1]
    <2>1. k \in 0 .. n /\ k - 1 \in 0 .. n
      OBVIOUS
    <2>2. g[k] = g[k - 1] + 0 /\ g[k - 1] \in Nat /\ z[k] = 0 /\ z[k - 1] = 0
      BY <1>1, <1>2, <2>1
    <2> QED
      BY <2>2
  <1>5. z[n] = g[n] + 0
    BY <1>3, <1>4, SameSums
  <1> QED
    BY <1>1, <1>2, <1>5

\* There is nothing under way on a stream of which there is no DATA.
LEMMA NoneUnderWay ==
    ASSUME NEW buf \in Seq(FrameType), NEW i,
           \A k \in DOMAIN buf : ~(buf[k].type = "DATA" /\ buf[k].id = i)
    PROVE  InFlight(buf, "DATA", i) = 0
  <1>1. PICK n \in Nat : n = Len(buf) /\ buf \in [1 .. n -> FrameType]
    BY LenProperties
  <1> DEFINE q == [k \in DOMAIN buf |-> DataOn(buf[k], i)]
  <1>2. q \in [1 .. n -> Nat] /\ \A k \in 1 .. n : q[k] = 0
    BY <1>1 DEF DataOn
  <1>3. InFlight(buf, "DATA", i) = Sum(q)
    BY DEF InFlight, DataOn
  <1> HIDE DEF q
  <1> QED
    BY <1>2, <1>3, SumZero

\* The frames of a byte stream to which one is added.
LEMMA AppendElements ==
    ASSUME NEW buf \in Seq(FrameType), NEW f \in FrameType
    PROVE  /\ Len(buf) \in Nat /\ DOMAIN buf = 1 .. Len(buf)
           /\ DOMAIN Append(buf, f) = 1 .. (Len(buf) + 1)
           /\ Append(buf, f)[Len(buf) + 1] = f
           /\ \A k \in DOMAIN buf : Append(buf, f)[k] = buf[k]
  <1>1. Len(buf) \in Nat /\ DOMAIN buf = 1 .. Len(buf)
    BY LenProperties
  <1>2. /\ Append(buf, f) \in Seq(FrameType) /\ Len(Append(buf, f)) = Len(buf) + 1
        /\ Append(buf, f)[Len(buf) + 1] = f
        /\ \A k \in 1 .. Len(buf) : Append(buf, f)[k] = buf[k]
    BY AppendProperties
  <1>3. DOMAIN Append(buf, f) = 1 .. Len(Append(buf, f))
    BY <1>2, LenProperties
  <1> QED
    BY <1>1, <1>2, <1>3

\* Sound frames stay so when one joins or one leaves.
LEMMA SoundKept ==
    ASSUME NEW buf \in Seq(FrameType), AllSound(buf)
    PROVE  /\ \A f \in FrameType : Sound(f) => AllSound(Append(buf, f))
           /\ buf # <<>> => AllSound(Tail(buf))
  <1>1. ASSUME NEW f \in FrameType, Sound(f) PROVE AllSound(Append(buf, f))
    <2>0. PICK out, n : out = Append(buf, f) /\ n = Len(buf)
      OBVIOUS
    <2>1. /\ n \in Nat /\ DOMAIN buf = 1 .. n /\ DOMAIN out = 1 .. (n + 1)
          /\ out[n + 1] = f /\ \A k \in DOMAIN buf : out[k] = buf[k]
      BY <2>0, AppendElements
    <2>2. ASSUME NEW k \in DOMAIN out PROVE Sound(out[k])
      <3>1. k = n + 1 \/ k \in DOMAIN buf
        BY <2>1
      <3> QED
        BY <1>1, <2>1, <3>1 DEF AllSound
    <2> QED
      BY <2>0, <2>2 DEF AllSound
  <1>2. ASSUME buf # <<>> PROVE AllSound(Tail(buf))
    BY <1>2, FrameTaken DEF AllSound
  <1> QED
    BY <1>1, <1>2

\* Frames without DATA on other streams, and frames that the server has streams for.
LEMMA AnsweringKept ==
    ASSUME NEW buf \in Seq(FrameType), NEW known, NEW more, known \subseteq more,
           Answering(buf, known)
    PROVE  /\ Answering(buf, more)
           /\ \A f \in FrameType : (f.type = "DATA" => f.id \in more) =>
                 Answering(Append(buf, f), more)
           /\ buf # <<>> => Answering(Tail(buf), more)
  <1>1. ASSUME NEW f \in FrameType, f.type = "DATA" => f.id \in more
        PROVE  Answering(Append(buf, f), more)
    <2>0. PICK out, n : out = Append(buf, f) /\ n = Len(buf)
      OBVIOUS
    <2>1. /\ n \in Nat /\ DOMAIN buf = 1 .. n /\ DOMAIN out = 1 .. (n + 1)
          /\ out[n + 1] = f /\ \A k \in DOMAIN buf : out[k] = buf[k]
      BY <2>0, AppendElements
    <2>2. ASSUME NEW k \in DOMAIN out, out[k].type = "DATA" PROVE out[k].id \in more
      <3>1. k = n + 1 \/ k \in DOMAIN buf
        BY <2>1
      <3> QED
        BY <1>1, <2>1, <2>2, <3>1 DEF Answering
    <2> QED
      BY <2>0, <2>2 DEF Answering
  <1>2. ASSUME buf # <<>> PROVE Answering(Tail(buf), more)
    BY <1>2, FrameTaken DEF Answering
  <1> QED
    BY <1>1, <1>2 DEF Answering

\* A frame joins the client's byte stream: HEADERS of a new stream, or another of one it has.
LEMMA OpeningAppended ==
    ASSUME NEW buf \in Seq(FrameType), NEW opened, NEW known, Opening(buf, opened, known),
           NEW f \in FrameType, f.type = "DATA" => f.id \in opened,
           NEW more, more = IF f.type = "HEADERS" THEN opened \cup {f.id} ELSE opened
    PROVE  Opening(Append(buf, f), more, known)
  <1>0. PICK out, n : out = Append(buf, f) /\ n = Len(buf)
    OBVIOUS
  <1>1. /\ n \in Nat /\ DOMAIN buf = 1 .. n /\ DOMAIN out = 1 .. (n + 1)
        /\ out[n + 1] = f /\ \A k \in DOMAIN buf : out[k] = buf[k]
    BY <1>0, AppendElements
  <1>2. known \subseteq more
    BY DEF Opening
  <1>3. ASSUME NEW i \in more
        PROVE  i \in known \/ \E k \in DOMAIN out : OpensStream(i, out[k])
    <2>1. CASE i \in opened
      <3>1. i \in known \/ \E k \in DOMAIN buf : OpensStream(i, buf[k])
        BY <2>1 DEF Opening
      <3>2. DOMAIN buf \subseteq DOMAIN out
        BY <1>1
      <3> QED
        BY <1>1, <3>1, <3>2
    <2>2. CASE f.type = "HEADERS" /\ i = f.id
      <3>1. n + 1 \in DOMAIN out /\ OpensStream(i, out[n + 1])
        BY <1>1, <2>2 DEF OpensStream
      <3> QED
        BY <3>1
    <2> QED
      BY <2>1, <2>2
  <1>4. ASSUME NEW k \in DOMAIN out, out[k].type \in {"HEADERS", "DATA"}
        PROVE  out[k].id \in more
    <2>1. k = n + 1 \/ k \in DOMAIN buf
      BY <1>1
    <2> QED
      BY <1>1, <1>4, <2>1 DEF Opening
  <1>5. ASSUME NEW k \in DOMAIN out, out[k].type = "DATA"
        PROVE  out[k].id \in known \/ \E j \in 1 .. k - 1 : OpensStream(out[k].id, out[j])
    <2>1. CASE k = n + 1
      <3>1. out[k].id \in opened
        BY <1>1, <1>5, <2>1
      <3>2. out[k].id \in known \/ \E j \in DOMAIN buf : OpensStream(out[k].id, buf[j])
        BY <3>1 DEF Opening
      <3>3. DOMAIN buf = 1 .. k - 1
        BY <1>1, <2>1
      <3> QED
        BY <1>1, <3>2, <3>3
    <2>2. CASE k \in DOMAIN buf
      <3>1. out[k] = buf[k] /\ buf[k].type = "DATA"
        BY <1>1, <1>5, <2>2
      <3>2. buf[k].id \in known \/ \E j \in 1 .. k - 1 : OpensStream(buf[k].id, buf[j])
        BY <2>2, <3>1 DEF Opening
      <3>3. 1 .. k - 1 \subseteq DOMAIN buf
        BY <1>1, <2>2
      <3>4. \A j \in 1 .. k - 1 : out[j] = buf[j]
        BY <1>1, <3>3
      <3> QED
        BY <3>1, <3>2, <3>4
    <2>3. k = n + 1 \/ k \in DOMAIN buf
      BY <1>1
    <2> QED
      BY <2>1, <2>2, <2>3
  <1>6. Opening(out, more, known)
    BY <1>2, <1>3, <1>4, <1>5 DEF Opening
  <1> QED
    BY <1>0, <1>6

\* The first frame leaves it: HEADERS open the stream at the server.
LEMMA OpeningTaken ==
    ASSUME NEW buf \in Seq(FrameType), buf # <<>>, NEW opened, NEW known,
           Opening(buf, opened, known),
           NEW more, more = IF buf[1].type = "HEADERS" THEN known \cup {buf[1].id} ELSE known
    PROVE  Opening(Tail(buf), opened, more)
  <1>1. PICK out : out = Tail(buf)
    OBVIOUS
  <1>2. /\ 1 \in DOMAIN buf /\ out \in Seq(FrameType)
        /\ \A k \in DOMAIN out : k + 1 \in DOMAIN buf /\ out[k] = buf[k + 1]
        /\ \A k \in DOMAIN buf \ {1} : k - 1 \in DOMAIN out /\ out[k - 1] = buf[k]
    BY <1>1, FrameTaken
  <1>3. DOMAIN buf \subseteq Nat /\ DOMAIN out \subseteq Nat \ {0}
        /\ \A k \in DOMAIN buf : 1 .. k \subseteq DOMAIN buf
    <2>1. DOMAIN buf = 1 .. Len(buf) /\ Len(buf) \in Nat
      BY LenProperties
    <2>2. DOMAIN out = 1 .. Len(out) /\ Len(out) \in Nat
      BY <1>2, LenProperties
    <2> QED
      BY <2>1, <2>2
  <1>4. more \subseteq opened
    BY <1>2 DEF Opening
  <1>5. ASSUME NEW i \in opened
        PROVE  i \in more \/ \E k \in DOMAIN out : OpensStream(i, out[k])
    <2>1. CASE i \in known
      BY <2>1
    <2>2. CASE \E k \in DOMAIN buf : OpensStream(i, buf[k])
      <3>1. PICK k \in DOMAIN buf : OpensStream(i, buf[k])
        BY <2>2
      <3>2. CASE k = 1
        BY <3>1, <3>2 DEF OpensStream
      <3>3. CASE k # 1
        BY <1>2, <3>1, <3>3
      <3> QED
        BY <3>2, <3>3
    <2> QED
      BY <2>1, <2>2 DEF Opening
  <1>6. ASSUME NEW k \in DOMAIN out, out[k].type \in {"HEADERS", "DATA"}
        PROVE  out[k].id \in opened
    BY <1>2, <1>6 DEF Opening
  <1>7. ASSUME NEW k \in DOMAIN out, out[k].type = "DATA"
        PROVE  out[k].id \in more \/ \E j \in 1 .. k - 1 : OpensStream(out[k].id, out[j])
    <2>1. k \in Nat \ {0} /\ k + 1 \in DOMAIN buf /\ out[k] = buf[k + 1]
      BY <1>2, <1>3
    <2>2. \/ out[k].id \in known
          \/ \E j \in 1 .. (k + 1) - 1 : OpensStream(out[k].id, buf[j])
      BY <1>7, <2>1 DEF Opening
    <2>3. CASE out[k].id \in known
      BY <2>3
    <2>4. CASE \E j \in 1 .. (k + 1) - 1 : OpensStream(out[k].id, buf[j])
      <3>1. PICK j \in 1 .. (k + 1) - 1 : OpensStream(out[k].id, buf[j])
        BY <2>4
      <3>2. CASE j = 1
        BY <3>1, <3>2 DEF OpensStream
      <3>3. CASE j # 1
        <4>1. j \in DOMAIN buf /\ j - 1 \in 1 .. k - 1
          <5>1. j \in 1 .. k + 1 /\ j - 1 \in 1 .. k - 1
            BY <2>1, <3>3
          <5> QED
            BY <1>3, <2>1, <5>1
        <4>2. out[j - 1] = buf[j]
          BY <1>2, <3>3, <4>1
        <4> QED
          BY <3>1, <4>1, <4>2
      <3> QED
        BY <3>2, <3>3
    <2> QED
      BY <2>2, <2>3, <2>4
  <1>8. Opening(out, opened, more)
    BY <1>4, <1>5, <1>6, <1>7 DEF Opening
  <1> QED
    BY <1>1, <1>8
-------------------------------------------------------------------------------
\* What may become of a byte stream in a step.
Passes(buf, next) ==
    \/ next = buf
    \/ buf # <<>> /\ next = Tail(buf)
    \/ \E f \in FrameType : Sound(f) /\ next = Append(buf, f)
    \/ \E a, b \in FrameType : Sound(a) /\ Sound(b) /\ next = Append(Append(buf, a), b)

\* Sound frames follow sound frames.
LEMMA PassesSound ==
    ASSUME NEW buf \in Seq(FrameType), AllSound(buf), NEW next, Passes(buf, next)
    PROVE  AllSound(next)
  <1>1. ASSUME NEW a \in FrameType, NEW b \in FrameType, Sound(a), Sound(b),
               next = Append(Append(buf, a), b)
        PROVE  AllSound(next)
    <2>1. PICK mid : mid = Append(buf, a)
      OBVIOUS
    <2>2. mid \in Seq(FrameType) /\ AllSound(mid)
      BY <1>1, <2>1, SoundKept, FrameAdded
    <2> QED
      BY <1>1, <2>1, <2>2, SoundKept
  <1> QED
    BY <1>1, SoundKept DEF Passes

\* Every frame that is written is one that the other end's decoder lets through.
LEMMA FramesKept ==
    ASSUME LinkInv, Moves
    PROVE  FramesSound'
  <1>1. /\ cSock \in Seq(FrameType) /\ sWriteBuf \in Seq(FrameType)
        /\ AllSound(cSock) /\ AllSound(sWriteBuf)
    BY Typed DEF LinkInv, FramesSound
  <1>2. \A f : Plain(f) => f \in FrameType /\ Sound(f)
    BY DEF Plain, Sound
  <1>3. \A f : Control(f) => f \in FrameType /\ Sound(f)
    BY <1>2 DEF Control
  <1>4. \A f : Refill(f) => f \in FrameType /\ Sound(f)
    BY DEF Refill, Sound
  <1>5. \A f \in FrameType : f.type = "HEADERS" /\ f.id # 0 => Sound(f)
    BY DEF Sound
  <1>6. \A f \in FrameType : \A n :
           f.type = "DATA" /\ f.id # 0 /\ f.n = n /\ n <= DefaultMaxFrame => Sound(f)
    BY DEF Sound
  <1>7. Passes(cSock, cSock') /\ Passes(sWriteBuf, sWriteBuf')
    <2>1. CASE ClientWrites
      BY <1>3, <2>1 DEF ClientWrites, Passes
    <2>2. CASE ServerWrites
      BY <1>2, <2>2 DEF ServerWrites, Passes
    <2>3. CASE ServerTakesPlain
      BY <1>2, <1>3, <2>3 DEF ServerTakesPlain, Passes
    <2>4. CASE ClientTakesPlain
      BY <1>3, <2>4 DEF ClientTakesPlain, Passes
    <2>5. CASE ClientOpens
      BY <1>5, <2>5 DEF ClientOpens, Passes
    <2>6. CASE ServerOpens
      BY <2>6 DEF ServerOpens, Passes
    <2>7. ASSUME NEW i, NEW n, ClientSends(i, n)
          PROVE  Passes(cSock, cSock') /\ Passes(sWriteBuf, sWriteBuf')
      BY <1>6, <2>7 DEF ClientSends, Passes
    <2>8. ASSUME NEW i, NEW n, ServerSends(i, n)
          PROVE  Passes(cSock, cSock') /\ Passes(sWriteBuf, sWriteBuf')
      BY <1>6, <2>8 DEF ServerSends, Passes
    <2>9. CASE ServerTakesData
      BY <1>4, <2>9 DEF ServerTakesData, Passes
    <2>10. CASE ClientTakesData
      BY <1>4, <2>10 DEF ClientTakesData, Passes
    <2>11. CASE ServerCredited \/ ClientCredited
      BY <2>11 DEF ServerCredited, ClientCredited, Passes
    <2> QED
      BY <2>1, <2>2, <2>3, <2>4, <2>5, <2>6, <2>7, <2>8, <2>9, <2>10, <2>11 DEF Moves
  <1> QED
    BY <1>1, <1>7, PassesSound DEF FramesSound

\* The client's byte stream and its streams after a step that opens none.
LEMMA OpeningStays ==
    ASSUME NEW buf \in Seq(FrameType), NEW opened, NEW known, Opening(buf, opened, known)
    PROVE  /\ \A f \in FrameType : f.type \notin {"HEADERS", "DATA"} =>
                 Opening(Append(buf, f), opened, known)
           /\ \A f \in FrameType : f.type = "DATA" /\ f.id \in opened =>
                 Opening(Append(buf, f), opened, known)
           /\ buf # <<>> /\ buf[1].type # "HEADERS" => Opening(Tail(buf), opened, known)
  <1>1. ASSUME NEW f \in FrameType, f.type # "HEADERS", f.type = "DATA" => f.id \in opened
        PROVE  Opening(Append(buf, f), opened, known)
    BY <1>1, OpeningAppended
  <1>2. ASSUME buf # <<>>, buf[1].type # "HEADERS" PROVE Opening(Tail(buf), opened, known)
    BY <1>2, OpeningTaken
  <1> QED
    BY <1>1, <1>2

\* The two ends agree on the streams there are, whatever is under way.
LEMMA StreamsKnownKept ==
    ASSUME LinkInv, Moves
    PROVE  StreamsKnown'
  <1>1. PICK cs, ss : cs = DOMAIN cStreams /\ ss = DOMAIN sStreams
    OBVIOUS
  <1>2. /\ cSock \in Seq(FrameType) /\ sWriteBuf \in Seq(FrameType)
        /\ Opening(cSock, cs, ss) /\ Answering(sWriteBuf, ss)
    BY <1>1, Typed DEF LinkInv, StreamsKnown
  <1>3. /\ \A f \in FrameType :
              f.type \notin {"HEADERS", "DATA"} => Opening(Append(cSock, f), cs, ss)
        /\ \A f \in FrameType : f.type = "DATA" /\ f.id \in cs => Opening(Append(cSock, f), cs, ss)
        /\ cSock # <<>> /\ cSock[1].type # "HEADERS" => Opening(Tail(cSock), cs, ss)
    BY <1>2, OpeningStays
  <1>4. /\ \A f \in FrameType : f.type # "DATA" => Answering(Append(sWriteBuf, f), ss)
        /\ \A f \in FrameType : f.id \in ss => Answering(Append(sWriteBuf, f), ss)
        /\ sWriteBuf # <<>> => Answering(Tail(sWriteBuf), ss)
    <2>1. ss \subseteq ss
      OBVIOUS
    <2> QED
      BY <1>2, <2>1, AnsweringKept
  <1>5. \A f : Control(f) => f \in FrameType /\ f.type \notin {"HEADERS", "DATA"}
    BY DEF Plain, Control
  <1>6. \A f : Plain(f) => f \in FrameType /\ f.type # "DATA"
    BY DEF Plain
  <1>7. \A f : Refill(f) => f \in FrameType /\ f.type \notin {"HEADERS", "DATA"}
    BY DEF Refill
  <1>8. CASE /\ Opening(cSock', cs, ss) /\ Answering(sWriteBuf', ss)
             /\ DOMAIN cStreams' = cs /\ DOMAIN sStreams' = ss
    BY <1>8 DEF StreamsKnown
  <1>9. CASE ClientWrites
    <2>1. ASSUME NEW a, NEW b, Control(a), Control(b), cSock' = Append(Append(cSock, a), b)
          PROVE  Opening(cSock', cs, ss)
      <3>1. PICK mid : mid = Append(cSock, a)
        OBVIOUS
      <3>2. mid \in Seq(FrameType) /\ Opening(mid, cs, ss)
        BY <1>2, <1>3, <1>5, <2>1, <3>1, FrameAdded
      <3> QED
        BY <1>5, <2>1, <3>1, <3>2, OpeningStays
    <2>2. Opening(cSock', cs, ss)
      BY <1>2, <1>9, <2>1 DEF ClientWrites
    <2> QED
      BY <1>1, <1>2, <1>8, <1>9, <2>2
         DEF ClientWrites, ClientStill, ServerStill, C!WindowsStay, S!WindowsStay
  <1>10. CASE ServerWrites
    BY <1>1, <1>2, <1>4, <1>6, <1>8, <1>10
       DEF ServerWrites, ClientStill, ServerStill, C!WindowsStay, S!WindowsStay
  <1>11. CASE ServerTakesPlain
    BY <1>1, <1>2, <1>3, <1>4, <1>5, <1>6, <1>8, <1>11
       DEF ServerTakesPlain, ClientStill, ServerStill, C!WindowsStay, S!WindowsStay
  <1>12. CASE ClientTakesPlain
    BY <1>1, <1>2, <1>3, <1>4, <1>5, <1>8, <1>12
       DEF ClientTakesPlain, ClientStill, ServerStill, C!WindowsStay, S!WindowsStay
  <1>13. CASE ClientOpens
    <2>1. PICK f \in FrameType : /\ f.type = "HEADERS" /\ cSock' = Append(cSock, f)
                                 /\ DOMAIN cStreams' = DOMAIN cStreams \cup {f.id}
      BY <1>13 DEF ClientOpens
    <2>2. PICK more : more = cs \cup {f.id}
      OBVIOUS
    <2>3. Opening(cSock', more, ss)
      BY <1>2, <2>1, <2>2, OpeningAppended
    <2> QED
      BY <1>1, <1>2, <1>13, <2>1, <2>2, <2>3
         DEF ClientOpens, ServerStill, S!WindowsStay, StreamsKnown
  <1>14. CASE ServerOpens
    <2>1. PICK more : more = ss \cup {cSock[1].id}
      OBVIOUS
    <2>2. Opening(cSock', cs, more)
      BY <1>2, <1>14, <2>1, OpeningTaken DEF ServerOpens
    <2>3. Answering(sWriteBuf', more)
      BY <1>2, <1>14, <2>1, AnsweringKept DEF ServerOpens
    <2> QED
      BY <1>1, <1>14, <2>1, <2>2, <2>3 DEF ServerOpens, ClientStill, C!WindowsStay, StreamsKnown
  <1>15. ASSUME NEW i \in cs, NEW n, ClientSends(i, n) PROVE StreamsKnown'
    BY <1>1, <1>2, <1>3, <1>8, <1>15 DEF ClientSends, ServerStill, S!WindowsStay
  <1>16. ASSUME NEW i \in ss, NEW n, ServerSends(i, n) PROVE StreamsKnown'
    BY <1>1, <1>2, <1>4, <1>8, <1>16 DEF ServerSends, ClientStill, C!WindowsStay
  <1>17. CASE ServerTakesData
    <2>1. Opening(cSock', cs, ss)
      BY <1>3, <1>17 DEF ServerTakesData
    <2>2. Answering(sWriteBuf', ss)
      BY <1>2, <1>4, <1>7, <1>17 DEF ServerTakesData
    <2> QED
      BY <1>1, <1>8, <1>17, <2>1, <2>2 DEF ServerTakesData, ClientStill, C!WindowsStay
  <1>18. CASE ClientTakesData
    BY <1>1, <1>2, <1>3, <1>4, <1>7, <1>8, <1>18 DEF ClientTakesData, ServerStill, S!WindowsStay
  <1>19. CASE ServerCredited
    BY <1>1, <1>2, <1>3, <1>8, <1>19
       DEF ServerCredited, ClientStill, C!WindowsStay, S!WindowsStay
  <1>20. CASE ClientCredited
    BY <1>1, <1>2, <1>4, <1>8, <1>20
       DEF ClientCredited, ServerStill, C!WindowsStay, S!WindowsStay
  <1> QED
    BY <1>1, <1>9, <1>10, <1>11, <1>12, <1>13, <1>14, <1>15, <1>16, <1>17, <1>18, <1>19, <1>20
       DEF Moves
-------------------------------------------------------------------------------
\* DATA under way that joins or leaves a byte stream counts for its own stream alone.
LEMMA DataJoins ==
    ASSUME NEW buf \in Seq(FrameType), NEW f \in FrameType, f.type = "DATA"
    PROVE  /\ InFlight(Append(buf, f), "DATA", f.id) = InFlight(buf, "DATA", f.id) + f.n
           /\ \A j : j # f.id => InFlight(Append(buf, f), "DATA", j) = InFlight(buf, "DATA", j)
  <1>1. \A j : InFlight(Append(buf, f), "DATA", j) = InFlight(buf, "DATA", j) + DataOn(f, j)
    BY FrameAdded
  <1>2. DataOn(f, f.id) = f.n /\ \A j : j # f.id => DataOn(f, j) = 0
    BY DEF DataOn
  <1>3. \A j : InFlight(buf, "DATA", j) \in Nat
    BY UnderWayType
  <1> QED
    BY <1>1, <1>2, <1>3

\* The same of DATA that leaves.
LEMMA DataLeaves ==
    ASSUME NEW buf \in Seq(FrameType), buf # <<>>, buf[1].type = "DATA"
    PROVE  /\ buf[1].n \in Nat /\ Tail(buf) \in Seq(FrameType)
           /\ InFlight(buf, "DATA", buf[1].id) = buf[1].n + InFlight(Tail(buf), "DATA", buf[1].id)
           /\ \A j : j # buf[1].id => InFlight(buf, "DATA", j) = InFlight(Tail(buf), "DATA", j)
  <1>1. /\ buf[1] \in FrameType /\ Tail(buf) \in Seq(FrameType)
        /\ \A j : InFlight(buf, "DATA", j) = DataOn(buf[1], j) + InFlight(Tail(buf), "DATA", j)
    BY FrameTaken
  <1>2. DataOn(buf[1], buf[1].id) = buf[1].n /\ \A j : j # buf[1].id => DataOn(buf[1], j) = 0
    BY DEF DataOn
  <1>3. \A j : InFlight(Tail(buf), "DATA", j) \in Nat
    BY <1>1, UnderWayType
  <1>4. buf[1].n \in Nat
    BY <1>1 DEF FrameType, C!FrameType
  <1> QED
    BY <1>1, <1>2, <1>3, <1>4

\* A frame that is no DATA joins or leaves.
LEMMA SameUnderWay ==
    ASSUME NEW buf \in Seq(FrameType)
    PROVE  /\ \A f \in FrameType : f.type # "DATA" =>
                 \A j : InFlight(Append(buf, f), "DATA", j) = InFlight(buf, "DATA", j)
           /\ buf # <<>> /\ buf[1].type # "DATA" =>
                 \A j : InFlight(Tail(buf), "DATA", j) = InFlight(buf, "DATA", j)
  <1>1. ASSUME NEW f \in FrameType, f.type # "DATA", NEW j
        PROVE  InFlight(Append(buf, f), "DATA", j) = InFlight(buf, "DATA", j)
    <2>1. InFlight(Append(buf, f), "DATA", j) = InFlight(buf, "DATA", j) + DataOn(f, j)
      BY FrameAdded
    <2>2. DataOn(f, j) = 0 /\ InFlight(buf, "DATA", j) \in Nat
      BY <1>1, UnderWayType DEF DataOn
    <2> QED
      BY <2>1, <2>2
  <1>2. ASSUME buf # <<>>, buf[1].type # "DATA", NEW j
        PROVE  InFlight(Tail(buf), "DATA", j) = InFlight(buf, "DATA", j)
    <2>1. /\ Tail(buf) \in Seq(FrameType)
          /\ InFlight(buf, "DATA", j) = DataOn(buf[1], j) + InFlight(Tail(buf), "DATA", j)
      BY <1>2, FrameTaken
    <2>2. DataOn(buf[1], j) = 0 /\ InFlight(Tail(buf), "DATA", j) \in Nat
      BY <1>2, <2>1, UnderWayType DEF DataOn
    <2> QED
      BY <2>1, <2>2
  <1> QED
    BY <1>1, <1>2

\* The windows at the two ends of every stream stay in step with what is under way.
LEMMA WindowsKept ==
    ASSUME LinkInv, Moves
    PROVE  StreamWindows'
  <1>1. /\ cSock \in Seq(FrameType) /\ sWriteBuf \in Seq(FrameType)
        /\ StreamWindows /\ StreamsKnown
    BY Typed DEF LinkInv
  <1>2. \A i \in DOMAIN cStreams :
           /\ cStreams[i].sendWindow \in Int /\ cStreams[i].recvWindow \in Int
           /\ InFlight(cSock, "DATA", i) \in Nat /\ InFlight(sWriteBuf, "DATA", i) \in Nat
    <2>1. C!CoreTypeOK
      BY Typed
    <2>2. \A i \in DOMAIN cStreams :
             cStreams[i].sendWindow \in Int /\ cStreams[i].recvWindow \in Int
      BY <2>1 DEF C!CoreTypeOK, C!StreamType, C!I32, C!I32Min
    <2> QED
      BY <1>1, <2>2, UnderWayType
  <1>3. \A i \in DOMAIN sStreams : sStreams[i].sendWindow \in Int /\ sStreams[i].recvWindow \in Int
    <2>1. S!CoreTypeOK
      BY Typed
    <2> QED
      BY <2>1 DEF S!CoreTypeOK, S!StreamType, S!I32, S!I32Min
  <1>4. DOMAIN sStreams \subseteq DOMAIN cStreams
    BY <1>1 DEF StreamsKnown, Opening
  <1>5. ASSUME C!WindowsStay, S!WindowsStay,
               \A j : InFlight(cSock', "DATA", j) = InFlight(cSock, "DATA", j),
               \A j : InFlight(sWriteBuf', "DATA", j) = InFlight(sWriteBuf, "DATA", j)
        PROVE  StreamWindows'
    BY <1>1, <1>4, <1>5 DEF StreamWindows, C!WindowsStay, S!WindowsStay
  <1>6. CASE ClientWrites \/ ServerWrites \/ ServerTakesPlain \/ ClientTakesPlain
    <2>1. Kept(cSock, cSock') /\ Kept(sWriteBuf, sWriteBuf')
      BY <1>6, StillAccounts DEF StillMoves
    <2> QED
      BY <1>5, <1>6, <2>1
         DEF Kept, ClientWrites, ServerWrites, ServerTakesPlain, ClientTakesPlain,
             ClientStill, ServerStill
  <1>7. CASE ServerCredited
    <2>1. \A j : InFlight(cSock', "DATA", j) = InFlight(cSock, "DATA", j)
      BY <1>1, <1>7, SameUnderWay DEF ServerCredited
    <2> QED
      BY <1>5, <1>7, <2>1 DEF ServerCredited, ClientStill
  <1>8. CASE ClientCredited
    <2>1. \A j : InFlight(sWriteBuf', "DATA", j) = InFlight(sWriteBuf, "DATA", j)
      BY <1>1, <1>8, SameUnderWay DEF ClientCredited
    <2> QED
      BY <1>5, <1>8, <2>1 DEF ClientCredited, ServerStill
  <1>9. CASE ClientOpens
    <2>1. PICK f \in FrameType :
             /\ f.type = "HEADERS" /\ f.id \notin DOMAIN cStreams
             /\ cSock' = Append(cSock, f)
             /\ DOMAIN cStreams' = DOMAIN cStreams \cup {f.id}
             /\ cStreams'[f.id].sendWindow = DefaultWindow
             /\ cStreams'[f.id].recvWindow = DefaultWindow
             /\ \A j \in DOMAIN cStreams : cStreams'[j] = cStreams[j]
      BY <1>9 DEF ClientOpens
    <2>2. \A j : InFlight(cSock', "DATA", j) = InFlight(cSock, "DATA", j)
      BY <1>1, <2>1, SameUnderWay
    <2>3. sWriteBuf' = sWriteBuf /\ S!WindowsStay
      BY <1>9 DEF ClientOpens, ServerStill
    <2>4. InFlight(cSock, "DATA", f.id) = 0
      <3>1. \A k \in DOMAIN cSock : ~(cSock[k].type = "DATA" /\ cSock[k].id = f.id)
        BY <1>1, <2>1 DEF StreamsKnown, Opening
      <3> QED
        BY <1>1, <3>1, NoneUnderWay
    <2>5. f.id \notin DOMAIN sStreams'
      BY <1>4, <2>1, <2>3 DEF S!WindowsStay
    <2>6. DefaultWindow \in Nat
      BY LinkConstants
    <2>7. ASSUME NEW i \in DOMAIN cStreams
          PROVE  /\ cStreams'[i].sendWindow >= 0
                 /\ i \in DOMAIN sStreams' =>
                       /\ cStreams'[i].sendWindow
                              = sStreams'[i].recvWindow - InFlight(cSock', "DATA", i)
                       /\ sStreams'[i].sendWindow >= 0
                       /\ sStreams'[i].sendWindow
                              = cStreams'[i].recvWindow - InFlight(sWriteBuf', "DATA", i)
                 /\ i \notin DOMAIN sStreams' =>
                       /\ cStreams'[i].sendWindow = DefaultWindow - InFlight(cSock', "DATA", i)
                       /\ cStreams'[i].recvWindow = DefaultWindow
      BY <1>1, <2>1, <2>2, <2>3 DEF StreamWindows, S!WindowsStay
    <2> QED
      BY <2>1, <2>2, <2>4, <2>5, <2>6, <2>7 DEF StreamWindows
  <1>10. CASE ServerOpens
    <2>1. PICK h : h = cSock[1].id
      OBVIOUS
    <2>2. /\ h \notin DOMAIN sStreams /\ h \in DOMAIN cStreams
          /\ DOMAIN sStreams' = DOMAIN sStreams \cup {h}
          /\ sStreams'[h].sendWindow = DefaultWindow /\ sStreams'[h].recvWindow = DefaultWindow
          /\ \A j \in DOMAIN sStreams : sStreams'[j] = sStreams[j]
      BY <1>10, <2>1 DEF ServerOpens
    <2>3. C!WindowsStay /\ sWriteBuf' = sWriteBuf
      BY <1>10 DEF ServerOpens, ClientStill
    <2>4. \A j : InFlight(cSock', "DATA", j) = InFlight(cSock, "DATA", j)
      BY <1>1, <1>10, SameUnderWay DEF ServerOpens
    <2>5. InFlight(sWriteBuf, "DATA", h) = 0
      <3>1. \A k \in DOMAIN sWriteBuf : ~(sWriteBuf[k].type = "DATA" /\ sWriteBuf[k].id = h)
        BY <1>1, <2>2 DEF StreamsKnown, Answering
      <3> QED
        BY <1>1, <3>1, NoneUnderWay
    <2>6. DefaultWindow \in Nat
      BY LinkConstants
    <2>7. /\ cStreams'[h].sendWindow >= 0 /\ cStreams'[h].recvWindow = DefaultWindow
          /\ cStreams'[h].sendWindow = DefaultWindow - InFlight(cSock', "DATA", h)
      BY <1>1, <2>2, <2>3, <2>4 DEF StreamWindows, C!WindowsStay
    <2>8. ASSUME NEW i \in DOMAIN cStreams, i # h
          PROVE  /\ cStreams'[i].sendWindow >= 0
                 /\ i \in DOMAIN sStreams' =>
                       /\ cStreams'[i].sendWindow
                              = sStreams'[i].recvWindow - InFlight(cSock', "DATA", i)
                       /\ sStreams'[i].sendWindow >= 0
                       /\ sStreams'[i].sendWindow
                              = cStreams'[i].recvWindow - InFlight(sWriteBuf', "DATA", i)
                 /\ i \notin DOMAIN sStreams' =>
                       /\ cStreams'[i].sendWindow = DefaultWindow - InFlight(cSock', "DATA", i)
                       /\ cStreams'[i].recvWindow = DefaultWindow
      BY <1>1, <2>2, <2>3, <2>4, <2>8 DEF StreamWindows, C!WindowsStay
    <2>9. sStreams'[h].sendWindow = cStreams'[h].recvWindow - InFlight(sWriteBuf', "DATA", h)
      BY <2>2, <2>3, <2>5, <2>6, <2>7
    <2> QED
      BY <2>2, <2>3, <2>6, <2>7, <2>8, <2>9 DEF StreamWindows, C!WindowsStay
  <1>11. ASSUME NEW i \in DOMAIN cStreams, NEW n \in Nat, ClientSends(i, n) PROVE StreamWindows'
    <2>1. PICK f \in FrameType : f.type = "DATA" /\ f.id = i /\ f.n = n /\ cSock' = Append(cSock, f)
      BY <1>11 DEF ClientSends
    <2>2. /\ InFlight(cSock', "DATA", i) = InFlight(cSock, "DATA", i) + n
          /\ \A j : j # i => InFlight(cSock', "DATA", j) = InFlight(cSock, "DATA", j)
      BY <1>1, <2>1, DataJoins
    <2>3. sWriteBuf' = sWriteBuf /\ S!WindowsStay
      BY <1>11 DEF ClientSends, ServerStill
    <2>4. /\ DOMAIN cStreams' = DOMAIN cStreams
          /\ \A j \in DOMAIN cStreams : cStreams'[j].recvWindow = cStreams[j].recvWindow
          /\ \A j \in DOMAIN cStreams \ {i} : cStreams'[j].sendWindow = cStreams[j].sendWindow
          /\ n <= cStreams[i].sendWindow
          /\ cStreams'[i].sendWindow = cStreams[i].sendWindow - n
      BY <1>11 DEF ClientSends
    <2>5. cStreams'[i].sendWindow >= 0
      BY <1>2, <2>4
    <2>6. i \in DOMAIN sStreams =>
             cStreams'[i].sendWindow = sStreams[i].recvWindow - InFlight(cSock', "DATA", i)
      BY <1>1, <1>2, <1>3, <2>2, <2>4 DEF StreamWindows
    <2>7. i \notin DOMAIN sStreams =>
             cStreams'[i].sendWindow = DefaultWindow - InFlight(cSock', "DATA", i)
      BY <1>1, <1>2, <2>2, <2>4, LinkConstants DEF StreamWindows
    <2> QED
      BY <1>1, <1>4, <2>2, <2>3, <2>4, <2>5, <2>6, <2>7 DEF StreamWindows, S!WindowsStay
  <1>12. ASSUME NEW i \in DOMAIN sStreams, NEW n \in Nat, ServerSends(i, n) PROVE StreamWindows'
    <2>1. PICK f \in FrameType : /\ f.type = "DATA" /\ f.id = i /\ f.n = n
                                 /\ sWriteBuf' = Append(sWriteBuf, f)
      BY <1>12 DEF ServerSends
    <2>2. /\ InFlight(sWriteBuf', "DATA", i) = InFlight(sWriteBuf, "DATA", i) + n
          /\ \A j : j # i => InFlight(sWriteBuf', "DATA", j) = InFlight(sWriteBuf, "DATA", j)
      BY <1>1, <2>1, DataJoins
    <2>3. cSock' = cSock /\ C!WindowsStay
      BY <1>12 DEF ServerSends, ClientStill
    <2>4. /\ DOMAIN sStreams' = DOMAIN sStreams
          /\ \A j \in DOMAIN sStreams : sStreams'[j].recvWindow = sStreams[j].recvWindow
          /\ \A j \in DOMAIN sStreams \ {i} : sStreams'[j].sendWindow = sStreams[j].sendWindow
          /\ n <= sStreams[i].sendWindow
          /\ sStreams'[i].sendWindow = sStreams[i].sendWindow - n
      BY <1>12 DEF ServerSends
    <2>5. sStreams'[i].sendWindow >= 0
      BY <1>3, <2>4
    <2>6. sStreams'[i].sendWindow = cStreams[i].recvWindow - InFlight(sWriteBuf', "DATA", i)
      BY <1>1, <1>2, <1>3, <1>4, <2>2, <2>4 DEF StreamWindows
    <2> QED
      BY <1>1, <1>4, <2>2, <2>3, <2>4, <2>5, <2>6 DEF StreamWindows, C!WindowsStay
  <1>13. CASE ServerTakesData
    <2>1. PICK i, n : i = cSock[1].id /\ n = cSock[1].n
      OBVIOUS
    <2>2. /\ cSock # <<>> /\ cSock[1].type = "DATA" /\ cSock' = Tail(cSock) /\ C!WindowsStay
          /\ i \in DOMAIN sStreams /\ DOMAIN sStreams' = DOMAIN sStreams
          /\ \A j \in DOMAIN sStreams : sStreams'[j].sendWindow = sStreams[j].sendWindow
          /\ \A j \in DOMAIN sStreams \ {i} : sStreams'[j].recvWindow = sStreams[j].recvWindow
          /\ sStreams'[i].recvWindow = sStreams[i].recvWindow - n
      BY <1>13, <2>1 DEF ServerTakesData, ClientStill
    <2>3. /\ n \in Nat /\ cSock' \in Seq(FrameType)
          /\ InFlight(cSock, "DATA", i) = n + InFlight(cSock', "DATA", i)
          /\ \A j : j # i => InFlight(cSock', "DATA", j) = InFlight(cSock, "DATA", j)
      BY <1>1, <2>1, <2>2, DataLeaves
    <2>4. \A j : InFlight(sWriteBuf', "DATA", j) = InFlight(sWriteBuf, "DATA", j)
      BY <1>1, <1>13, SameUnderWay DEF ServerTakesData, Refill
    <2>5. InFlight(cSock', "DATA", i) \in Nat
      BY <2>3, UnderWayType
    <2>6. cStreams[i].sendWindow = sStreams'[i].recvWindow - InFlight(cSock', "DATA", i)
      BY <1>1, <1>2, <1>3, <1>4, <2>2, <2>3, <2>5 DEF StreamWindows
    <2> QED
      BY <1>1, <1>4, <2>2, <2>3, <2>4, <2>6 DEF StreamWindows, C!WindowsStay
  <1>14. CASE ClientTakesData
    <2>1. PICK i, n : i = sWriteBuf[1].id /\ n = sWriteBuf[1].n
      OBVIOUS
    <2>2. /\ sWriteBuf # <<>> /\ sWriteBuf[1].type = "DATA" /\ sWriteBuf' = Tail(sWriteBuf)
          /\ S!WindowsStay /\ i \in DOMAIN sStreams /\ DOMAIN cStreams' = DOMAIN cStreams
          /\ \A j \in DOMAIN cStreams : cStreams'[j].sendWindow = cStreams[j].sendWindow
          /\ \A j \in DOMAIN cStreams \ {i} : cStreams'[j].recvWindow = cStreams[j].recvWindow
          /\ cStreams'[i].recvWindow = cStreams[i].recvWindow - n
      BY <1>14, <2>1 DEF ClientTakesData, ServerStill
    <2>3. /\ n \in Nat /\ sWriteBuf' \in Seq(FrameType)
          /\ InFlight(sWriteBuf, "DATA", i) = n + InFlight(sWriteBuf', "DATA", i)
          /\ \A j : j # i => InFlight(sWriteBuf', "DATA", j) = InFlight(sWriteBuf, "DATA", j)
      BY <1>1, <2>1, <2>2, DataLeaves
    <2>4. \A j : InFlight(cSock', "DATA", j) = InFlight(cSock, "DATA", j)
      BY <1>1, <1>14, SameUnderWay DEF ClientTakesData, Refill
    <2>5. InFlight(sWriteBuf', "DATA", i) \in Nat
      BY <2>3, UnderWayType
    <2>6. sStreams[i].sendWindow = cStreams'[i].recvWindow - InFlight(sWriteBuf', "DATA", i)
      BY <1>1, <1>2, <1>3, <1>4, <2>2, <2>3, <2>5 DEF StreamWindows
    <2> QED
      BY <1>1, <1>4, <2>2, <2>3, <2>4, <2>6 DEF StreamWindows, S!WindowsStay
  <1> QED
    BY <1>6, <1>7, <1>8, <1>9, <1>10, <1>11, <1>12, <1>13, <1>14 DEF Moves
-------------------------------------------------------------------------------
(***************************************************************************)
(* The messages that the applications hand over                            *)
(***************************************************************************)
PartType == {"headers", "byte", "end", "reset"}

\* Parts that an application adds to a message.
LEMMA SaidMore ==
    ASSUME NEW msg \in Seq(PartType), NEW parts \in Seq(PartType)
    PROVE  /\ msg \o parts \in Seq(PartType)
           /\ Len(msg) \in Nat /\ Len(parts) \in Nat
           /\ Len(msg \o parts) = Len(msg) + Len(parts)
           /\ Finished(parts) => Finished(msg \o parts)
  <1>1. Len(msg) \in Nat /\ Len(parts) \in Nat /\ DOMAIN parts = 1 .. Len(parts)
    BY LenProperties
  <1>2. /\ msg \o parts \in Seq(PartType) /\ Len(msg \o parts) = Len(msg) + Len(parts)
        /\ \A k \in 1 .. Len(msg) + Len(parts) :
              (msg \o parts)[k] = IF k <= Len(msg) THEN msg[k] ELSE parts[k - Len(msg)]
    BY ConcatProperties
  <1>3. ASSUME Finished(parts) PROVE Finished(msg \o parts)
    <2>1. parts # <<>> /\ parts[Len(parts)] \in {"end", "reset"}
      BY <1>3 DEF Finished, EndsIn
    <2>2. Len(parts) > 0
      BY <1>1, <2>1, EmptySeq
    <2>3. PICK whole, m, n : whole = msg \o parts /\ m = Len(msg) /\ n = Len(parts)
      OBVIOUS
    <2>4. whole[m + n] = parts[n]
      <3>1. /\ m \in Nat /\ n \in Nat /\ n > 0
              /\ m + n \in 1 .. m + n /\ ~(m + n <= m) /\ (m + n) - m = n
        BY <1>1, <2>2, <2>3
      <3> QED
        BY <1>2, <2>3, <3>1
    <2>5. Len(whole) = m + n /\ m + n > 0 /\ whole \in Seq(PartType)
      BY <1>1, <1>2, <2>2, <2>3
    <2>6. whole # <<>>
      BY <2>5, EmptySeq
    <2> QED
      BY <2>1, <2>3, <2>4, <2>5, <2>6 DEF Finished, EndsIn
  <1> QED
    BY <1>1, <1>2, <1>3

\* The parts that are written with one frame.
LEMMA PartsType ==
    ASSUME NEW n \in Nat, NEW end \in BOOLEAN
    PROVE  /\ Bytes(n) \o EndPart(end) \in Seq(PartType)
           /\ IF end THEN Finished(Bytes(n) \o EndPart(end)) ELSE Len(Bytes(n) \o EndPart(end)) = n
           /\ <<"headers">> \o EndPart(end) \in Seq(PartType)
           /\ IF end THEN Finished(<<"headers">> \o EndPart(end))
                     ELSE Len(<<"headers">> \o EndPart(end)) = 1
           /\ <<"reset">> \in Seq(PartType) /\ Finished(<<"reset">>)
  <1>1. Bytes(n) \in Seq(PartType) /\ Len(Bytes(n)) = n
    <2>1. Bytes(n) \in [1 .. n -> PartType]
      BY DEF Bytes, PartType
    <2> QED
      BY <2>1, IsASeq
  <1>2. /\ <<"headers">> \in Seq(PartType) /\ Len(<<"headers">>) = 1
        /\ <<"reset">> \in Seq(PartType) /\ Finished(<<"reset">>)
    BY DEF PartType, Finished, EndsIn
  <1>3. CASE end
    <2>1. EndPart(end) \in Seq(PartType) /\ Finished(EndPart(end))
      BY <1>3 DEF EndPart, PartType, Finished, EndsIn
    <2> QED
      BY <1>1, <1>2, <1>3, <2>1, SaidMore
  <1>4. CASE ~end
    <2>1. EndPart(end) \in Seq(PartType) /\ Len(EndPart(end)) = 0
      BY <1>4 DEF EndPart
    <2> QED
      BY <1>1, <1>2, <1>4, <2>1, SaidMore
  <1> QED
    BY <1>3, <1>4

\* A message that is added to, by no more than is left of it.
LEMMA SayKeeps ==
    ASSUME BodiesKept, NEW d \in Up \cup Down, ~Finished(said[d]),
           NEW parts \in Seq(PartType), Say(d, parts),
           ~Finished(parts) => Len(said[d]) + Len(parts) <= Body(d) + 1
    PROVE  /\ said' \in [Up \cup Down -> Seq(PartType)]
           /\ \A e \in Up \cup Down : ~Finished(said'[e]) => Len(said'[e]) <= Body(e) + 1
           /\ \A e \in Up \cup Down : e # d => said'[e] = said[e]
  <1>1. said \in [Up \cup Down -> Seq(PartType)]
    BY DEF BodiesKept, PartType
  <1>2. /\ said[d] \o parts \in Seq(PartType)
        /\ Len(said[d] \o parts) = Len(said[d]) + Len(parts)
        /\ Finished(parts) => Finished(said[d] \o parts)
    BY <1>1, SaidMore
  <1>3. said' = [said EXCEPT ![d] = said[d] \o parts]
    BY <1>1 DEF Say
  <1>4. said'[d] = said[d] \o parts /\ \A e \in Up \cup Down : e # d => said'[e] = said[e]
    BY <1>1, <1>3
  <1>5. said' \in [Up \cup Down -> Seq(PartType)]
    BY <1>1, <1>2, <1>3
  <1>6. ASSUME NEW e \in Up \cup Down, ~Finished(said'[e]) PROVE Len(said'[e]) <= Body(e) + 1
    BY <1>2, <1>4, <1>6 DEF BodiesKept
  <1> QED
    BY <1>4, <1>5, <1>6

\* Only a request takes an id.
LEMMA NextIdStays ==
    ASSUME [Next]_vars, ~Ask
    PROVE  cNextStreamId' = cNextStreamId
  <1>1. CASE UNCHANGED vars
    BY <1>1 DEF vars, clientVars
  <1>2. CASE ClientReady
    BY <1>2 DEF ClientReady, Client!OnTransportReady
  <1>3. CASE ClientPolls
    BY <1>3 DEF ClientPolls, Client!PollEvents
  <1>4. CASE ServerPolls \/ GoAway
    BY <1>4 DEF ServerPolls, GoAway, clientVars
  <1>5. ASSUME NEW i \in Ids, Upload(i) PROVE cNextStreamId' = cNextStreamId
    BY <1>5 DEF Upload, Client!SendData
  <1>6. ASSUME NEW i \in Ids, Answer(i) \/ Respond(i) \/ Reset(i)
        PROVE  cNextStreamId' = cNextStreamId
    BY <1>6 DEF Answer, Respond, Reset, clientVars
  <1>7. CASE ToServer
    BY <1>7 DEF ToServer, Client!AdvanceSend
  <1>8. CASE ToClient
    BY <1>8 DEF ToClient, ClientTakes, Client!RecvSettings, Client!RecvHeaders, Client!RecvData,
                Client!RecvWindowUpdate, Client!RecvRstStream, Client!RecvGoAway,
                Client!CanReceive, clientVars
  <1> QED
    BY <1>1, <1>2, <1>3, <1>4, <1>5, <1>6, <1>7, <1>8 DEF Next, Work, Refuse

\* Nobody says more than the body that the exchange has.
LEMMA BodiesStay ==
    ASSUME LinkInv, [Next]_vars
    PROVE  BodiesKept'
  <1>1. BodiesKept
    BY DEF LinkInv
  <1>2. cNextStreamId \in Nat
    BY LinkConstants DEF LinkInv, ClientAlone, C!TypeOK, C!U31
  <1>3. CASE Ask
    <2>1. PICK i, d : i = cNextStreamId /\ d = <<"up", i>>
      OBVIOUS
    <2>2. PICK end \in BOOLEAN : end = (Body(d) = 0)
      OBVIOUS
    <2>3. i \in Ids /\ Say(d, <<"headers">> \o EndPart(end))
      BY <1>3, <2>1, <2>2 DEF Ask
    <2>4. d \in Up \cup Down /\ Body(d) \in Nat
      BY <2>1, <2>3, Bodies
    <2>5. said[d] = <<>>
      BY <1>1, <1>2, <2>1, <2>3 DEF BodiesKept
    <2>6. ~Finished(said[d]) /\ Len(said[d]) = 0
      BY <2>5 DEF Finished, EndsIn
    <2>7. PICK parts : parts = <<"headers">> \o EndPart(end)
      OBVIOUS
    <2>8. parts \in Seq(PartType) /\ IF end THEN Finished(parts) ELSE Len(parts) = 1
      <3>1. 0 \in Nat
        OBVIOUS
      <3> QED
        BY <2>7, <3>1, PartsType
    <2>9. ~Finished(parts) => Len(said[d]) + Len(parts) <= Body(d) + 1
      <3>1. ~Finished(parts) => Len(parts) = 1
        BY <2>8
      <3>2. PICK b \in Nat : b = Body(d)
        BY <2>4
      <3>3. 0 + 1 <= b + 1
        BY <3>2
      <3> QED
        BY <2>6, <3>1, <3>2, <3>3
    <2>10. /\ said' \in [Up \cup Down -> Seq(PartType)]
           /\ \A e \in Up \cup Down : ~Finished(said'[e]) => Len(said'[e]) <= Body(e) + 1
           /\ \A e \in Up \cup Down : e # d => said'[e] = said[e]
      BY <1>1, <2>3, <2>4, <2>6, <2>7, <2>8, <2>9, SayKeeps
    <2>11. cNextStreamId' = cNextStreamId + 2
      BY <1>3, AskMove
    <2>12. ASSUME NEW j \in Ids, j >= cNextStreamId' PROVE said'[<<"up", j>>] = <<>>
      <3>1. j \in Nat /\ <<"up", j>> \in Up \cup Down
        BY Bodies
      <3>2. j >= cNextStreamId /\ j # i
        BY <1>2, <2>1, <2>11, <2>12, <3>1
      <3>3. said[<<"up", j>>] = <<>> /\ <<"up", j>> # d
        BY <1>1, <2>1, <3>2 DEF BodiesKept
      <3> QED
        BY <2>10, <3>1, <3>3
    <2> QED
      BY <2>10, <2>12 DEF BodiesKept, PartType
  <1>4. ASSUME ~Ask, NEW i \in Ids, NEW d \in {<<"up", i>>, <<"down", i>>},
               ~Finished(said[d]), d = <<"up", i>> => said[d] # <<>>,
               NEW parts \in Seq(PartType), Say(d, parts),
               ~Finished(parts) => Len(said[d]) + Len(parts) <= Body(d) + 1
        PROVE  BodiesKept'
    <2>1. d \in Up \cup Down
      BY Bodies
    <2>2. /\ said' \in [Up \cup Down -> Seq(PartType)]
          /\ \A e \in Up \cup Down : ~Finished(said'[e]) => Len(said'[e]) <= Body(e) + 1
          /\ \A e \in Up \cup Down : e # d => said'[e] = said[e]
      BY <1>1, <1>4, <2>1, SayKeeps
    <2>3. cNextStreamId' = cNextStreamId
      BY <1>4, NextIdStays
    <2>4. ASSUME NEW j \in Ids, j >= cNextStreamId' PROVE said'[<<"up", j>>] = <<>>
      <3>1. said[<<"up", j>>] = <<>>
        BY <1>1, <2>3, <2>4 DEF BodiesKept
      <3>2. <<"up", j>> # d
        BY <1>4, <3>1
      <3> QED
        BY <2>2, <3>1, <3>2, Bodies
    <2> QED
      BY <2>2, <2>4 DEF BodiesKept, PartType
  <1>5. ASSUME ~Ask, UNCHANGED said PROVE BodiesKept'
    BY <1>1, <1>5, NextIdStays DEF BodiesKept
  <1>6. ASSUME ~Ask, NEW i \in Ids, Upload(i) PROVE BodiesKept'
    <2>1. PICK d : d = <<"up", i>>
      OBVIOUS
    <2>2. ~Finished(said[d]) /\ said[d] # <<>>
      BY <1>6, <2>1 DEF Upload, Begun
    <2>3. PICK l \in Nat : l = Left(d)
      BY <1>1, <2>1, <2>2, Bodies, LeftType
    <2>4. i \in DOMAIN cStreams
      BY <1>6, <2>1 DEF Upload, Client!SendData
    <2>5. PICK n : n = Client!ToSend(i, l)
      OBVIOUS
    <2>6. n \in Nat /\ n <= l
      BY <2>3, <2>4, <2>5, ClientSendsLess, LinkConstants DEF U31
    <2>7. PICK end \in BOOLEAN : end = (n = l)
      OBVIOUS
    <2>8. PICK parts : parts = Bytes(n) \o EndPart(end)
      OBVIOUS
    <2>9. Say(d, parts)
      BY <1>6, <2>1, <2>3, <2>5, <2>7, <2>8 DEF Upload
    <2>10. parts \in Seq(PartType) /\ IF end THEN Finished(parts) ELSE Len(parts) = n
      BY <2>6, <2>8, PartsType
    <2>11. ~Finished(parts) => Len(said[d]) + Len(parts) <= Body(d) + 1
      <3>1. l = Body(d) + 1 - Len(said[d]) /\ Body(d) \in Nat /\ Len(said[d]) \in Nat
        BY <1>1, <2>1, <2>2, <2>3, Bodies, LeftType, LenProperties DEF Left
      <3> QED
        BY <2>6, <2>10, <3>1
    <2> QED
      BY <1>4, <1>6, <2>1, <2>2, <2>9, <2>10, <2>11
  <1>7. ASSUME ~Ask, NEW i \in Ids, Respond(i) PROVE BodiesKept'
    <2>1. PICK d : d = <<"down", i>>
      OBVIOUS
    <2>2. ~Finished(said[d]) /\ d # <<"up", i>>
      BY <1>7, <2>1 DEF Respond
    <2>3. PICK l \in Nat : l = Left(d)
      BY <1>1, <2>1, <2>2, Bodies, LeftType
    <2>4. i \in DOMAIN sStreams
      BY <1>7, <2>1 DEF Respond, Server!SendData
    <2>5. PICK len : len = Server!Lesser(l, sRemote.maxFrame)
      OBVIOUS
    <2>6. len \in Nat /\ len <= l
      <3>1. sRemote.maxFrame = DefaultMaxFrame
        BY DEF LinkInv, ServerAlone, LocalSettings
      <3> QED
        BY <2>3, <2>5, <3>1, LinkConstants DEF Server!Lesser
    <2>7. PICK n : n = Server!ToSend(i, len)
      OBVIOUS
    <2>8. n \in Nat /\ n <= l
      BY <2>3, <2>4, <2>6, <2>7, ServerSendsLess
    <2>9. PICK end \in BOOLEAN : end = (n = l)
      OBVIOUS
    <2>10. PICK parts : parts = Bytes(n) \o EndPart(end)
      OBVIOUS
    <2>11. Say(d, parts)
      BY <1>7, <2>1, <2>3, <2>5, <2>7, <2>9, <2>10 DEF Respond
    <2>12. parts \in Seq(PartType) /\ IF end THEN Finished(parts) ELSE Len(parts) = n
      BY <2>8, <2>10, PartsType
    <2>13. ~Finished(parts) => Len(said[d]) + Len(parts) <= Body(d) + 1
      <3>1. l = Body(d) + 1 - Len(said[d]) /\ Body(d) \in Nat /\ Len(said[d]) \in Nat
        BY <1>1, <2>1, <2>2, <2>3, Bodies, LeftType, LenProperties DEF Left
      <3> QED
        BY <2>8, <2>12, <3>1
    <2> QED
      BY <1>4, <1>7, <2>1, <2>2, <2>11, <2>12, <2>13
  <1>8. ASSUME ~Ask, NEW i \in Ids, Answer(i) PROVE BodiesKept'
    <2>1. PICK d : d = <<"down", i>>
      OBVIOUS
    <2>2. PICK end \in BOOLEAN : end = (Body(d) = 0)
      OBVIOUS
    <2>3. PICK parts : parts = <<"headers">> \o EndPart(end)
      OBVIOUS
    <2>4. said[d] = <<>> /\ Say(d, parts)
      BY <1>8, <2>1, <2>2, <2>3 DEF Answer, Begun
    <2>5. ~Finished(said[d]) /\ Len(said[d]) = 0 /\ Body(d) \in Nat /\ d # <<"up", i>>
      BY <2>1, <2>4, Bodies DEF Finished, EndsIn
    <2>6. parts \in Seq(PartType) /\ IF end THEN Finished(parts) ELSE Len(parts) = 1
      <3>1. 0 \in Nat
        OBVIOUS
      <3> QED
        BY <2>3, <3>1, PartsType
    <2>7. ~Finished(parts) => Len(said[d]) + Len(parts) <= Body(d) + 1
      <3>1. ~Finished(parts) => Len(parts) = 1
        BY <2>6
      <3>2. PICK b \in Nat : b = Body(d)
        BY <2>5
      <3>3. 0 + 1 <= b + 1
        BY <3>2
      <3> QED
        BY <2>5, <3>1, <3>2, <3>3
    <2> QED
      BY <1>4, <1>8, <2>1, <2>4, <2>5, <2>6, <2>7
  <1>9. ASSUME ~Ask, NEW i \in Ids, Reset(i) PROVE BodiesKept'
    <2>1. PICK d, parts : d = <<"down", i>> /\ parts = <<"reset">>
      OBVIOUS
    <2>2. ~Finished(said[d]) /\ Say(d, parts) /\ d # <<"up", i>>
      BY <1>9, <2>1 DEF Reset
    <2>3. parts \in Seq(PartType) /\ Finished(parts)
      <3>1. 0 \in Nat /\ FALSE \in BOOLEAN
        OBVIOUS
      <3> QED
        BY <2>1, <3>1, PartsType
    <2> QED
      BY <1>4, <1>9, <2>1, <2>2, <2>3
  <1>10. UNCHANGED said \/ Ask \/ \E i \in Ids : Upload(i) \/ Respond(i) \/ Answer(i) \/ Reset(i)
    BY DEF Next, Work, Refuse, vars, ClientReady, ClientPolls, ServerPolls, ToServer, ToClient,
           GoAway
  <1> QED
    BY <1>3, <1>5, <1>6, <1>7, <1>8, <1>9, <1>10
-------------------------------------------------------------------------------
(***************************************************************************)
(* Messages under way                                                      *)
(***************************************************************************)

\* The parts of the message on stream i that a frame carries.
PartsOn(frame, i) == IF frame.id = i THEN Parts(frame) ELSE <<>>

\* A message is the beginning of another.
Begins(msg, whole) ==
    /\ Len(msg) <= Len(whole)
    /\ \A k \in 1 .. Len(msg) : msg[k] = whole[k]

\* A message of which the parts in front have arrived, the others are under way in
\* the frames of a byte stream: marks are how far each frame brings it.
Between(arrived, buf, i, whole) ==
    \E marks \in [0 .. Len(buf) -> Seq(PartType)] :
        /\ marks[0] = arrived /\ marks[Len(buf)] = whole
        /\ \A k \in 1 .. Len(buf) : marks[k] = marks[k - 1] \o PartsOn(buf[k], i)
        /\ \A k \in 0 .. Len(buf) : Begins(marks[k], whole)

\* A message begins any that has parts added to it.
LEMMA BeginsLonger ==
    ASSUME NEW msg \in Seq(PartType), NEW whole \in Seq(PartType), NEW parts \in Seq(PartType),
           Begins(msg, whole)
    PROVE  Begins(msg, whole \o parts) /\ Begins(whole \o parts, whole \o parts)
  <1>1. Len(msg) \in Nat /\ Len(whole) \in Nat /\ Len(parts) \in Nat
    BY LenProperties
  <1>2. /\ whole \o parts \in Seq(PartType) /\ Len(whole \o parts) = Len(whole) + Len(parts)
        /\ \A k \in 1 .. Len(whole) + Len(parts) :
              (whole \o parts)[k] = IF k <= Len(whole) THEN whole[k] ELSE parts[k - Len(whole)]
    BY ConcatProperties
  <1>3. PICK longer : longer = whole \o parts
    OBVIOUS
  <1>4. /\ Len(msg) <= Len(whole)
        /\ \A k \in 1 .. Len(msg) : msg[k] = whole[k]
    BY DEF Begins
  <1>5. ASSUME NEW k \in 1 .. Len(msg) PROVE msg[k] = longer[k]
    <2>1. k \in 1 .. Len(whole) + Len(parts) /\ k <= Len(whole)
      BY <1>1, <1>4
    <2> QED
      BY <1>2, <1>3, <1>4, <2>1
  <1>6. Len(msg) <= Len(longer)
    BY <1>1, <1>2, <1>3, <1>4
  <1>7. Begins(msg, longer)
    BY <1>5, <1>6 DEF Begins
  <1>8. Begins(longer, longer)
    BY <1>1, <1>2, <1>3 DEF Begins
  <1> QED
    BY <1>3, <1>7, <1>8

\* The part that ends a message, if there is one.
LEMMA EndParts ==
    ASSUME NEW end
    PROVE  EndPart(end) \in Seq(PartType) /\ (Len(EndPart(end)) = 0 \/ Len(EndPart(end)) = 1)
  <1>1. PICK tail : tail = EndPart(end)
    OBVIOUS
  <1>2. tail = <<"end">> \/ tail = <<>>
    BY <1>1 DEF EndPart
  <1>3. <<"end">> \in Seq(PartType) /\ <<>> \in Seq(PartType)
    BY DEF PartType
  <1>4. Len(<<"end">>) = 1 /\ Len(<<>>) = 0
    OBVIOUS
  <1> QED
    BY <1>1, <1>2, <1>3, <1>4

\* What a frame carries are parts.
LEMMA FrameParts ==
    ASSUME NEW f \in FrameType, NEW i
    PROVE  Parts(f) \in Seq(PartType) /\ PartsOn(f, i) \in Seq(PartType)
  <1>1. f.n \in Nat
    BY DEF FrameType, C!FrameType
  <1>2. Bytes(f.n) \in Seq(PartType)
    <2>1. Bytes(f.n) \in [1 .. f.n -> PartType]
      BY DEF Bytes, PartType
    <2> QED
      BY <1>1, <2>1, IsASeq
  <1>3. EndPart(f.end) \in Seq(PartType) /\ <<"headers">> \in Seq(PartType)
        /\ <<"reset">> \in Seq(PartType) /\ <<>> \in Seq(PartType)
    <2>1. EndPart(f.end) \in Seq(PartType)
      BY EndParts
    <2>2. <<"headers">> \in Seq(PartType)
          /\ <<"reset">> \in Seq(PartType) /\ <<>> \in Seq(PartType)
      BY DEF PartType
    <2> QED
      BY <2>1, <2>2
  <1>4. /\ Bytes(f.n) \o EndPart(f.end) \in Seq(PartType)
        /\ <<"headers">> \o EndPart(f.end) \in Seq(PartType)
    BY <1>2, <1>3, ConcatProperties
  <1>5. Parts(f) \in Seq(PartType)
    BY <1>3, <1>4 DEF Parts
  <1> QED
    BY <1>3, <1>5 DEF PartsOn

\* A frame that joins the byte stream brings its parts to the end of the message.
LEMMA PartsJoin ==
    ASSUME NEW arrived, NEW whole, NEW i, NEW buf \in Seq(FrameType), NEW f \in FrameType,
           Between(arrived, buf, i, whole)
    PROVE  Between(arrived, Append(buf, f), i, whole \o PartsOn(f, i))
  <1>1. PICK marks \in [0 .. Len(buf) -> Seq(PartType)] :
           /\ marks[0] = arrived /\ marks[Len(buf)] = whole
           /\ \A k \in 1 .. Len(buf) : marks[k] = marks[k - 1] \o PartsOn(buf[k], i)
           /\ \A k \in 0 .. Len(buf) : Begins(marks[k], whole)
    BY DEF Between
  <1>2. PICK n \in Nat : n = Len(buf)
    BY LenProperties
  <1>3. PICK next : next = Append(buf, f)
    OBVIOUS
  <1>4. Len(next) = n + 1 /\ next[n + 1] = f /\ \A k \in 1 .. n : next[k] = buf[k]
    BY <1>2, <1>3, AppendProperties
  <1>5. PICK longer : longer = whole \o PartsOn(f, i)
    OBVIOUS
  <1>6. whole \in Seq(PartType) /\ PartsOn(f, i) \in Seq(PartType) /\ longer \in Seq(PartType)
    <2>1. whole \in Seq(PartType)
      BY <1>1, <1>2
    <2>2. PartsOn(f, i) \in Seq(PartType)
      BY FrameParts
    <2> QED
      BY <1>5, <2>1, <2>2, ConcatProperties
  <1>7. PICK more \in [0 .. n + 1 -> Seq(PartType)] :
           more[n + 1] = longer /\ \A k \in 0 .. n : more[k] = marks[k]
    <2>1. PICK T : T = Seq(PartType)
      OBVIOUS
    <2>2. marks \in [0 .. n -> T] /\ longer \in T
      BY <1>1, <1>2, <1>6, <2>1
    <2> DEFINE g == [k \in 0 .. n + 1 |-> IF k = n + 1 THEN longer ELSE marks[k]]
    <2>3. g \in [0 .. n + 1 -> T]
      BY <2>2
    <2>4. g[n + 1] = longer /\ \A k \in 0 .. n : g[k] = marks[k]
      OBVIOUS
    <2> QED
      BY <2>1, <2>3, <2>4
  <1>8. more[0] = arrived
    BY <1>1, <1>2, <1>7
  <1>9. ASSUME NEW k \in 1 .. n + 1 PROVE more[k] = more[k - 1] \o PartsOn(next[k], i)
    <2>1. CASE k = n + 1
      <3>1. more[k - 1] = whole
        BY <1>1, <1>2, <1>7, <2>1
      <3> QED
        BY <1>4, <1>5, <1>7, <2>1, <3>1
    <2>2. CASE k \in 1 .. n
      <3>1. more[k] = marks[k] /\ more[k - 1] = marks[k - 1] /\ next[k] = buf[k]
        BY <1>2, <1>4, <1>7, <2>2
      <3> QED
        BY <1>1, <1>2, <2>2, <3>1
    <2>3. k = n + 1 \/ k \in 1 .. n
      OBVIOUS
    <2> QED
      BY <2>1, <2>2, <2>3
  <1>10. ASSUME NEW k \in 0 .. n + 1 PROVE Begins(more[k], longer)
    <2>1. CASE k = n + 1
      <3>1. Begins(whole, whole)
        BY <1>6, LenProperties DEF Begins
      <3> QED
        BY <1>5, <1>6, <1>7, <2>1, <3>1, BeginsLonger
    <2>2. CASE k \in 0 .. n
      <3>1. more[k] = marks[k] /\ marks[k] \in Seq(PartType) /\ Begins(marks[k], whole)
        BY <1>1, <1>2, <1>7, <2>2
      <3> QED
        BY <1>5, <1>6, <3>1, BeginsLonger
    <2>3. k = n + 1 \/ k \in 0 .. n
      OBVIOUS
    <2> QED
      BY <2>1, <2>2, <2>3
  <1>11. Between(arrived, next, i, longer)
    BY <1>4, <1>7, <1>8, <1>9, <1>10 DEF Between
  <1> QED
    BY <1>3, <1>5, <1>11

\* The first frame of the byte stream brings its parts to what has arrived.
LEMMA PartsLeave ==
    ASSUME NEW arrived, NEW whole, NEW i, NEW buf \in Seq(FrameType), buf # <<>>,
           Between(arrived, buf, i, whole)
    PROVE  /\ Between(arrived \o PartsOn(buf[1], i), Tail(buf), i, whole)
           /\ Begins(arrived \o PartsOn(buf[1], i), whole)
           /\ arrived \in Seq(PartType) /\ whole \in Seq(PartType)
  <1>1. PICK marks \in [0 .. Len(buf) -> Seq(PartType)] :
           /\ marks[0] = arrived /\ marks[Len(buf)] = whole
           /\ \A k \in 1 .. Len(buf) : marks[k] = marks[k - 1] \o PartsOn(buf[k], i)
           /\ \A k \in 0 .. Len(buf) : Begins(marks[k], whole)
    BY DEF Between
  <1>2. PICK n \in Nat : n = Len(buf) /\ n >= 1
    BY LenProperties, EmptySeq
  <1>3. PICK next : next = Tail(buf)
    OBVIOUS
  <1>4. Len(next) = n - 1 /\ \A k \in 1 .. n - 1 : next[k] = buf[k + 1]
    BY <1>2, <1>3, HeadTailProperties
  <1>5. PICK fewer \in [0 .. n - 1 -> Seq(PartType)] :
           \A k \in 0 .. n - 1 : fewer[k] = marks[k + 1]
    <2>1. PICK T : T = Seq(PartType)
      OBVIOUS
    <2>2. marks \in [0 .. n -> T] /\ n >= 1
      BY <1>1, <1>2, <2>1
    <2> DEFINE g == [k \in 0 .. n - 1 |-> marks[k + 1]]
    <2>3. g \in [0 .. n - 1 -> T]
      BY <2>2
    <2>4. \A k \in 0 .. n - 1 : g[k] = marks[k + 1]
      BY <2>2
    <2> QED
      BY <2>1, <2>3, <2>4
  <1>6. fewer[0] = arrived \o PartsOn(buf[1], i) /\ fewer[n - 1] = whole
    <2>1. /\ 0 \in 0 .. n - 1 /\ n - 1 \in 0 .. n - 1 /\ 1 \in 1 .. n
          /\ 0 + 1 = 1 /\ 1 - 1 = 0 /\ (n - 1) + 1 = n
      BY <1>2
    <2>2. fewer[0] = marks[1] /\ fewer[n - 1] = marks[n]
      BY <1>5, <2>1
    <2>3. marks[1] = marks[0] \o PartsOn(buf[1], i)
      BY <1>1, <1>2, <2>1
    <2> QED
      BY <1>1, <1>2, <2>2, <2>3
  <1>7. ASSUME NEW k \in 1 .. n - 1 PROVE fewer[k] = fewer[k - 1] \o PartsOn(next[k], i)
    <2>1. /\ k + 1 \in 1 .. n /\ (k + 1) - 1 = k /\ (k - 1) + 1 = k
          /\ k \in 0 .. n - 1 /\ k - 1 \in 0 .. n - 1
      BY <1>2
    <2>2. marks[k + 1] = marks[k] \o PartsOn(buf[k + 1], i)
      BY <1>1, <1>2, <2>1
    <2> QED
      BY <1>4, <1>5, <2>1, <2>2
  <1>8. ASSUME NEW k \in 0 .. n - 1 PROVE Begins(fewer[k], whole)
    BY <1>1, <1>2, <1>5
  <1>9. Between(fewer[0], next, i, whole)
    BY <1>2, <1>4, <1>5, <1>6, <1>7, <1>8 DEF Between
  <1>10. Begins(fewer[0], whole)
    BY <1>2, <1>8
  <1>11. arrived \in Seq(PartType) /\ whole \in Seq(PartType)
    BY <1>1, <1>2
  <1> QED
    BY <1>3, <1>6, <1>9, <1>10, <1>11

\* Two messages of which one begins the other.
LEMMA BeginsSubSeq ==
    ASSUME NEW msg \in Seq(PartType), NEW whole \in Seq(PartType), Begins(msg, whole)
    PROVE  SubSeq(whole, 1, Len(msg)) = msg
  <1>1. PICK m \in Nat, n \in Nat : m = Len(msg) /\ n = Len(whole)
    BY LenProperties
  <1>2. m <= n /\ \A k \in 1 .. m : msg[k] = whole[k]
    BY <1>1 DEF Begins
  <1>3. \A k \in 1 .. m : k \in 1 .. n
    BY <1>2
  <1>4. /\ SubSeq(whole, 1, m) \in Seq(PartType)
        /\ Len(SubSeq(whole, 1, m)) = IF 1 <= m THEN m - 1 + 1 ELSE 0
        /\ \A k \in 1 .. m - 1 + 1 : SubSeq(whole, 1, m)[k] = whole[1 + k - 1]
    BY <1>1, <1>3, SubSeqProperties
  <1>5. PICK part : part = SubSeq(whole, 1, m)
    OBVIOUS
  <1>6. Len(part) = m
    BY <1>4, <1>5
  <1>7. \A k \in 1 .. Len(part) : part[k] = msg[k]
    BY <1>2, <1>4, <1>5, <1>6
  <1>8. part = msg
    BY <1>1, <1>4, <1>5, <1>6, <1>7, SeqEqual
  <1> QED
    BY <1>1, <1>5, <1>8

\* Only the last of the parts that a frame carries is an end.
LEMMA FrameEnds ==
    ASSUME NEW f \in FrameType
    PROVE  Promise!OnlyLast(Parts(f))
  <1>1. PICK n, end : n = f.n /\ end = f.end
    OBVIOUS
  <1>2. n \in Nat
    BY <1>1 DEF FrameType, C!FrameType
  <1>3. PICK tail : tail = EndPart(end)
    OBVIOUS
  <1>4. tail \in Seq(PartType) /\ (Len(tail) = 0 \/ Len(tail) = 1)
    BY <1>3, EndParts
  <1>5. ASSUME NEW msg \in Seq(PartType), \A k \in 1 .. Len(msg) : msg[k] \notin {"end", "reset"}
        PROVE  Promise!OnlyLast(msg \o tail)
    <2>1. Len(msg) \in Nat
      BY LenProperties
    <2>2. /\ Len(msg \o tail) = Len(msg) + Len(tail)
          /\ \A k \in 1 .. Len(msg) + Len(tail) :
                (msg \o tail)[k] = IF k <= Len(msg) THEN msg[k] ELSE tail[k - Len(msg)]
      BY <1>4, ConcatProperties
    <2>3. PICK whole : whole = msg \o tail
      OBVIOUS
    <2>4. ASSUME NEW k \in 1 .. Len(whole) - 1 PROVE whole[k] \notin {"end", "reset"}
      <3>1. k \in 1 .. Len(msg) /\ k \in 1 .. Len(msg) + Len(tail) /\ k <= Len(msg)
        BY <1>4, <2>1, <2>2, <2>3
      <3> QED
        BY <1>5, <2>2, <2>3, <3>1
    <2> QED
      BY <2>3, <2>4 DEF Promise!OnlyLast, Promise!Closing
  <1>6. CASE f.type = "HEADERS"
    <2>1. PICK msg : msg = <<"headers">>
      OBVIOUS
    <2>2. msg \in Seq(PartType) /\ Len(msg) = 1 /\ msg[1] = "headers"
      BY <2>1 DEF PartType
    <2>3. Promise!OnlyLast(msg \o tail)
      BY <1>5, <2>2
    <2> QED
      BY <1>1, <1>3, <1>6, <2>1, <2>3 DEF Parts
  <1>7. CASE f.type = "DATA"
    <2>1. PICK msg : msg = Bytes(n)
      OBVIOUS
    <2>2. msg \in [1 .. n -> PartType] /\ \A k \in 1 .. n : msg[k] = "byte"
      BY <2>1 DEF Bytes, PartType
    <2>3. msg \in Seq(PartType) /\ Len(msg) = n
      BY <1>2, <2>2, IsASeq
    <2>4. Promise!OnlyLast(msg \o tail)
      BY <1>5, <2>2, <2>3
    <2> QED
      BY <1>1, <1>3, <1>7, <2>1, <2>4 DEF Parts
  <1>8. CASE f.type \notin {"HEADERS", "DATA"}
    <2>1. PICK msg : msg = Parts(f)
      OBVIOUS
    <2>2. msg = <<"reset">> \/ msg = <<>>
      BY <1>8, <2>1 DEF Parts
    <2>3. Len(<<"reset">>) = 1 /\ Len(<<>>) = 0
      OBVIOUS
    <2>4. Len(msg) = 1 \/ Len(msg) = 0
      BY <2>2, <2>3
    <2>5. PICK m : m = Len(msg) /\ (m = 1 \/ m = 0)
      BY <2>4
    <2>6. ASSUME NEW k \in 1 .. m - 1 PROVE FALSE
      BY <2>5
    <2> QED
      BY <2>1, <2>5, <2>6 DEF Promise!OnlyLast
  <1> QED
    BY <1>6, <1>7, <1>8

\* A message that has not ended, with parts added to it: the ends are still last.
LEMMA EndsLast ==
    ASSUME NEW msg \in Seq(PartType), NEW parts \in Seq(PartType), ~Finished(msg),
           Promise!OnlyLast(msg), Promise!OnlyLast(parts)
    PROVE  Promise!OnlyLast(msg \o parts)
  <1>1. PICK m \in Nat, n \in Nat : m = Len(msg) /\ n = Len(parts)
    BY LenProperties
  <1>2. /\ Len(msg \o parts) = m + n
        /\ \A k \in 1 .. m + n : (msg \o parts)[k] = IF k <= m THEN msg[k] ELSE parts[k - m]
    BY <1>1, ConcatProperties
  <1>3. ASSUME NEW k \in 1 .. m PROVE msg[k] \notin {"end", "reset"}
    <2>1. msg # <<>>
      BY <1>1, <1>3, EmptySeq
    <2>2. msg[m] \notin {"end", "reset"}
      BY <1>1, <2>1 DEF Finished, EndsIn
    <2>3. \A j \in 1 .. m - 1 : msg[j] \notin {"end", "reset"}
      BY <1>1 DEF Promise!OnlyLast, Promise!Closing
    <2> QED
      BY <2>2, <2>3
  <1>4. \A j \in 1 .. n - 1 : parts[j] \notin {"end", "reset"}
    BY <1>1 DEF Promise!OnlyLast, Promise!Closing
  <1>5. PICK whole : whole = msg \o parts
    OBVIOUS
  <1>6. ASSUME NEW k \in 1 .. Len(whole) - 1 PROVE whole[k] \notin {"end", "reset"}
    <2>1. k \in 1 .. m + n /\ k < m + n
      BY <1>2, <1>5
    <2>2. CASE k <= m
      <3>1. whole[k] = msg[k] /\ k \in 1 .. m
        BY <1>2, <1>5, <2>1, <2>2
      <3> QED
        BY <1>3, <3>1
    <2>3. CASE ~(k <= m)
      <3>1. whole[k] = parts[k - m] /\ k - m \in 1 .. n - 1
        BY <1>2, <1>5, <2>1, <2>3
      <3> QED
        BY <1>4, <3>1
    <2> QED
      BY <2>2, <2>3
  <1> QED
    BY <1>5, <1>6 DEF Promise!OnlyLast, Promise!Closing

\* A byte stream under way to which nothing is added that belongs to a message.
Conveys(buf, next) ==
    \A arrived, i, whole : Between(arrived, buf, i, whole) => Between(arrived, next, i, whole)

\* A frame without parts.
Mute(f) == f \in FrameType /\ f.type \notin {"HEADERS", "DATA", "RST_STREAM"}

LEMMA MuteJoins ==
    ASSUME NEW buf \in Seq(FrameType), NEW f, Mute(f)
    PROVE  Conveys(buf, Append(buf, f)) /\ Append(buf, f) \in Seq(FrameType)
  <1>1. \A i : PartsOn(f, i) = <<>>
    BY DEF Mute, PartsOn, Parts
  <1>2. f \in FrameType
    BY DEF Mute
  <1>3. ASSUME NEW arrived, NEW i, NEW whole, Between(arrived, buf, i, whole)
        PROVE  Between(arrived, Append(buf, f), i, whole)
    <2>1. Between(arrived, Append(buf, f), i, whole \o PartsOn(f, i))
      BY <1>2, <1>3, PartsJoin
    <2>2. whole \in Seq(PartType)
      BY <1>3, LenProperties DEF Between
    <2>3. whole \o <<>> = whole
      BY <2>2, ConcatEmptySeq
    <2> QED
      BY <1>1, <2>1, <2>3
  <1> QED
    BY <1>2, <1>3, AppendProperties DEF Conveys

-------------------------------------------------------------------------------
(***************************************************************************)
(* The messages are conveyed                                               *)
(***************************************************************************)
\* What is said and has not been heard is under way; the server's application has
\* heard of every stream it knows or has spoken of.
Conveyed ==
    /\ heard \in [Up \cup Down -> Seq(PartType)]
    /\ \A d \in Up \cup Down : Promise!OnlyLast(said[d])
    /\ \A i \in Ids : /\ Between(heard[<<"up", i>>], cSock, i, said[<<"up", i>>])
                      /\ Between(heard[<<"down", i>>], sWriteBuf, i, said[<<"down", i>>])
    /\ \A i \in Ids : i \in DOMAIN sEnded \/ said[<<"down", i>>] # <<>>
                         => heard[<<"up", i>>] # <<>>

\* Nothing is said or heard.
Silence ==
    /\ said' = said /\ heard' = heard /\ DOMAIN sEnded' = DOMAIN sEnded
    /\ Conveys(cSock, cSock') /\ Conveys(sWriteBuf, sWriteBuf')

\* An application hands over parts of a message that is not at its end, which are
\* written into a byte stream with one frame.
Speaks(d, f) ==
    /\ f \in FrameType /\ f.id = d[2] /\ ~Finished(said[d])
    /\ Say(d, Parts(f)) /\ heard' = heard /\ DOMAIN sEnded' = DOMAIN sEnded

ClientSays(i) ==
    \E f : Speaks(<<"up", i>>, f) /\ cSock' = Append(cSock, f) /\ sWriteBuf' = sWriteBuf

ServerSays(i) ==
    /\ i \in DOMAIN sEnded \/ said[<<"down", i>>] # <<>>
    /\ \E f : Speaks(<<"down", i>>, f) /\ sWriteBuf' = Append(sWriteBuf, f) /\ cSock' = cSock

\* A frame arrives, and with it the parts that it carries.
ServerHears ==
    /\ cSock # <<>> /\ cSock' = Tail(cSock) /\ Conveys(sWriteBuf, sWriteBuf')
    /\ Hear("up", cSock[1]) /\ said' = said
    /\ \A i \in DOMAIN sEnded' :
          i \in DOMAIN sEnded \/ (cSock[1].type = "HEADERS" /\ cSock[1].id = i)

ClientHears ==
    /\ sWriteBuf # <<>> /\ sWriteBuf' = Tail(sWriteBuf) /\ Conveys(cSock, cSock')
    /\ Hear("down", sWriteBuf[1]) /\ said' = said /\ DOMAIN sEnded' = DOMAIN sEnded

Utterances ==
    \/ Silence \/ ServerHears \/ ClientHears
    \/ \E i \in Ids : ClientSays(i) \/ ServerSays(i)

\* What Exchange says of a step.
Promised == [Promise!Next]_<<said, heard>>

\* The two directions of every stream are the messages of Exchange.
LEMMA Directions ==
    /\ Promise!Messages = Up \cup Down
    /\ \A i \in Ids : <<"up", i>> \in Up \cup Down /\ <<"down", i>> \in Up \cup Down
    /\ \A d \in Up \cup Down : d[2] \in Ids /\ (d = <<"up", d[2]>> \/ d = <<"down", d[2]>>)
    /\ \A i, j : <<"up", i>> # <<"down", j>>
  BY DEF Promise!Messages, Up, Down

\* Parts added to a message are said as Exchange has it.
LEMMA SpeaksPromised ==
    ASSUME NEW d \in Up \cup Down, NEW f, said \in [Up \cup Down -> Seq(PartType)],
           \A e \in Up \cup Down : Promise!OnlyLast(said[e]), Speaks(d, f),
           d[1] = "down" => heard[<<"up", d[2]>>] # <<>>
    PROVE  /\ Promised
           /\ said'[d] = said[d] \o Parts(f) /\ \A e \in (Up \cup Down) \ {d} : said'[e] = said[e]
           /\ \A e \in Up \cup Down : Promise!OnlyLast(said'[e])
  <1>1. PICK msg, parts : msg = said[d] /\ parts = Parts(f)
    OBVIOUS
  <1>2. msg \in Seq(PartType) /\ parts \in Seq(PartType)
    BY <1>1, FrameParts DEF Speaks
  <1>3. said' = [said EXCEPT ![d] = msg \o parts]
    BY <1>1 DEF Speaks, Say
  <1>4. said'[d] = msg \o parts /\ \A e \in (Up \cup Down) \ {d} : said'[e] = said[e]
    BY <1>3
  <1>5. Promise!OnlyLast(msg \o parts)
    BY <1>1, <1>2, FrameEnds, EndsLast DEF Speaks
  <1>6. CASE parts = <<>>
    <2>1. msg \o parts = msg
      BY <1>2, <1>6, ConcatEmptySeq
    <2>2. said' = said
      BY <1>1, <1>3, <2>1
    <2> QED
      BY <1>1, <1>4, <1>5, <2>2 DEF Promised, Speaks
  <1>7. CASE parts # <<>>
    <2>1. PICK longer : longer = msg \o parts
      OBVIOUS
    <2>2. Len(longer) > Len(msg)
      <3>1. Len(longer) = Len(msg) + Len(parts) /\ Len(msg) \in Nat /\ Len(parts) \in Nat
        BY <1>2, <2>1, ConcatProperties, LenProperties
      <3>2. Len(parts) # 0
        BY <1>2, <1>7, EmptySeq
      <3> QED
        BY <3>1, <3>2
    <2>3. Begins(msg, longer)
      <3>1. Begins(msg, msg)
        BY <1>2, LenProperties DEF Begins
      <3> QED
        BY <1>2, <2>1, <3>1, BeginsLonger
    <2>4. SubSeq(longer, 1, Len(msg)) = msg
      BY <1>2, <2>1, <2>3, ConcatProperties, BeginsSubSeq
    <2>5. Promise!Say(d)
      <3>1. Promise!Extends(longer, msg)
        BY <2>2, <2>4 DEF Promise!Extends
      <3>2. said'[d] = longer /\ said' = [said EXCEPT ![d] = longer] /\ said[d] = msg
        BY <1>1, <1>3, <1>4, <2>1
      <3> QED
        BY <1>5, <2>1, <3>1, <3>2 DEF Promise!Say, Speaks
    <2> QED
      BY <1>1, <1>4, <1>5, <2>5, Directions DEF Promised, Promise!Next
  <1> QED
    BY <1>6, <1>7

\* Parts that arrive are heard as Exchange has it.
LEMMA HearsPromised ==
    ASSUME NEW way \in {"up", "down"}, NEW f \in FrameType,
           heard \in [Up \cup Down -> Seq(PartType)], said' = said, Hear(way, f),
           said \in [Up \cup Down -> Seq(PartType)],
           \A i \in Ids : Begins(heard[<<way, i>>] \o PartsOn(f, i), said[<<way, i>>])
    PROVE  /\ Promised /\ heard' \in [Up \cup Down -> Seq(PartType)]
           /\ \A i \in Ids : heard'[<<way, i>>] = heard[<<way, i>>] \o PartsOn(f, i)
           /\ \A d \in Up \cup Down : d[1] # way => heard'[d] = heard[d]
  <1>1. \A i \in Ids : <<way, i>> \in Up \cup Down
    BY Directions
  <1>2. CASE f.id \notin Ids
    <2>1. heard' = heard
      BY <1>2 DEF Hear
    <2>2. \A i \in Ids : PartsOn(f, i) = <<>>
      BY <1>2 DEF PartsOn
    <2>3. \A i \in Ids : heard[<<way, i>>] \o <<>> = heard[<<way, i>>]
      BY <1>1, ConcatEmptySeq
    <2> QED
      BY <2>1, <2>2, <2>3 DEF Promised
  <1>3. CASE f.id \in Ids
    <2>1. PICK i \in Ids, d \in Up \cup Down : i = f.id /\ d = <<way, i>>
      BY <1>1, <1>3
    <2>2. PICK msg, parts, longer : msg = heard[d] /\ parts = Parts(f) /\ longer = msg \o parts
      OBVIOUS
    <2>3. msg \in Seq(PartType) /\ parts \in Seq(PartType) /\ longer \in Seq(PartType)
      <3>1. msg \in Seq(PartType) /\ parts \in Seq(PartType)
        BY <2>2, FrameParts
      <3> QED
        BY <2>2, <3>1, ConcatProperties
    <2>4. heard' = [heard EXCEPT ![d] = longer]
      BY <1>3, <2>1, <2>2 DEF Hear
    <2>5. heard'[d] = longer /\ \A e \in (Up \cup Down) \ {d} : heard'[e] = heard[e]
      BY <2>4
    <2>6. heard' \in [Up \cup Down -> Seq(PartType)]
      BY <2>3, <2>4
    <2>7. PartsOn(f, i) = parts /\ \A j \in Ids \ {i} : PartsOn(f, j) = <<>>
      BY <2>1, <2>2 DEF PartsOn
    <2>8. ASSUME NEW j \in Ids PROVE heard'[<<way, j>>] = heard[<<way, j>>] \o PartsOn(f, j)
      <3>1. CASE j = i
        BY <2>1, <2>2, <2>5, <2>7, <3>1
      <3>2. CASE j # i
        <4>1. <<way, j>> \in (Up \cup Down) \ {d}
          BY <1>1, <2>1, <3>2
        <4>2. heard[<<way, j>>] \o <<>> = heard[<<way, j>>]
          BY <4>1, ConcatEmptySeq
        <4> QED
          BY <2>5, <2>7, <3>2, <4>1, <4>2
      <3> QED
        BY <3>1, <3>2
    <2>9. \A e \in Up \cup Down : e[1] # way => heard'[e] = heard[e]
      BY <2>1, <2>5
    <2>10. PICK whole : whole = said[d]
      OBVIOUS
    <2>11. whole \in Seq(PartType) /\ Begins(longer, whole)
      BY <2>1, <2>2, <2>7, <2>10
    <2>12. Promised
      <3>1. CASE parts = <<>>
        <4>1. longer = msg
          BY <2>2, <2>3, <3>1, ConcatEmptySeq
        <4> QED
          BY <2>2, <2>4, <4>1 DEF Promised
      <3>2. CASE parts # <<>>
        <4>1. Len(longer) > Len(msg)
          <5>1. Len(longer) = Len(msg) + Len(parts) /\ Len(msg) \in Nat /\ Len(parts) \in Nat
            BY <2>2, <2>3, ConcatProperties, LenProperties
          <5>2. Len(parts) # 0
            BY <2>3, <3>2, EmptySeq
          <5> QED
            BY <5>1, <5>2
        <4>2. SubSeq(longer, 1, Len(msg)) = msg
          <5>1. Begins(msg, msg)
            BY <2>3, LenProperties DEF Begins
          <5> QED
            BY <2>2, <2>3, <5>1, BeginsLonger, BeginsSubSeq
        <4>3. SubSeq(whole, 1, Len(longer)) = longer /\ Len(longer) <= Len(whole)
          BY <2>3, <2>11, BeginsSubSeq DEF Begins
        <4>4. Promise!Extends(longer, msg)
          BY <4>1, <4>2 DEF Promise!Extends
        <4>5. Promise!Hear(d)
          <5>1. heard'[d] = longer /\ heard' = [heard EXCEPT ![d] = longer] /\ heard[d] = msg
                /\ said[d] = whole
            BY <2>2, <2>4, <2>5, <2>10
          <5> QED
            BY <4>3, <4>4, <5>1 DEF Promise!Hear
        <4> QED
          BY <4>5, Directions DEF Promised, Promise!Next
      <3> QED
        BY <3>1, <3>2
    <2> QED
      BY <2>6, <2>8, <2>9, <2>12
  <1> QED
    BY <1>2, <1>3

\* Parts put together are none only if there are none of either.
LEMMA SomeLonger ==
    ASSUME NEW msg \in Seq(PartType), NEW parts \in Seq(PartType)
    PROVE  /\ msg # <<>> \/ parts # <<>> => msg \o parts # <<>>
           /\ Len(msg) = 1 => msg \o parts # <<>>
  <1>1. PICK m \in Nat, n \in Nat : m = Len(msg) /\ n = Len(parts)
    BY LenProperties
  <1>2. PICK whole : whole = msg \o parts
    OBVIOUS
  <1>3. Len(whole) = m + n
    BY <1>1, <1>2, ConcatProperties
  <1>4. whole = <<>> => m = 0 /\ n = 0
    BY <1>1, <1>3
  <1>5. whole = <<>> => msg = <<>> /\ parts = <<>>
    BY <1>1, <1>4, EmptySeq
  <1> QED
    BY <1>1, <1>2, <1>4, <1>5

\* The steps that say or let hear a part keep what is conveyed, and are steps of
\* Exchange.
LEMMA UtterancesPromised ==
    ASSUME LinkInv, Conveyed, Utterances
    PROVE  Promised /\ Conveyed'
  <1>1. /\ said \in [Up \cup Down -> Seq(PartType)] /\ heard \in [Up \cup Down -> Seq(PartType)]
        /\ cSock \in Seq(FrameType) /\ sWriteBuf \in Seq(FrameType)
    BY Typed DEF LinkInv, BodiesKept, Conveyed, PartType
  <1>2. /\ \A d \in Up \cup Down : Promise!OnlyLast(said[d])
        /\ \A i \in Ids : /\ Between(heard[<<"up", i>>], cSock, i, said[<<"up", i>>])
                          /\ Between(heard[<<"down", i>>], sWriteBuf, i, said[<<"down", i>>])
        /\ \A i \in Ids : i \in DOMAIN sEnded \/ said[<<"down", i>>] # <<>>
                             => heard[<<"up", i>>] # <<>>
    BY DEF Conveyed
  <1>3. CASE Silence
    <2>1. Promised
      BY <1>3 DEF Silence, Promised
    <2>2. \A i \in Ids : /\ Between(heard[<<"up", i>>], cSock', i, said[<<"up", i>>])
                         /\ Between(heard[<<"down", i>>], sWriteBuf', i, said[<<"down", i>>])
      BY <1>2, <1>3 DEF Silence, Conveys
    <2> QED
      BY <1>1, <1>2, <1>3, <2>1, <2>2 DEF Silence, Conveyed
  <1>4. ASSUME NEW i \in Ids, ClientSays(i) PROVE Promised /\ Conveyed'
    <2>1. PICK f : Speaks(<<"up", i>>, f) /\ cSock' = Append(cSock, f) /\ sWriteBuf' = sWriteBuf
      BY <1>4 DEF ClientSays
    <2>2. PICK d \in Up \cup Down : d = <<"up", i>> /\ d[1] # "down" /\ d[2] = i
      BY Directions
    <2>3. /\ Promised
          /\ said'[d] = said[d] \o Parts(f) /\ \A e \in (Up \cup Down) \ {d} : said'[e] = said[e]
          /\ \A e \in Up \cup Down : Promise!OnlyLast(said'[e])
      BY <1>1, <1>2, <2>1, <2>2, SpeaksPromised
    <2>4. f \in FrameType /\ f.id = i /\ heard' = heard /\ DOMAIN sEnded' = DOMAIN sEnded
      BY <2>1, <2>2 DEF Speaks
    <2>5. PartsOn(f, i) = Parts(f) /\ \A j \in Ids \ {i} : PartsOn(f, j) = <<>>
      BY <2>4 DEF PartsOn
    <2>6. ASSUME NEW j \in Ids
          PROVE  /\ said'[<<"up", j>>] = said[<<"up", j>>] \o PartsOn(f, j)
                 /\ said'[<<"down", j>>] = said[<<"down", j>>]
      <3>1. <<"up", j>> \in Up \cup Down /\ <<"down", j>> \in (Up \cup Down) \ {d}
        BY <2>2, Directions
      <3>2. CASE j = i
        BY <2>2, <2>3, <2>5, <3>1, <3>2
      <3>3. CASE j # i
        <4>1. <<"up", j>> # d
          BY <2>2, <3>3
        <4>2. said[<<"up", j>>] \o <<>> = said[<<"up", j>>]
          BY <1>1, <3>1, ConcatEmptySeq
        <4> QED
          BY <2>3, <2>5, <3>1, <3>3, <4>1, <4>2
      <3> QED
        BY <3>2, <3>3
    <2>7. ASSUME NEW j \in Ids
          PROVE  /\ Between(heard'[<<"up", j>>], cSock', j, said'[<<"up", j>>])
                 /\ Between(heard'[<<"down", j>>], sWriteBuf', j, said'[<<"down", j>>])
      <3>1. Between(heard[<<"up", j>>], Append(cSock, f), j, said[<<"up", j>>] \o PartsOn(f, j))
        BY <1>1, <1>2, <2>4, PartsJoin
      <3> QED
        BY <1>2, <2>1, <2>4, <2>6, <3>1
    <2> QED
      BY <1>1, <1>2, <2>3, <2>4, <2>6, <2>7 DEF Conveyed
  <1>5. ASSUME NEW i \in Ids, ServerSays(i) PROVE Promised /\ Conveyed'
    <2>1. PICK f : Speaks(<<"down", i>>, f) /\ sWriteBuf' = Append(sWriteBuf, f) /\ cSock' = cSock
      BY <1>5 DEF ServerSays
    <2>2. PICK d \in Up \cup Down : d = <<"down", i>> /\ d[2] = i
      BY Directions
    <2>8. heard[<<"up", i>>] # <<>>
      BY <1>2, <1>5 DEF ServerSays
    <2>3. /\ Promised
          /\ said'[d] = said[d] \o Parts(f) /\ \A e \in (Up \cup Down) \ {d} : said'[e] = said[e]
          /\ \A e \in Up \cup Down : Promise!OnlyLast(said'[e])
      BY <1>1, <1>2, <2>1, <2>2, <2>8, SpeaksPromised
    <2>4. f \in FrameType /\ f.id = i /\ heard' = heard /\ DOMAIN sEnded' = DOMAIN sEnded
      BY <2>1, <2>2 DEF Speaks
    <2>5. PartsOn(f, i) = Parts(f) /\ \A j \in Ids \ {i} : PartsOn(f, j) = <<>>
      BY <2>4 DEF PartsOn
    <2>6. ASSUME NEW j \in Ids
          PROVE  /\ said'[<<"down", j>>] = said[<<"down", j>>] \o PartsOn(f, j)
                 /\ said'[<<"up", j>>] = said[<<"up", j>>]
                 /\ j # i => said'[<<"down", j>>] = said[<<"down", j>>]
      <3>1. <<"down", j>> \in Up \cup Down /\ <<"up", j>> \in (Up \cup Down) \ {d}
        BY <2>2, Directions
      <3>2. CASE j = i
        BY <2>2, <2>3, <2>5, <3>1, <3>2
      <3>3. CASE j # i
        <4>1. <<"down", j>> # d
          BY <2>2, <3>3
        <4>2. said[<<"down", j>>] \o <<>> = said[<<"down", j>>]
          BY <1>1, <3>1, ConcatEmptySeq
        <4> QED
          BY <2>3, <2>5, <3>1, <3>3, <4>1, <4>2
      <3> QED
        BY <3>2, <3>3
    <2>7. ASSUME NEW j \in Ids
          PROVE  /\ Between(heard'[<<"up", j>>], cSock', j, said'[<<"up", j>>])
                 /\ Between(heard'[<<"down", j>>], sWriteBuf', j, said'[<<"down", j>>])
      <3>1. Between(heard[<<"down", j>>], Append(sWriteBuf, f), j,
                    said[<<"down", j>>] \o PartsOn(f, j))
        BY <1>1, <1>2, <2>4, PartsJoin
      <3> QED
        BY <1>2, <2>1, <2>4, <2>6, <3>1
    <2>9. ASSUME NEW j \in Ids, j \in DOMAIN sEnded' \/ said'[<<"down", j>>] # <<>>
          PROVE  heard'[<<"up", j>>] # <<>>
      <3>1. CASE j = i
        BY <2>4, <2>8, <3>1
      <3>2. CASE j # i
        BY <1>2, <2>4, <2>6, <2>9, <3>2
      <3> QED
        BY <3>1, <3>2
    <2> QED
      BY <1>1, <2>3, <2>4, <2>7, <2>9 DEF Conveyed
  <1>6. CASE ServerHears
    <2>1. PICK f : f = cSock[1]
      OBVIOUS
    <2>2. /\ cSock # <<>> /\ cSock' = Tail(cSock) /\ Conveys(sWriteBuf, sWriteBuf')
          /\ Hear("up", f) /\ said' = said /\ "up" \in {"up", "down"}
      BY <1>6, <2>1 DEF ServerHears
    <2>3. f \in FrameType
      BY <1>1, <2>1, <2>2, FrameTaken
    <2>4. ASSUME NEW i \in Ids
          PROVE  /\ Between(heard[<<"up", i>>] \o PartsOn(f, i), cSock', i, said[<<"up", i>>])
                 /\ Begins(heard[<<"up", i>>] \o PartsOn(f, i), said[<<"up", i>>])
      BY <1>1, <1>2, <2>1, <2>2, PartsLeave
    <2>5. /\ Promised /\ heard' \in [Up \cup Down -> Seq(PartType)]
          /\ \A i \in Ids : heard'[<<"up", i>>] = heard[<<"up", i>>] \o PartsOn(f, i)
          /\ \A d \in Up \cup Down : d[1] # "up" => heard'[d] = heard[d]
      <3>1. \A i \in Ids : Begins(heard[<<"up", i>>] \o PartsOn(f, i), said[<<"up", i>>])
        BY <2>4
      <3>2. PICK way \in {"up", "down"} : way = "up"
        OBVIOUS
      <3> QED
        BY <1>1, <2>2, <2>3, <3>1, <3>2, HearsPromised
    <2>6. ASSUME NEW i \in Ids
          PROVE  /\ Between(heard'[<<"up", i>>], cSock', i, said'[<<"up", i>>])
                 /\ Between(heard'[<<"down", i>>], sWriteBuf', i, said'[<<"down", i>>])
      <3>1. <<"down", i>> \in Up \cup Down
        BY Directions
      <3>2. heard'[<<"down", i>>] = heard[<<"down", i>>]
        BY <2>5, <3>1
      <3> QED
        BY <1>2, <2>2, <2>4, <2>5, <3>2 DEF Conveys
    <2>7. ASSUME NEW i \in Ids, i \in DOMAIN sEnded' \/ said'[<<"down", i>>] # <<>>
          PROVE  heard'[<<"up", i>>] # <<>>
      <3>1. PICK msg, parts : msg = heard[<<"up", i>>] /\ parts = PartsOn(f, i)
        OBVIOUS
      <3>2. msg \in Seq(PartType) /\ parts \in Seq(PartType)
        BY <1>1, <2>3, <3>1, Directions, FrameParts
      <3>3. msg # <<>> \/ parts # <<>>
        <4>1. CASE i \in DOMAIN sEnded \/ said[<<"down", i>>] # <<>>
          BY <1>2, <3>1, <4>1
        <4>2. CASE f.type = "HEADERS" /\ f.id = i
          <5>1. PICK end : end = f.end
            OBVIOUS
          <5>3. PICK head, tail : head = <<"headers">> /\ tail = EndPart(end)
            OBVIOUS
          <5>4. tail \in Seq(PartType)
            BY <5>3, EndParts
          <5>5. head \in Seq(PartType) /\ Len(head) = 1
            BY <5>3 DEF PartType
          <5>6. Parts(f) = head \o tail
            BY <4>2, <5>1, <5>3 DEF Parts
          <5>7. parts = head \o tail
            BY <3>1, <4>2, <5>6 DEF PartsOn
          <5> QED
            BY <3>2, <5>4, <5>5, <5>7, SomeLonger
        <4> QED
          <5>1. i \in DOMAIN sEnded' => i \in DOMAIN sEnded \/ (f.type = "HEADERS" /\ f.id = i)
            BY <1>6, <2>1 DEF ServerHears
          <5>2. said'[<<"down", i>>] # <<>> => said[<<"down", i>>] # <<>>
            BY <2>2
          <5> QED
            BY <2>7, <4>1, <4>2, <5>1, <5>2
      <3> QED
        BY <2>5, <3>1, <3>2, <3>3, SomeLonger
    <2> QED
      BY <1>2, <2>2, <2>5, <2>6, <2>7 DEF Conveyed
  <1>7. CASE ClientHears
    <2>1. PICK f : f = sWriteBuf[1]
      OBVIOUS
    <2>2. /\ sWriteBuf # <<>> /\ sWriteBuf' = Tail(sWriteBuf) /\ Conveys(cSock, cSock')
          /\ Hear("down", f) /\ said' = said /\ DOMAIN sEnded' = DOMAIN sEnded
      BY <1>7, <2>1 DEF ClientHears
    <2>3. f \in FrameType
      BY <1>1, <2>1, <2>2, FrameTaken
    <2>4. ASSUME NEW i \in Ids
          PROVE  /\ Between(heard[<<"down", i>>] \o PartsOn(f, i), sWriteBuf', i,
                            said[<<"down", i>>])
                 /\ Begins(heard[<<"down", i>>] \o PartsOn(f, i), said[<<"down", i>>])
      BY <1>1, <1>2, <2>1, <2>2, PartsLeave
    <2>5. /\ Promised /\ heard' \in [Up \cup Down -> Seq(PartType)]
          /\ \A i \in Ids : heard'[<<"down", i>>] = heard[<<"down", i>>] \o PartsOn(f, i)
          /\ \A d \in Up \cup Down : d[1] # "down" => heard'[d] = heard[d]
      <3>1. \A i \in Ids : Begins(heard[<<"down", i>>] \o PartsOn(f, i), said[<<"down", i>>])
        BY <2>4
      <3>2. PICK way \in {"up", "down"} : way = "down"
        OBVIOUS
      <3> QED
        BY <1>1, <2>2, <2>3, <3>1, <3>2, HearsPromised
    <2>6. ASSUME NEW i \in Ids
          PROVE  /\ Between(heard'[<<"up", i>>], cSock', i, said'[<<"up", i>>])
                 /\ Between(heard'[<<"down", i>>], sWriteBuf', i, said'[<<"down", i>>])
                 /\ heard'[<<"up", i>>] = heard[<<"up", i>>]
      <3>1. <<"up", i>> \in Up \cup Down
        BY Directions
      <3>2. heard'[<<"up", i>>] = heard[<<"up", i>>]
        BY <2>5, <3>1
      <3> QED
        BY <1>2, <2>2, <2>4, <2>5, <3>2 DEF Conveys
    <2> QED
      BY <1>2, <2>2, <2>5, <2>6 DEF Conveyed
  <1> QED
    BY <1>3, <1>4, <1>5, <1>6, <1>7 DEF Utterances

\* Frames about the connection bring no part of a message.
LEMMA ControlConveys ==
    ASSUME NEW buf \in Seq(FrameType), NEW next,
           \/ next = buf
           \/ \E f : Mute(f) /\ next = Append(buf, f)
           \/ \E f : Control(f) /\ next = Append(buf, f)
           \/ \E a, b : Control(a) /\ Control(b) /\ next = Append(Append(buf, a), b)
    PROVE  Conveys(buf, next)
  <1>1. \A f : Control(f) => Mute(f)
    BY DEF Control, Plain, Mute
  <1>2. CASE next = buf
    BY <1>2 DEF Conveys
  <1>3. CASE \E f : Mute(f) /\ next = Append(buf, f)
    BY <1>3, MuteJoins
  <1>4. CASE \E f : Control(f) /\ next = Append(buf, f)
    BY <1>1, <1>4, MuteJoins
  <1>5. CASE \E a, b : Control(a) /\ Control(b) /\ next = Append(Append(buf, a), b)
    <2>1. PICK a, b : Mute(a) /\ Mute(b) /\ next = Append(Append(buf, a), b)
      BY <1>1, <1>5
    <2>2. PICK one : one = Append(buf, a)
      OBVIOUS
    <2>3. Conveys(buf, one) /\ one \in Seq(FrameType)
      BY <2>1, <2>2, MuteJoins
    <2>4. Conveys(one, next)
      BY <2>1, <2>2, <2>3, MuteJoins
    <2> QED
      BY <2>3, <2>4 DEF Conveys
  <1> QED
    BY <1>2, <1>3, <1>4, <1>5

\* The steps in which no application speaks and no frame arrives.
LEMMA SilentSteps ==
    ASSUME LinkInv, ClientReady \/ ClientPolls \/ ServerPolls \/ GoAway \/ UNCHANGED vars
    PROVE  Silence
  <1>1. cSock \in Seq(FrameType) /\ sWriteBuf \in Seq(FrameType)
    BY Typed
  <1>2. CASE ClientReady \/ ClientPolls \/ ServerPolls
    <2>1. ClientWrites /\ said' = said /\ heard' = heard
      BY <1>2, ReadyMove, PollMoves DEF ClientReady, ClientPolls, ServerPolls
    <2>2. sEnded' = sEnded
      <3>1. CASE ClientReady \/ ClientPolls
        BY <3>1 DEF ClientReady, ClientPolls, serverVars
      <3>2. CASE ServerPolls
        <4>1. S!PollEvents
          BY <3>2, ServerActions DEF ServerPolls
        <4> QED
          BY <4>1 DEF S!PollEvents, S!TakeEvents, S!history
      <3> QED
        BY <1>2, <3>1, <3>2
    <2>3. Conveys(cSock, cSock') /\ Conveys(sWriteBuf, sWriteBuf')
      BY <1>1, <2>1, ControlConveys DEF ClientWrites
    <2> QED
      BY <2>1, <2>2, <2>3 DEF Silence
  <1>3. CASE GoAway
    <2>1. S!SendGoAway /\ UNCHANGED <<clientVars, said, heard>>
      BY <1>3, ServerActions DEF GoAway
    <2>2. sWriteBuf' = Append(sWriteBuf, S!Frame("GOAWAY", sLastClientStreamId, 0, FALSE))
          /\ sEnded' = sEnded
      BY <2>1 DEF S!SendGoAway, S!Emit, S!history
    <2>3. Control(S!Frame("GOAWAY", sLastClientStreamId, 0, FALSE))
      <3>1. sLastClientStreamId \in U31
        BY DEF LinkInv, ServerAlone, S!TypeOK, S!U31, U31
      <3> QED
        BY <3>1, FramesWritten
    <2>4. Conveys(cSock, cSock') /\ Conveys(sWriteBuf, sWriteBuf')
      BY <1>1, <2>1, <2>2, <2>3, ControlConveys DEF clientVars
    <2> QED
      BY <2>1, <2>2, <2>4 DEF Silence
  <1>4. CASE UNCHANGED vars
    BY <1>4 DEF Silence, Conveys, vars, clientVars, serverVars
  <1> QED
    BY <1>2, <1>3, <1>4

\* A request starts the message of its stream.
LEMMA AskSays ==
    ASSUME LinkInv, Ask
    PROVE  \E i \in Ids : ClientSays(i)
  <1>1. PICK end \in BOOLEAN : end = (Body(<<"up", cNextStreamId>>) = 0)
    OBVIOUS
  <1>2. /\ C!StartRequest(end) /\ UNCHANGED serverVars /\ heard' = heard
        /\ cNextStreamId \in Ids
        /\ Say(<<"up", cNextStreamId>>, <<"headers">> \o EndPart(end))
    BY <1>1, ClientActions DEF Ask
  <1>3. PICK i \in Ids : i = cNextStreamId
    BY <1>2
  <1>4. C!NewStreamId = i
    BY <1>2, <1>3, Assumptions, C!NewIdUnused DEF ClientAssumptions, LinkInv, ClientAlone
  <1>5. i \in U31 \ {0} /\ i \in Nat
    BY Bodies
  <1> DEFINE f == C!Frame("HEADERS", i, 0, end)
  <1>6. C!Emit(f)
    BY <1>2, <1>4 DEF C!StartRequest
  <1>7. f \in FrameType /\ f.type = "HEADERS" /\ f.id = i /\ f.end = end
    BY <1>5 DEF C!Frame, FrameType, C!FrameType, U31, C!U31
  <1> HIDE DEF f
  <1>8. cSock' = Append(cSock, f)
    <2>1. DataIn(f) <= MaxTraffic
      BY <1>7, LinkConstants DEF DataIn
    <2> QED
      BY <1>6, <1>7, <2>1, Typed, ClientEmits
  <1>9. Parts(f) = <<"headers">> \o EndPart(end)
    BY <1>7 DEF Parts
  <1>10. ~Finished(said[<<"up", i>>])
    <2>1. said[<<"up", i>>] = <<>>
      BY <1>3, <1>5 DEF LinkInv, BodiesKept
    <2> QED
      BY <2>1 DEF Finished, EndsIn
  <1>11. Speaks(<<"up", i>>, f)
    BY <1>2, <1>3, <1>7, <1>9, <1>10 DEF Speaks, serverVars
  <1>12. ClientSays(i)
    BY <1>2, <1>8, <1>11 DEF ClientSays, serverVars
  <1> QED
    BY <1>12

\* The client's application uploads a part of a body.
LEMMA UploadSays ==
    ASSUME TrafficFits, LinkInv, NEW i \in Ids, Upload(i)
    PROVE  ClientSays(i)
  <1> DEFINE d == <<"up", i>>
  <1>1. ~Finished(said[d])
    BY DEF Upload
  <1>2. PICK l \in Nat : l = Left(d)
    BY <1>1, Bodies, LeftType DEF LinkInv
  <1>3. C!SendData(i, l, TRUE) /\ UNCHANGED serverVars /\ heard' = heard
    BY <1>2, ClientActions DEF Upload
  <1>4. i \in DOMAIN cStreams
    BY <1>3 DEF C!SendData
  <1>5. PICK n \in U31 : n = C!ToSend(i, l) /\ Client!ToSend(i, l) = n
    BY <1>2, <1>4, ClientSendsLess
  <1>6. PICK isEnd \in BOOLEAN : isEnd = (n = l)
    OBVIOUS
  <1>7. Say(d, Bytes(n) \o EndPart(isEnd))
    BY <1>2, <1>5, <1>6 DEF Upload
  <1> HIDE DEF d
  <1>8. n \in Nat /\ i \in U31
    <2>1. n \in Nat
      BY LinkConstants DEF U31
    <2>2. i \in U31
      BY Bodies
    <2> QED
      BY <2>1, <2>2
  <1> DEFINE f == C!Frame("DATA", i, n, isEnd)
  <1>9. C!Emit(f) /\ cSent[0] + cRcvd + n <= MaxTraffic
    BY <1>3, <1>5, <1>6 DEF C!SendData
  <1>10. f \in FrameType /\ f.type = "DATA" /\ f.id = i /\ f.n = n /\ f.end = isEnd
    BY <1>8 DEF C!Frame, FrameType, C!FrameType, U31, C!U31
  <1> HIDE DEF f
  <1>11. cSock' = Append(cSock, f)
    <2>1. cSent[0] \in Nat /\ cRcvd \in Nat
      BY Typed
    <2>2. DataIn(f) <= MaxTraffic
      BY <1>8, <1>9, <1>10, <2>1, LinkConstants DEF DataIn
    <2> QED
      BY <1>9, <1>10, <2>2, Typed, ClientEmits
  <1>12. Parts(f) = Bytes(n) \o EndPart(isEnd)
    BY <1>10 DEF Parts
  <1>13. Speaks(<<"up", i>>, f)
    BY <1>1, <1>3, <1>7, <1>10, <1>12 DEF Speaks, serverVars, d
  <1> QED
    BY <1>3, <1>11, <1>13 DEF ClientSays, serverVars

\* The server's application answers with headers, or gives the stream up.
LEMMA AnswerSays ==
    ASSUME LinkInv, NEW i \in Ids, Answer(i) \/ Reset(i)
    PROVE  ServerSays(i)
  <1>1. PICK end \in BOOLEAN : end = (Body(<<"down", i>>) = 0)
    OBVIOUS
  <1>2. i \in U31
    BY Bodies
  <1>3. /\ UNCHANGED clientVars /\ heard' = heard /\ i \in DOMAIN sEnded
        /\ ~Finished(said[<<"down", i>>])
    BY DEF Answer, Reset, Known, Begun, Finished, EndsIn
  <1>4. PICK f \in FrameType :
           /\ f.id = i /\ sWriteBuf' = Append(sWriteBuf, f) /\ DOMAIN sEnded' = DOMAIN sEnded
           /\ Say(<<"down", i>>, Parts(f))
    <2>1. CASE Answer(i)
      <3>1. S!SendHeaders(i, end) /\ Say(<<"down", i>>, <<"headers">> \o EndPart(end))
        BY <1>1, <2>1, ServerActions DEF Answer
      <3> DEFINE f == S!Frame("HEADERS", i, 0, end)
      <3>2. sWriteBuf' = Append(sWriteBuf, f) /\ DOMAIN sEnded' = DOMAIN sEnded
        BY <3>1 DEF S!SendHeaders, S!Emit, S!Mark
      <3>3. f \in FrameType /\ f.type = "HEADERS" /\ f.id = i /\ f.end = end
        BY <1>2 DEF S!Frame, FrameType, C!FrameType, U31, C!U31
      <3> HIDE DEF f
      <3>4. Parts(f) = <<"headers">> \o EndPart(end)
        BY <3>3 DEF Parts
      <3> QED
        BY <3>1, <3>2, <3>3, <3>4
    <2>2. CASE Reset(i)
      <3>1. S!SendReset(i) /\ Say(<<"down", i>>, <<"reset">>)
        BY <2>2, ServerActions DEF Reset
      <3> DEFINE f == S!Frame("RST_STREAM", i, 0, FALSE)
      <3>2. sWriteBuf' = Append(sWriteBuf, f) /\ DOMAIN sEnded' = DOMAIN sEnded
        BY <3>1 DEF S!SendReset, S!Emit, S!Mark
      <3>3. f \in FrameType /\ f.type = "RST_STREAM" /\ f.id = i
        BY <1>2 DEF S!Frame, FrameType, C!FrameType, U31, C!U31
      <3> HIDE DEF f
      <3>4. Parts(f) = <<"reset">>
        BY <3>3 DEF Parts
      <3> QED
        BY <3>1, <3>2, <3>3, <3>4
    <2> QED
      BY <2>1, <2>2
  <1>5. Speaks(<<"down", i>>, f)
    BY <1>3, <1>4 DEF Speaks
  <1> QED
    BY <1>3, <1>4, <1>5 DEF ServerSays, clientVars

\* The server's application sends a part of a body.
LEMMA RespondSays ==
    ASSUME LinkInv, NEW i \in Ids, Respond(i)
    PROVE  ServerSays(i)
  <1> DEFINE d == <<"down", i>>
  <1>1. ~Finished(said[d]) /\ said[d] # <<>>
    BY DEF Respond, Begun
  <1>2. PICK l \in Nat : l = Left(d)
    BY <1>1, Bodies, LeftType DEF LinkInv
  <1>3. PICK len : len = Server!Lesser(l, sRemote.maxFrame)
    OBVIOUS
  <1>4. len \in Nat /\ len <= l
    <2>1. sRemote.maxFrame = DefaultMaxFrame
      BY DEF LinkInv, ServerAlone, LocalSettings
    <2> QED
      BY <1>2, <1>3, <2>1, LinkConstants DEF Server!Lesser
  <1>5. PICK end \in BOOLEAN : end = (len = l)
    OBVIOUS
  <1>6. S!SendData(i, len, end) /\ UNCHANGED clientVars /\ heard' = heard
    BY <1>2, <1>3, <1>5, ServerActions DEF Respond
  <1>7. i \in DOMAIN sStreams
    BY <1>6 DEF S!SendData
  <1>8. PICK n \in Nat : n = S!ToSend(i, len) /\ Server!ToSend(i, len) = n /\ n <= len
    BY <1>4, <1>7, ServerSendsLess
  <1>9. PICK isEnd \in BOOLEAN : isEnd = (n = l)
    OBVIOUS
  <1>10. isEnd = (end /\ n = len)
    <2>1. n = l => len = l
      BY <1>2, <1>4, <1>8
    <2> QED
      BY <1>5, <1>9, <2>1
  <1>11. Say(d, Bytes(n) \o EndPart(isEnd))
    BY <1>2, <1>3, <1>8, <1>9 DEF Respond
  <1> HIDE DEF d
  <1>12. i \in U31
    BY Bodies
  <1> DEFINE f == S!Frame("DATA", i, n, isEnd)
  <1>13. sWriteBuf' = Append(sWriteBuf, f) /\ DOMAIN sEnded' = DOMAIN sEnded
    BY <1>6, <1>8, <1>10 DEF S!SendData, S!SendOn, S!Emit, S!Mark
  <1>14. f \in FrameType /\ f.type = "DATA" /\ f.id = i /\ f.n = n /\ f.end = isEnd
    BY <1>12 DEF S!Frame, FrameType, C!FrameType, U31, C!U31
  <1> HIDE DEF f
  <1>15. Parts(f) = Bytes(n) \o EndPart(isEnd)
    BY <1>14 DEF Parts
  <1>16. Speaks(<<"down", i>>, f)
    BY <1>1, <1>6, <1>11, <1>13, <1>14, <1>15 DEF Speaks, d
  <1> QED
    BY <1>1, <1>6, <1>13, <1>16 DEF ServerSays, clientVars, d

\* The server takes a frame.
LEMMA ToServerHears ==
    ASSUME TrafficFits, LinkInv, ToServer
    PROVE  ServerHears
  <1>1. /\ cSock # <<>> /\ cSock' = Tail(cSock) /\ cSock[1] \in FrameType
        /\ ServerTakes(cSock[1])
    BY ClientGives
  <1>2. cSock \in Seq(FrameType) /\ sWriteBuf \in Seq(FrameType)
    BY Typed
  <1>3. Hear("up", cSock[1]) /\ said' = said
    <2>1. Head(cSock) = cSock[1]
      BY <1>1, <1>2, FrameTaken
    <2> QED
      BY <2>1 DEF ToServer
  <1>4. Conveys(sWriteBuf, sWriteBuf')
    <2>1. \A g : Refill(g) => Mute(g)
      BY DEF Refill, Mute
    <2>2. CASE cSock[1].type \notin {"HEADERS", "DATA", "WINDOW_UPDATE"}
      BY <1>2, <2>2, ServerPlainMoves, ControlConveys DEF ServerTakesPlain
    <2>3. CASE cSock[1].type = "HEADERS"
      BY <1>2, <2>3, RequestMove, ControlConveys DEF ServerOpens
    <2>4. CASE cSock[1].type = "DATA"
      <3>1. sWriteBuf' = sWriteBuf \/ \E g : Refill(g) /\ sWriteBuf' = Append(sWriteBuf, g)
        BY <2>4, ServerDataMove DEF ServerTakesData
      <3> QED
        BY <1>2, <2>1, <3>1, ControlConveys
    <2>5. CASE cSock[1].type = "WINDOW_UPDATE"
      BY <1>2, <2>5, ServerCreditMove, ControlConveys DEF ServerCredited
    <2> QED
      BY <2>2, <2>3, <2>4, <2>5
  <1>5. PICK type, i, n, end : /\ type = cSock[1].type /\ i = cSock[1].id
                               /\ n = cSock[1].n /\ end = cSock[1].end
    OBVIOUS
  <1>6. \/ DOMAIN sEnded' = DOMAIN sEnded
        \/ type = "HEADERS" /\ \A j \in DOMAIN sEnded' : j \in DOMAIN sEnded \/ j = i
    <2>1. CASE Server!RecvPreface
      <3>1. sEnded' = sEnded
        BY <2>1, ServerActions DEF S!RecvPreface, S!history
      <3> QED
        BY <3>1
    <2>2. CASE Server!RecvSettings(LocalSettings)
      <3>1. sEnded' = sEnded
        BY <2>2, ServerActions DEF S!RecvSettings, S!HandleSettings, S!history
      <3> QED
        BY <3>1
    <2>3. CASE UNCHANGED serverVars
      <3>1. sEnded' = sEnded
        BY <2>3 DEF serverVars
      <3> QED
        BY <3>1
    <2>4. CASE type = "HEADERS" /\ Server!RecvRequest(i, end)
      <3>1. PICK ends : sEnded' = S!Insert(sEnded, i, ends)
        BY <2>4, ServerActions DEF S!RecvRequest, S!OpenStream
      <3> QED
        BY <2>4, <3>1 DEF S!Insert
    <2>5. CASE Server!RecvData(i, n, end)
      <3>1. S!Mark(i, S!EndMark(end, "remote"))
        BY <2>5, ServerActions DEF S!RecvData, S!HandleData
      <3>2. DOMAIN sEnded' = DOMAIN sEnded
        BY <3>1 DEF S!Mark
      <3> QED
        BY <3>2
    <2>6. CASE Server!RecvWindowUpdate(i, n)
      <3>1. S!RecvWindowUpdate(i, n)
        BY <2>6, ServerActions
      <3>2. sEnded' = sEnded
        BY <3>1
           DEF S!RecvWindowUpdate, S!CreditConnection, S!CreditStream, S!RejectCredit, S!history
      <3> QED
        BY <3>2
    <2> QED
      BY <1>1, <1>5, <2>1, <2>2, <2>3, <2>4, <2>5, <2>6 DEF ServerTakes
  <1>7. ASSUME NEW j \in DOMAIN sEnded'
        PROVE  j \in DOMAIN sEnded \/ (cSock[1].type = "HEADERS" /\ cSock[1].id = j)
    <2>1. PICK now, was : now = DOMAIN sEnded' /\ was = DOMAIN sEnded
      OBVIOUS
    <2>2. now = was \/ (type = "HEADERS" /\ \A k \in now : k \in was \/ k = i)
      BY <1>6, <2>1
    <2>4. j \in now
      BY <1>7, <2>1
    <2>3. j \in was \/ (type = "HEADERS" /\ j = i)
      BY <2>2, <2>4
    <2> QED
      BY <1>5, <2>1, <2>3
  <1> QED
    BY <1>1, <1>3, <1>4, <1>7 DEF ServerHears

\* The client takes a frame.
LEMMA ToClientHears ==
    ASSUME TrafficFits, LinkInv, ToClient
    PROVE  ClientHears
  <1>1. sWriteBuf # <<>> /\ sWriteBuf' = Tail(sWriteBuf) /\ sWriteBuf[1] \in FrameType
    BY ServerGives
  <1>2. cSock \in Seq(FrameType) /\ sWriteBuf \in Seq(FrameType)
    BY Typed
  <1>3. Hear("down", sWriteBuf[1]) /\ said' = said
    <2>1. Head(sWriteBuf) = sWriteBuf[1]
      BY <1>1, <1>2, FrameTaken
    <2> QED
      BY <2>1 DEF ToClient
  <1>4. Conveys(cSock, cSock')
    <2>1. \A g : Refill(g) => Mute(g)
      BY DEF Refill, Mute
    <2>2. CASE sWriteBuf[1].type \notin {"DATA", "WINDOW_UPDATE"}
      BY <1>2, <2>2, ClientPlainMoves, ControlConveys DEF ClientTakesPlain
    <2>3. CASE sWriteBuf[1].type = "DATA"
      <3>1. cSock' = cSock \/ \E g : Refill(g) /\ cSock' = Append(cSock, g)
        BY <2>3, ClientDataMove DEF ClientTakesData
      <3> QED
        BY <1>2, <2>1, <3>1, ControlConveys
    <2>4. CASE sWriteBuf[1].type = "WINDOW_UPDATE"
      BY <1>2, <2>4, ClientCreditMove, ControlConveys DEF ClientCredited
    <2> QED
      BY <2>2, <2>3, <2>4
  <1>5. sEnded' = sEnded
    <2>1. S!AdvanceSend
      BY ServerActions DEF ToClient
    <2> QED
      BY <2>1 DEF S!AdvanceSend, S!history
  <1> QED
    BY <1>1, <1>3, <1>4, <1>5 DEF ClientHears

\* Every step says a part of a message, lets one be heard, or does neither.
LEMMA NextUtterances ==
    ASSUME TrafficFits, LinkInv, [Next]_vars
    PROVE  Utterances
  <1>1. CASE ClientReady \/ ClientPolls \/ ServerPolls \/ GoAway \/ UNCHANGED vars
    BY <1>1, SilentSteps DEF Utterances
  <1>2. CASE Ask
    BY <1>2, AskSays DEF Utterances
  <1>3. CASE \E i \in Ids : Upload(i) \/ Respond(i)
    BY <1>3, UploadSays, RespondSays DEF Utterances
  <1>4. CASE \E i \in Ids : Answer(i) \/ Reset(i)
    BY <1>4, AnswerSays DEF Utterances
  <1>5. CASE ToServer
    BY <1>5, ToServerHears DEF Utterances
  <1>6. CASE ToClient
    BY <1>6, ToClientHears DEF Utterances
  <1> QED
    BY <1>1, <1>2, <1>3, <1>4, <1>5, <1>6 DEF Next, Work, Refuse

\* Nothing is said, under way or heard at first.
LEMMA InitConveyed ==
    ASSUME Init
    PROVE  Conveyed /\ Promise!Init
  <1>1. cSock = <<>> /\ sWriteBuf = <<>> /\ sEnded = <<>>
    BY DEF Init, Client!Init, Server!Init, Server!EndpointInit
  <1>2. said = [d \in Up \cup Down |-> <<>>] /\ heard = [d \in Up \cup Down |-> <<>>]
    BY DEF Init
  <1>3. \A d \in Up \cup Down : said[d] = <<>> /\ heard[d] = <<>>
    BY <1>2
  <1>4. heard \in [Up \cup Down -> Seq(PartType)]
    BY <1>2
  <1>5. Promise!OnlyLast(<<>>)
    <2>1. Len(<<>>) = 0
      OBVIOUS
    <2>2. 1 .. Len(<<>>) - 1 = {}
      BY <2>1
    <2> QED
      BY <2>2 DEF Promise!OnlyLast
  <1>6. ASSUME NEW i PROVE Between(<<>>, <<>>, i, <<>>)
    <2>1. PICK none \in Seq(PartType) : none = <<>>
      <3>1. <<>> \in Seq(PartType)
        OBVIOUS
      <3> QED
        BY <3>1
    <2>2. Len(none) = 0
      BY <2>1
    <2> DEFINE marks == [k \in 0 .. 0 |-> none]
    <2>3. marks \in [0 .. 0 -> Seq(PartType)] /\ marks[0] = none
      OBVIOUS
    <2> HIDE DEF marks
    <2>4. Begins(none, none)
      BY <2>2 DEF Begins
    <2>5. \A k \in 0 .. 0 : Begins(marks[k], none)
      BY <2>3, <2>4
    <2>6. 1 .. 0 = {}
      OBVIOUS
    <2>7. Between(none, none, i, none)
      BY <2>2, <2>3, <2>5, <2>6 DEF Between
    <2> QED
      BY <2>1, <2>7
  <1>7. Conveyed
    <2>1. DOMAIN sEnded = {}
      BY <1>1
    <2> QED
      BY <1>1, <1>3, <1>4, <1>5, <1>6, <2>1, Directions DEF Conveyed
  <1>8. Promise!Init
    BY <1>2, Directions DEF Promise!Init
  <1> QED
    BY <1>7, <1>8

-------------------------------------------------------------------------------
(***************************************************************************)
(* The theorems                                                            *)
(***************************************************************************)

\* The ends start as a Connection and a ServerConnection do.
LEMMA EndsInit ==
    ASSUME Init
    PROVE  C!Init /\ S!Init
  <1>1. C!Init
    BY DEF Init, Client!Init, C!Init, Client!EndpointInit, C!EndpointInit,
           Client!NewFlow, C!NewFlow, Client!AsI32, C!AsI32, Client!U32Max, C!U32Max,
           Client!U32Mod, C!U32Mod
  <1>2. S!Init
    BY DEF Init, Server!Init, S!Init, Server!EndpointInit, S!EndpointInit,
           Server!NewFlow, S!NewFlow, Server!AsI32, S!AsI32, Server!U32Max, S!U32Max,
           Server!U32Mod, S!U32Mod
  <1> QED
    BY <1>1, <1>2

\* Nothing is under way at first, and nobody has said anything.
LEMMA InitLinkInv == Init => LinkInv
  <1> SUFFICES ASSUME Init PROVE LinkInv
    OBVIOUS
  <1>1. C!Init /\ S!Init
    BY EndsInit
  <1>2. /\ C!EndpointInit /\ S!EndpointInit
        /\ cTransport = "Ready" /\ cNextStreamId = 1 /\ cSock = <<>>
    BY <1>1 DEF C!Init, S!Init
  <1>3. /\ cStreams = <<>> /\ sStreams = <<>> /\ cWriteBuf = <<>> /\ sWriteBuf = <<>>
        /\ cSent[0] = 0 /\ cCredit[0] = 0 /\ cRcvd = 0 /\ cGranted = 0 /\ cFlow.consumed = 0
        /\ sSent[0] = 0 /\ sCredit[0] = 0 /\ sRcvd = 0 /\ sGranted = 0 /\ sFlow.consumed = 0
        /\ cRemote = LocalSettings /\ sRemote = LocalSettings
        /\ cEnded = <<>> /\ sEnded = <<>>
    BY <1>2 DEF C!EndpointInit, S!EndpointInit, C!NewFlow, S!NewFlow, LocalSettings
  <1>4. ClientAlone
    <2>1. C!TypeOK /\ C!Ledger
      BY <1>1, <1>2, Assumptions, C!InitTypeOK, C!InitLedger DEF ClientAssumptions
    <2>2. C!IdsBelowNext
      BY <1>3 DEF C!IdsBelowNext
    <2> QED
      BY <1>2, <1>3, <2>1, <2>2, LinkConstants DEF ClientAlone
  <1>5. ServerAlone
    <2>1. S!TypeOK /\ S!Ledger
      BY <1>1, <1>2, Assumptions, S!InitTypeOK, S!InitLedger DEF ServerAssumptions, S!Init
    <2>2. S!IdsRemembered
      BY <1>3 DEF S!IdsRemembered
    <2> QED
      BY <1>3, <2>1, <2>2, LinkConstants DEF ServerAlone
  <1>6. /\ cSock \in Seq(FrameType) /\ sWriteBuf \in Seq(FrameType)
        /\ DOMAIN cSock = {} /\ DOMAIN sWriteBuf = {}
        /\ DOMAIN cStreams = {} /\ DOMAIN sStreams = {}
    BY <1>2, <1>3
  <1>7. /\ Data(cSock) = 0 /\ Credits(cSock) = 0 /\ Data(sWriteBuf) = 0 /\ Credits(sWriteBuf) = 0
    BY <1>2, <1>3, <1>6, UnderWayType
  <1>8. FramesSound
    BY <1>6 DEF FramesSound, AllSound
  <1>9. AccountsAgree
    BY <1>3, <1>7 DEF AccountsAgree
  <1>10. OneWithholdsLittle
    BY <1>3, LinkConstants DEF OneWithholdsLittle
  <1>11. StreamsKnown
    BY <1>6 DEF StreamsKnown, Opening, Answering
  <1>12. StreamWindows
    BY <1>6 DEF StreamWindows
  <1>13. BodiesKept
    <2>1. said = [d \in Up \cup Down |-> <<>>]
      BY DEF Init
    <2>2. \A d \in Up \cup Down : said[d] = <<>>
      BY <2>1
    <2>3. \A d \in Up \cup Down : Body(d) \in Nat /\ Len(said[d]) = 0
      <3>1. ASSUME NEW d \in Up \cup Down PROVE Body(d) \in Nat
        <4>1. PICK i \in Ids : d = <<"up", i>> \/ d = <<"down", i>>
          BY DEF Up, Down
        <4> QED
          BY <4>1, Bodies
      <3> QED
        BY <2>2, <3>1
    <2>4. \A d \in Up \cup Down : Len(said[d]) <= Body(d) + 1
      BY <2>3
    <2>5. \A i \in Ids : said[<<"up", i>>] = <<>>
      BY <2>2, Bodies
    <2>6. said \in [Up \cup Down -> Seq({"headers", "byte", "end", "reset"})]
      BY <2>1
    <2> QED
      BY <2>4, <2>5, <2>6 DEF BodiesKept
  <1> QED
    BY <1>4, <1>5, <1>8, <1>9, <1>10, <1>11, <1>12, <1>13 DEF LinkInv

\* Every step of the two ends together keeps the invariant.
LEMMA NextLinkInv ==
    ASSUME TrafficFits
    PROVE  LinkInv /\ [Next]_vars => LinkInv'
  <1> SUFFICES ASSUME LinkInv, [Next]_vars PROVE LinkInv'
    OBVIOUS
  <1>1. Ends /\ Moves
    BY NextMoves
  <1>2. ClientAlone' /\ ServerAlone'
    BY <1>1 DEF Ends
  <1>3. FramesSound' /\ AccountsAgree' /\ OneWithholdsLittle' /\ StreamsKnown' /\ StreamWindows'
    BY <1>1, FramesKept, AccountsKept, StreamsKnownKept, WindowsKept
  <1>4. BodiesKept'
    BY BodiesStay
  <1> QED
    BY <1>2, <1>3, <1>4 DEF LinkInv

\* The inductive invariant of the joined ends: what holds of each of them alone,
\* and that the accounts which the two keep of the same bytes, credit and streams
\* agree but for what is under way.
THEOREM LinkInvariant ==
    ASSUME TrafficFits
    PROVE  Spec => []LinkInv
  <1>1. Init => LinkInv
    BY InitLinkInv
  <1>2. LinkInv /\ [Next]_vars => LinkInv'
    BY NextLinkInv
  <1> QED
    BY <1>1, <1>2, PTL DEF Spec

\* Each end of a connection between a client and a server of this library behaves
\* as Connection and ServerConnection do under a peer that sends any frame its
\* decoder lets through: what is proved of them for every peer holds of both here.
THEOREM LinkImplementsEnds ==
    ASSUME TrafficFits
    PROVE  Spec => C!Spec /\ S!Spec
  <1>1. Init => C!Init /\ S!Init
    BY EndsInit
  <1>2. LinkInv /\ [Next]_vars => [C!Next]_C!vars /\ [S!Next]_S!vars
    BY NextMoves DEF Ends
  <1> QED
    BY <1>1, <1>2, LinkInvariant, PTL DEF Spec, C!Spec, S!Spec

\* The shared window and counter of each end are exact under what the other end
\* really sends and grants.
THEOREM LedgersExactHolds ==
    ASSUME TrafficFits
    PROVE  Spec => []LedgersExact
  <1>1. LinkInv => LedgersExact
    <2> SUFFICES ASSUME LinkInv PROVE LedgersExact
      OBVIOUS
    <2>1. C!ConnLedger /\ S!ConnLedger
      BY Typed DEF C!Ledger, S!Ledger
    <2> QED
      BY <2>1 DEF LedgersExact, Client!ConnLedger, C!ConnLedger, Server!ConnLedger, S!ConnLedger
  <1> QED
    BY <1>1, LinkInvariant, PTL

\* The sender and the receiver of each direction of each stream agree on its window,
\* but for the DATA under way.
THEOREM StreamWindowsAgreeHolds ==
    ASSUME TrafficFits
    PROVE  Spec => []StreamWindowsAgree
  <1>1. LinkInv => StreamWindowsAgree
    BY DEF LinkInv, StreamWindows, StreamWindowsAgree
  <1> QED
    BY <1>1, LinkInvariant, PTL

\* When nothing is under way both ends see the same connection window, and more than
\* half of it is left: the two never wait for each other.
THEOREM ConnectionWindowsAgreeHolds ==
    ASSUME TrafficFits
    PROVE  Spec => []ConnectionWindowsAgree
  <1>1. LinkInv => ConnectionWindowsAgree
    <2> SUFFICES ASSUME LinkInv, Quiet
                 PROVE  cFlow.window = sFlow.window /\ cFlow.window > DefaultWindow \div 2
      BY DEF ConnectionWindowsAgree
    <2>1. Data(cSock) = 0 /\ Data(sWriteBuf) = 0 /\ Credits(cSock) = 0 /\ Credits(sWriteBuf) = 0
      BY Typed, UnderWayType DEF Quiet
    <2>2. PICK c0, c1, c2, c3, s0, s1, s2, s3, cc, sc \in Nat :
             /\ c0 = cSent[0] /\ c1 = cCredit[0] /\ c2 = cRcvd /\ c3 = cGranted
             /\ s0 = sSent[0] /\ s1 = sCredit[0] /\ s2 = sRcvd /\ s3 = sGranted
             /\ cc = cFlow.consumed /\ sc = sFlow.consumed
      BY Typed
    <2>3. c0 = s2 + 0 /\ s0 = c2 + 0 /\ c3 = s1 + 0 /\ s3 = c1 + 0
      BY <2>1, <2>2 DEF LinkInv, AccountsAgree
    <2>4. /\ cc = c0 + c2 - c3 /\ cFlow.window = DefaultWindow + c1 - cc
          /\ sc = s0 + s2 - s3 /\ sFlow.window = DefaultWindow + s1 - sc
      BY <2>2, Typed, CreditFits DEF C!Ledger, C!ConnLedger, S!Ledger, S!ConnLedger
    <2>5. cc < DefaultWindow \div 2 \/ sc < DefaultWindow \div 2
      BY <2>1, <2>2 DEF LinkInv, OneWithholdsLittle
    <2>6. PICK h \in Nat : h = DefaultWindow \div 2 /\ 2 * h <= DefaultWindow
      BY LinkConstants
    <2>7. DefaultWindow + c1 - cc = DefaultWindow + s1 - sc
      BY <2>3, <2>4, LinkConstants
    <2>8. DefaultWindow + c1 - cc > h
      BY <2>5, <2>6, <2>7, LinkConstants
    <2> QED
      BY <2>4, <2>6, <2>7, <2>8
  <1> QED
    BY <1>1, LinkInvariant, PTL

\* A client and a server joined keep the promise of Exchange: each direction of each
\* stream delivers its message as it was handed over, every byte once and in order and
\* its end only after all of it, whatever the windows, refills and resets between.
THEOREM MessagesArriveHolds ==
    ASSUME TrafficFits
    PROVE  Spec => MessagesArrive
  <1>1. Init => Conveyed /\ Promise!Init
    BY InitConveyed
  <1>2. LinkInv /\ Conveyed /\ [Next]_vars => Promised /\ Conveyed'
    BY NextUtterances, UtterancesPromised
  <1> QED
    BY <1>1, <1>2, LinkInvariant, PTL DEF Spec, MessagesArrive, Promise!Spec, Promised
===============================================================================
