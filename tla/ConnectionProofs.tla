-------------------------- MODULE ConnectionProofs --------------------------
(***************************************************************************)
(* The deadlines of a TCP connection hold for every AUTH and idle timeout  *)
(* and every socket buffer size.  The inductive invariant ties the time    *)
(* left of a wait to the clock it is measured by: before AUTH to the age   *)
(* of the connection, after AUTH to the time since the last input.         *)
(***************************************************************************)
EXTENDS Connection, TLAPS

(* Before AUTH the deadline is fixed, and nothing has been answered unless
   the answer is the refusal that ends the connection. *)
BeforeAuth ==
    ~authed => /\ ~Over => age <= AUTH_TIMEOUT
               /\ Timed => left + age = AUTH_TIMEOUT
               /\ phase \in {"handshake", "burst", "flush", "fill"} => out = 0 /\ snd = 0
               /\ phase = "closing" => out + snd <= 1

(* After AUTH a wait began when the last input was taken. *)
AfterAuth ==
    authed => /\ phase # "handshake"
              /\ phase \in {"flush", "fill"} => quiet + left = IDLE
              /\ phase = "flush" /\ ~stalled => left = IDLE

(* A burst has frames only if it follows a read, and a socket with nothing to
   read has been silent since the last one. *)
InputClocks ==
    /\ phase = "handshake" => buf = <<>>
    /\ phase = "burst" => quiet = 0 \/ buf = <<>>
    /\ phase = "burst" /\ authed => quiet = 0
    /\ quiet <= IDLE + 1 /\ silent <= IDLE + 1
    /\ rcv = <<>> => silent >= quiet

IInv == TypeOK /\ BeforeAuth /\ AfterAuth /\ InputClocks /\ KeepaliveEnough

LEMMA InitIInv == Init => IInv
<1> SUFFICES ASSUME Init PROVE IInv  OBVIOUS
<1> USE ClockAssumption DEF Init
<1>1. TypeOK
  <2>1. phase \in Phases  BY DEF Phases
  <2>2. rcv \in Seq(Part) /\ buf \in Seq(Part)  OBVIOUS
  <2> QED  BY <2>1, <2>2 DEF TypeOK
<1>2. BeforeAuth  BY DEF BeforeAuth, Over, Timed
<1>3. AfterAuth  BY DEF AfterAuth
<1>4. InputClocks  BY DEF InputClocks
<1>5. KeepaliveEnough  BY DEF KeepaliveEnough
<1> QED  BY <1>1, <1>2, <1>3, <1>4, <1>5 DEF IInv

LEMMA NextIInv == IInv /\ [Next]_vars => IInv'
<1> SUFFICES ASSUME IInv, [Next]_vars PROVE IInv'  OBVIOUS
<1> USE ClockAssumption DEF IInv, TypeOK, Phases
<1>1. CASE \E k \in Kinds : SendHeader(k)
  <2> PICK k \in Kinds : SendHeader(k)  BY <1>1
  <2>1. TypeOK'  BY DEF SendHeader, clocks, Part
  <2>2. BeforeAuth'  BY DEF SendHeader, clocks, BeforeAuth, Over, Timed
  <2>3. AfterAuth'  BY DEF SendHeader, clocks, AfterAuth
  <2>4. InputClocks'  BY DEF SendHeader, clocks, InputClocks
  <2>5. KeepaliveEnough'  BY DEF SendHeader, clocks, KeepaliveEnough, Over
  <2> QED  BY <2>1, <2>2, <2>3, <2>4, <2>5
<1>2. CASE SendBody
  <2>1. TypeOK'  BY <1>2 DEF SendBody, clocks, Part
  <2>2. BeforeAuth'  BY <1>2 DEF SendBody, clocks, BeforeAuth, Over, Timed
  <2>3. AfterAuth'  BY <1>2 DEF SendBody, clocks, AfterAuth
  <2>4. InputClocks'  BY <1>2 DEF SendBody, clocks, InputClocks
  <2>5. KeepaliveEnough'  BY <1>2 DEF SendBody, clocks, KeepaliveEnough, Over
  <2> QED  BY <2>1, <2>2, <2>3, <2>4, <2>5
<1>3. CASE PeerReads
  <2>1. TypeOK'  BY <1>3 DEF PeerReads, clocks, Part
  <2>2. BeforeAuth'  BY <1>3 DEF PeerReads, clocks, BeforeAuth, Over, Timed
  <2>3. AfterAuth'  BY <1>3 DEF PeerReads, clocks, AfterAuth
  <2>4. InputClocks'  BY <1>3 DEF PeerReads, clocks, InputClocks
  <2>5. KeepaliveEnough'  BY <1>3 DEF PeerReads, clocks, KeepaliveEnough
  <2> QED  BY <2>1, <2>2, <2>3, <2>4, <2>5
<1>4. CASE PeerLeaves
  <2>1. TypeOK'  BY <1>4 DEF PeerLeaves, clocks, Part
  <2>2. BeforeAuth'  BY <1>4 DEF PeerLeaves, clocks, BeforeAuth, Over, Timed
  <2>3. AfterAuth'  BY <1>4 DEF PeerLeaves, clocks, AfterAuth
  <2>4. InputClocks'  BY <1>4 DEF PeerLeaves, clocks, InputClocks
  <2>5. KeepaliveEnough'  BY <1>4 DEF PeerLeaves, clocks, KeepaliveEnough
  <2> QED  BY <2>1, <2>2, <2>3, <2>4, <2>5
<1>5. CASE Handshake
  <2>1. TypeOK'  BY <1>5 DEF Handshake, clocks, Part
  <2>2. BeforeAuth'  BY <1>5 DEF Handshake, clocks, BeforeAuth, Over, Timed
  <2>3. AfterAuth'  BY <1>5 DEF Handshake, clocks, AfterAuth
  <2>4. InputClocks'  BY <1>5 DEF Handshake, clocks, InputClocks, AfterAuth
  <2>5. KeepaliveEnough'  BY <1>5 DEF Handshake, clocks, KeepaliveEnough
  <2> QED  BY <2>1, <2>2, <2>3, <2>4, <2>5
<1>6. CASE Frame
  <2>1. TypeOK'
    <3>1. buf' \in Seq(Part)
      <4>1. buf # <<>>  BY <1>6 DEF Frame, Drained
      <4>2. Tail(buf) \in Seq(Part) /\ Len(Tail(buf)) = Len(buf) - 1  BY <4>1
      <4>3. CASE TooLarge(Head(buf).of)  BY <1>6, <4>2, <4>3 DEF Frame
      <4>4. CASE ~TooLarge(Head(buf).of)
        <5>0. buf[1] = Head(buf)  BY <4>1
        <5>1. Len(buf) # 1  BY <1>6, <4>4, <5>0 DEF Frame, Drained
        <5>2. Len(Tail(buf)) # 0  BY <4>2, <5>1
        <5>3. Tail(buf) # <<>>
          <6>1. ASSUME Tail(buf) = <<>> PROVE Len(Tail(buf)) = 0
            <7>1. Len(Tail(buf)) = Len(<<>>)  BY <6>1, Zenon
            <7> QED  BY <7>1
          <6> QED  BY <5>2, <6>1
        <5>4. Tail(Tail(buf)) \in Seq(Part)  BY <4>2, <5>3
        <5> QED  BY <1>6, <4>4, <5>4 DEF Frame
      <4> QED  BY <4>3, <4>4
    <3>2. phase' \in Phases /\ authed' \in BOOLEAN /\ out' \in Nat  BY <1>6 DEF Frame
    <3> QED  BY <1>6, <3>1, <3>2 DEF Frame, clocks
  <2>2. BeforeAuth'
    <3>1. CASE authed
      <4>1. authed'  BY <1>6, <3>1 DEF Frame
      <4> QED  BY <4>1 DEF BeforeAuth
    <3>2. CASE ~authed
      <4>1. CASE phase' = "closing"
        BY <1>6, <3>2, <4>1 DEF Frame, clocks, BeforeAuth, Over, Timed
      <4>2. CASE phase' # "closing"
        <5>1. authed'  BY <1>6, <3>2, <4>2 DEF Frame
        <5> QED  BY <5>1 DEF BeforeAuth
      <4> QED  BY <4>1, <4>2
    <3> QED  BY <3>1, <3>2
  <2>3. AfterAuth'  BY <1>6 DEF Frame, Drained, TooLarge, clocks, AfterAuth
  <2>4. InputClocks'  BY <1>6 DEF Frame, Drained, clocks, InputClocks
  <2>5. KeepaliveEnough'  BY <1>6 DEF Frame, Drained, TooLarge, clocks, KeepaliveEnough
  <2> QED  BY <2>1, <2>2, <2>3, <2>4, <2>5
<1>7. CASE Wait
  <2>1. TypeOK'
    <3>1. left' \in Nat
      <4>1. CASE authed  BY <1>7, <4>1 DEF Wait, Deadline
      <4>2. CASE ~authed
        <5>1. age <= AUTH_TIMEOUT  BY <1>7, <4>2 DEF Wait, BeforeAuth, Over
        <5> QED  BY <1>7, <4>2, <5>1 DEF Wait, Deadline
      <4> QED  BY <4>1, <4>2
    <3> QED  BY <1>7, <3>1 DEF Wait
  <2>2. BeforeAuth'  BY <1>7 DEF Wait, Deadline, clocks, BeforeAuth, Over, Timed
  <2>3. AfterAuth'  BY <1>7 DEF Wait, Deadline, clocks, AfterAuth, InputClocks
  <2>4. InputClocks'  BY <1>7 DEF Wait, clocks, InputClocks
  <2>5. KeepaliveEnough'  BY <1>7 DEF Wait, clocks, KeepaliveEnough
  <2> QED  BY <2>1, <2>2, <2>3, <2>4, <2>5
<1>8. CASE Flush
  <2>1. TypeOK'  BY <1>8 DEF Flush, clocks, Part
  <2>2. BeforeAuth'  BY <1>8 DEF Flush, clocks, BeforeAuth, Over, Timed
  <2>3. AfterAuth'  BY <1>8 DEF Flush, clocks, AfterAuth
  <2>4. InputClocks'  BY <1>8 DEF Flush, clocks, InputClocks
  <2>5. KeepaliveEnough'  BY <1>8 DEF Flush, clocks, KeepaliveEnough
  <2> QED  BY <2>1, <2>2, <2>3, <2>4, <2>5
<1>9. CASE Fill
  <2>1. TypeOK'  BY <1>9 DEF Fill, clocks, Part
  <2>2. BeforeAuth'  BY <1>9 DEF Fill, clocks, BeforeAuth, Over, Timed
  <2>3. AfterAuth'  BY <1>9 DEF Fill, clocks, AfterAuth
  <2>4. InputClocks'  BY <1>9 DEF Fill, clocks, InputClocks
  <2>5. KeepaliveEnough'  BY <1>9 DEF Fill, clocks, KeepaliveEnough
  <2> QED  BY <2>1, <2>2, <2>3, <2>4, <2>5
<1>10. CASE Expire
  <2>1. TypeOK'  BY <1>10 DEF Expire, Blocked, clocks, Part
  <2>2. BeforeAuth'  BY <1>10 DEF Expire, Blocked, clocks, BeforeAuth, Over, Timed
  <2>3. AfterAuth'  BY <1>10 DEF Expire, Blocked, clocks, AfterAuth
  <2>4. InputClocks'  BY <1>10 DEF Expire, Blocked, clocks, InputClocks
  <2>5. KeepaliveEnough'
    BY <1>10 DEF Expire, Blocked, Timed, clocks, KeepaliveEnough, AfterAuth, InputClocks
  <2> QED  BY <2>1, <2>2, <2>3, <2>4, <2>5
<1>11. CASE Tick
  <2>1. TypeOK'  BY <1>11 DEF Tick, Blocked, Saturate, clocks, Part
  <2>2. BeforeAuth'  BY <1>11 DEF Tick, Blocked, Saturate, clocks, BeforeAuth, Over, Timed
  <2>3. AfterAuth'
    <3>1. (authed => phase # "handshake")'  BY <1>11 DEF Tick, AfterAuth
    <3>2. (authed /\ phase \in {"flush", "fill"} => quiet + left = IDLE)'
      BY <1>11 DEF Tick, Timed, Saturate, AfterAuth
    <3>3. (phase = "flush" => stalled)'  BY <1>11 DEF Tick
    <3> QED  BY <3>1, <3>2, <3>3 DEF AfterAuth
  <2>4. InputClocks'  BY <1>11 DEF Tick, Blocked, Saturate, clocks, InputClocks
  <2>5. KeepaliveEnough'  BY <1>11 DEF Tick, Blocked, Saturate, clocks, KeepaliveEnough
  <2> QED  BY <2>1, <2>2, <2>3, <2>4, <2>5
<1>12. CASE UNCHANGED vars
  BY <1>12 DEF vars, BeforeAuth, AfterAuth, InputClocks, KeepaliveEnough, Over, Timed
<1> QED  BY <1>1, <1>2, <1>3, <1>4, <1>5, <1>6, <1>7, <1>8, <1>9, <1>10, <1>11, <1>12 DEF Next

LEMMA Invariance == Spec => []IInv
  BY InitIInv, NextIInv, PTL DEF Spec

(* Every variable of a connection keeps its type, clocks included. *)
THEOREM TypeCorrect == Spec => []TypeOK
<1>1. IInv => TypeOK  BY DEF IInv
<1> QED  BY <1>1, Invariance, PTL

(* For every AUTH timeout, with or without TLS: a peer that has not
   authenticated holds its connection no longer than the timeout. *)
THEOREM AuthIsCapped == Spec => []AuthCap
<1>1. IInv => AuthCap  BY DEF IInv, BeforeAuth, AuthCap
<1> QED  BY <1>1, Invariance, PTL

(* For every idle timeout: no wait of an authenticated connection outlasts
   the timeout, counted from its last input. *)
THEOREM IdleIsBounded == Spec => []IdleBound
<1>1. IInv => IdleBound  BY ClockAssumption DEF IInv, TypeOK, AfterAuth, IdleBound, Timed
<1> QED  BY <1>1, Invariance, PTL

(* For every idle timeout: a client that reads its answers and sends
   something more often than the timeout is never closed by it. *)
THEOREM KeepaliveIsEnough == Spec => []KeepaliveEnough
<1>1. IInv => KeepaliveEnough  BY DEF IInv
<1> QED  BY <1>1, Invariance, PTL
=============================================================================
