--------------------------- MODULE DevicesProofs ---------------------------
(***************************************************************************)
(* For all registers the devices have, every number of random bytes a      *)
(* caller may ask for, and any order of calls: a successful receive has    *)
(* read what it was asked for, the buses stay within the clock they were   *)
(* told, and success of the random numbers means random bytes.             *)
(***************************************************************************)
EXTENDS Devices, SequenceTheorems, TLAPS

-----------------------------------------------------------------------------
(* Sequences of one, two and three steps                                   *)

LEMMA ConcatTwo ==
    ASSUME NEW a, NEW x
    PROVE  <<a>> \o <<x>> = <<a, x>>
  <1> DEFINE S == {a, x}
             s == <<a>> \o <<x>>
             t == <<a, x>>
  <1>1. <<a>> \in Seq(S) /\ <<x>> \in Seq(S) /\ t \in Seq(S)
    OBVIOUS
  <1> HIDE DEF S
  <1>2. s \in Seq(S) /\ Len(s) = 2 /\ s[1] = a /\ s[2] = x
    BY <1>1
  <1>3. Len(t) = 2 /\ t[1] = a /\ t[2] = x
    OBVIOUS
  <1>4. Len(s) = Len(t) /\ \A i \in 1..Len(s) : s[i] = t[i]
    BY <1>2, <1>3
  <1> HIDE DEF s, t
  <1>5. s = t
    BY <1>1, <1>2, <1>4, SeqEqual
  <1> QED
    BY <1>5 DEF s, t

LEMMA ConcatThree ==
    ASSUME NEW a, NEW x, NEW y
    PROVE  <<a, x>> \o <<y>> = <<a, x, y>>
  <1> DEFINE S == {a, x, y}
             s == <<a, x>> \o <<y>>
             t == <<a, x, y>>
  <1>1. <<a, x>> \in Seq(S) /\ <<y>> \in Seq(S) /\ t \in Seq(S)
    OBVIOUS
  <1> HIDE DEF S
  <1>2. s \in Seq(S) /\ Len(s) = 3 /\ s[1] = a /\ s[2] = x /\ s[3] = y
    BY <1>1
  <1>3. Len(t) = 3 /\ t[1] = a /\ t[2] = x /\ t[3] = y
    OBVIOUS
  <1>4. Len(s) = Len(t) /\ \A i \in 1..Len(s) : s[i] = t[i]
    BY <1>2, <1>3
  <1> HIDE DEF s, t
  <1>5. s = t
    BY <1>1, <1>2, <1>4, SeqEqual
  <1> QED
    BY <1>5 DEF s, t

(* A sequence of steps, by the first of them and what is left after it.    *)
Begins(s, a, left) == s # <<>> /\ s[1] = a /\ Head(s) = a /\ Tail(s) = left

LEMMA BeginsOne == ASSUME NEW s, NEW a, s = <<a>> PROVE Begins(s, a, <<>>)
  BY DEF Begins

LEMMA BeginsTwo ==
    ASSUME NEW s, NEW t, NEW a, NEW x, s = <<a>>, t = <<x>>
    PROVE  Begins(s \o t, a, t)
  <1>1. s \o t = <<a, x>>
    BY ConcatTwo
  <1>2. <<a, x>> # <<>> /\ <<a, x>>[1] = a /\ Head(<<a, x>>) = a /\ Tail(<<a, x>>) = <<x>>
    OBVIOUS
  <1> QED
    BY <1>1, <1>2 DEF Begins

LEMMA BeginsThree ==
    ASSUME NEW s, NEW t, NEW u, NEW a, NEW x, NEW y, s = <<a>>, t = <<x>>, u = <<y>>
    PROVE  Begins(s \o t \o u, a, t \o u)
  <1>1. s \o t \o u = <<a, x, y>> /\ t \o u = <<x, y>>
    BY ConcatTwo, ConcatThree
  <1>2. <<a, x, y>> # <<>> /\ <<a, x, y>>[1] = a /\ Head(<<a, x, y>>) = a
    OBVIOUS
  <1>3. Tail(<<a, x, y>>) = <<x, y>>
    OBVIOUS
  <1> QED
    BY <1>1, <1>2, <1>3 DEF Begins

StepOf(op, b, d, r, k, n) == [op |-> op, bus |-> b, dev |-> d, sub |-> r, kHz |-> k, by |-> n]

LEMMA StepsOfForms ==
    ASSUME NEW b, NEW d, NEW r, NEW k, NEW n
    PROVE  /\ Source(b, k) = <<StepOf("source", b, NoDevice, None, k, 1)>>
           /\ Divider(b, n) = <<StepOf("divider", b, NoDevice, None, 0, n)>>
           /\ Root(b, k, n) = <<StepOf("root", b, NoDevice, None, k, n)>>
           /\ Start(b, k) = <<StepOf("start", b, NoDevice, None, k, 1)>>
           /\ Write(b, d, r) = <<StepOf("write", b, d, r, 0, 1)>>
           /\ Point(b, d, r) = <<StepOf("point", b, d, r, 0, 1)>>
           /\ Read(b, d, r) = <<StepOf("read", b, d, r, 0, 1)>>
           /\ ReadOn(b, d) = <<StepOf("read", b, d, None, 0, 1)>>
  BY DEF Source, Divider, Root, Start, Write, Point, Read, ReadOn, Step, StepOf

LEMMA StepFields ==
    ASSUME NEW op, NEW b, NEW d, NEW r, NEW k, NEW n
    PROVE  LET s == StepOf(op, b, d, r, k, n)
           IN  s.op = op /\ s.bus = b /\ s.dev = d /\ s.sub = r /\ s.kHz = k /\ s.by = n
  BY DEF StepOf

-----------------------------------------------------------------------------
(* The calls of both boards                                                *)

(* The devices on a bus: each is on one only.                              *)
DevicesOn(b) ==
    IF board = "RT1060" THEN Devices
    ELSE IF b = "LPI2C6" THEN {"camera"} ELSE Devices \ {"camera"}

(* The sequences of several steps.                                         *)
PointRead(b, d, r) == Point(b, d, r) \o ReadOn(b, d)
RootStart(b, k, n, j) == Root(b, k, n) \o Start(b, j)
DividerStart(b, n, j) == Divider(b, n) \o Start(b, j)
SourceDividerStart(b, k, n, j) == Source(b, k) \o Divider(b, n) \o Start(b, j)

(* The calls by their bus, device and register.                            *)
Sends(b, d, r) == SendOf(d, r, Write(b, d, r))
Receives(b, d, r) == ReceiveOf(d, r, Read(b, d, r))
ReceivesOn(b, d, r) == ReceiveOf(d, r, PointRead(b, d, r))

InitSteps(b, d) ==
    IF board = "RT1060"
    THEN IF d = "camera"
         THEN SourceDividerStart(b, 60000, 6, 10000)
         ELSE Start(b, 10000)
    ELSE CASE d = "accel" -> Start(b, Measured)
           [] d = "codec" -> Start(b, 24000)
           [] OTHER -> RootStart(b, 24000, 12, Measured)

Shape(c, b) ==
    \/ \E d \in DevicesOn(b) : c = InitOf(d, InitSteps(b, d))
    \/ \E d \in DevicesOn(b), r \in Registers :
        c \in {Sends(b, d, r), Receives(b, d, r), ReceivesOn(b, d, r)}

(* The board's module and BoardI2c name the same steps.                    *)
LEMMA Same1060 ==
    /\ \A b, d, r : /\ RT1060!Write(b, d, r) = Write(b, d, r)
                   /\ RT1060!Read(b, d, r) = Read(b, d, r)
                   /\ RT1060!Point(b, d, r) = Point(b, d, r)
                   /\ RT1060!ReadOn(b, d) = ReadOn(b, d)
    /\ \A b, k : RT1060!Source(b, k) = Source(b, k) /\ RT1060!Start(b, k) = Start(b, k)
    /\ \A b, n : RT1060!Divider(b, n) = Divider(b, n)
    /\ \A d, r, s : /\ RT1060!InitOf(d, s) = InitOf(d, s)
                   /\ RT1060!SendOf(d, r, s) = SendOf(d, r, s)
                   /\ RT1060!ReceiveOf(d, r, s) = ReceiveOf(d, r, s)
    /\ RT1060!Usb1Pll8 = 60000
  BY DEF RT1060!Write, RT1060!Read, RT1060!Point, RT1060!ReadOn, Write, Read, Point, ReadOn,
         RT1060!Step, Step, RT1060!None, None, RT1060!NoDevice, NoDevice, RT1060!Source, Source, RT1060!Start, Start,
         RT1060!Divider, Divider, RT1060!InitOf, InitOf, RT1060!SendOf, SendOf,
         RT1060!ReceiveOf, ReceiveOf, RT1060!Usb1Pll8

(* Every function of a board is one of these calls, on the device's bus.   *)
LEMMA Calls1060 ==
    ASSUME board = "RT1060", NEW c \in Calls
    PROVE  Shape(c, "LPI2C1")
  <1>1. PICK r \in Registers :
          c \in RT1060!Accel(r) \cup RT1060!Codec(r) \cup RT1060!Camera(r) \cup RT1060!Touch(r)
    BY DEF Calls, RT1060!Calls
  <1> USE <1>1, Same1060 DEF Shape, DevicesOn, Devices, InitSteps, Sends, Receives, ReceivesOn,
          PointRead, RootStart, SourceDividerStart,
          RT1060!Bus, RT1060!BOARD_LPI2C_Init, RT1060!BOARD_LPI2C_Send, RT1060!BOARD_LPI2C_Receive
  <1>4. CASE c \in RT1060!Accel(r)
    BY <1>4 DEF RT1060!Accel, RT1060!BOARD_ACCEL_I2C_CLOCK_FREQ
  <1>5. CASE c \in RT1060!Codec(r)
    BY <1>5 DEF RT1060!Codec, RT1060!BOARD_CODEC_I2C_CLOCK_FREQ
  <1>6. CASE c \in RT1060!Camera(r)
    BY <1>6 DEF RT1060!Camera, RT1060!BOARD_Camera_I2C_Init, RT1060!BOARD_CAMERA_I2C_CLOCK_FREQ,
                RT1060!BOARD_CAMERA_I2C_CLOCK_SOURCE_DIVIDER, RT1060!BOARD_LPI2C_SendSCCB,
                RT1060!BOARD_LPI2C_ReceiveSCCB
  <1>7. CASE c \in RT1060!Touch(r)
    BY <1>7 DEF RT1060!Touch
  <1> QED
    BY <1>1, <1>4, <1>5, <1>6, <1>7

LEMMA Same1170 ==
    /\ \A b, d, r : /\ RT1170!Write(b, d, r) = Write(b, d, r)
                   /\ RT1170!Read(b, d, r) = Read(b, d, r)
                   /\ RT1170!Point(b, d, r) = Point(b, d, r)
                   /\ RT1170!ReadOn(b, d) = ReadOn(b, d)
    /\ \A b, k : RT1170!Start(b, k) = Start(b, k)
    /\ \A b, k, n : RT1170!Root(b, k, n) = Root(b, k, n)
    /\ \A d, r, s : /\ RT1170!InitOf(d, s) = InitOf(d, s)
                   /\ RT1170!SendOf(d, r, s) = SendOf(d, r, s)
                   /\ RT1170!ReceiveOf(d, r, s) = ReceiveOf(d, r, s)
    /\ RT1170!Measured = Measured
  BY DEF RT1170!Write, RT1170!Read, RT1170!Point, RT1170!ReadOn, Write, Read, Point, ReadOn,
         RT1170!Step, Step, RT1170!None, None, RT1170!NoDevice, NoDevice, RT1170!Root, Root, RT1170!Start, Start,
         RT1170!InitOf, InitOf, RT1170!SendOf, SendOf, RT1170!ReceiveOf, ReceiveOf,
         RT1170!Measured, Measured

LEMMA Calls1170 ==
    ASSUME board = "RT1170", NEW c \in Calls
    PROVE  Shape(c, "LPI2C5") \/ Shape(c, "LPI2C6")
  <1>1. PICK r \in Registers :
          c \in RT1170!Accel(r) \cup RT1170!Codec(r) \cup RT1170!Camera(r) \cup RT1170!MIPIPanelTouch(r)
    BY DEF Calls, RT1170!Calls
  <1> USE <1>1, Same1170 DEF Shape, DevicesOn, Devices, InitSteps, Sends, Receives, ReceivesOn,
          PointRead, RootStart, SourceDividerStart,
          RT1170!BOARD_LPI2C_Init, RT1170!BOARD_LPI2C_Send, RT1170!BOARD_LPI2C_Receive
  <1>4. CASE c \in RT1170!Accel(r)
    BY <1>4 DEF RT1170!Accel, RT1170!BOARD_ACCEL_I2C_CLOCK_FREQ
  <1>5. CASE c \in RT1170!Codec(r)
    BY <1>5 DEF RT1170!Codec, RT1170!BOARD_CODEC_I2C_CLOCK_FREQ
  <1>6. CASE c \in RT1170!Camera(r)
    BY <1>6 DEF RT1170!Camera, RT1170!BOARD_Camera_I2C_Init, RT1170!Osc24M,
                RT1170!BOARD_CAMERA_I2C_CLOCK_DIVIDER, RT1170!BOARD_LPI2C_SendSCCB,
                RT1170!BOARD_LPI2C_ReceiveSCCB
  <1>7. CASE c \in RT1170!MIPIPanelTouch(r)
    BY <1>7 DEF RT1170!MIPIPanelTouch, RT1170!BOARD_MIPIPanelTouch_I2C_Init, RT1170!Osc24M,
                RT1170!BOARD_MIPI_PANEL_TOUCH_I2C_CLOCK_DIVIDER
  <1> QED
    BY <1>1, <1>4, <1>5, <1>6, <1>7

(* What comes first in each sequence, and what is left after it.           *)
LEMMA StartFirst ==
    ASSUME NEW b, NEW k
    PROVE  LET s == Start(b, k)
           IN  /\ s # <<>> /\ s[1].bus = b /\ Tail(s) = <<>>
               /\ Head(s).op = "start" /\ Head(s).kHz = k
  <1>1. Start(b, k) = <<StepOf("start", b, NoDevice, None, k, 1)>>
    BY StepsOfForms
  <1>2. Begins(Start(b, k), StepOf("start", b, NoDevice, None, k, 1), <<>>)
    BY <1>1, BeginsOne
  <1> QED
    BY <1>2, StepFields DEF Begins

LEMMA DividerFirst ==
    ASSUME NEW b, NEW n, NEW k
    PROVE  LET s == DividerStart(b, n, k)
           IN  /\ s # <<>> /\ s[1].bus = b /\ Tail(s) = Start(b, k)
               /\ Head(s).op = "divider" /\ Head(s).by = n
  <1>1. Divider(b, n) = <<StepOf("divider", b, NoDevice, None, 0, n)>>
    BY StepsOfForms
  <1>2. Start(b, k) = <<StepOf("start", b, NoDevice, None, k, 1)>>
    BY StepsOfForms
  <1>3. Begins(DividerStart(b, n, k), StepOf("divider", b, NoDevice, None, 0, n), Start(b, k))
    BY <1>1, <1>2, BeginsTwo DEF DividerStart
  <1> QED
    BY <1>3, StepFields DEF Begins

LEMMA SourceFirst ==
    ASSUME NEW b, NEW j, NEW n, NEW k
    PROVE  LET s == SourceDividerStart(b, j, n, k)
           IN  /\ s # <<>> /\ s[1].bus = b /\ Tail(s) = DividerStart(b, n, k)
               /\ Head(s).op = "source" /\ Head(s).kHz = j
  <1>1. Source(b, j) = <<StepOf("source", b, NoDevice, None, j, 1)>>
    BY StepsOfForms
  <1>2. Divider(b, n) = <<StepOf("divider", b, NoDevice, None, 0, n)>>
    BY StepsOfForms
  <1>3. Start(b, k) = <<StepOf("start", b, NoDevice, None, k, 1)>>
    BY StepsOfForms
  <1>4. Begins(SourceDividerStart(b, j, n, k), StepOf("source", b, NoDevice, None, j, 1), DividerStart(b, n, k))
    BY <1>1, <1>2, <1>3, BeginsThree DEF SourceDividerStart, DividerStart
  <1> QED
    BY <1>4, StepFields DEF Begins

LEMMA RootFirst ==
    ASSUME NEW b, NEW j, NEW n, NEW k
    PROVE  LET s == RootStart(b, j, n, k)
           IN  /\ s # <<>> /\ s[1].bus = b /\ Tail(s) = Start(b, k)
               /\ Head(s).op = "root" /\ Head(s).kHz = j /\ Head(s).by = n
  <1>1. Root(b, j, n) = <<StepOf("root", b, NoDevice, None, j, n)>>
    BY StepsOfForms
  <1>2. Start(b, k) = <<StepOf("start", b, NoDevice, None, k, 1)>>
    BY StepsOfForms
  <1>3. Begins(RootStart(b, j, n, k), StepOf("root", b, NoDevice, None, j, n), Start(b, k))
    BY <1>1, <1>2, BeginsTwo DEF RootStart
  <1> QED
    BY <1>3, StepFields DEF Begins

LEMMA WriteFirst ==
    ASSUME NEW b, NEW d, NEW r
    PROVE  LET s == Write(b, d, r)
           IN  /\ s # <<>> /\ s[1].bus = b /\ Tail(s) = <<>>
               /\ Head(s).op = "write" /\ Head(s).dev = d
  <1>1. Write(b, d, r) = <<StepOf("write", b, d, r, 0, 1)>>
    BY StepsOfForms
  <1>2. Begins(Write(b, d, r), StepOf("write", b, d, r, 0, 1), <<>>)
    BY <1>1, BeginsOne
  <1> QED
    BY <1>2, StepFields DEF Begins

LEMMA ReadFirst ==
    ASSUME NEW b, NEW d, NEW r
    PROVE  LET s == Read(b, d, r)
           IN  /\ s # <<>> /\ s[1].bus = b /\ Tail(s) = <<>>
               /\ Head(s).op = "read" /\ Head(s).dev = d /\ Head(s).sub = r
  <1>1. Read(b, d, r) = <<StepOf("read", b, d, r, 0, 1)>>
    BY StepsOfForms
  <1>2. Begins(Read(b, d, r), StepOf("read", b, d, r, 0, 1), <<>>)
    BY <1>1, BeginsOne
  <1> QED
    BY <1>2, StepFields DEF Begins

LEMMA PointFirst ==
    ASSUME NEW b, NEW d, NEW r
    PROVE  LET s == PointRead(b, d, r)
           IN  /\ s # <<>> /\ s[1].bus = b /\ Tail(s) = ReadOn(b, d)
               /\ Head(s).op = "point" /\ Head(s).dev = d /\ Head(s).sub = r
  <1>1. Point(b, d, r) = <<StepOf("point", b, d, r, 0, 1)>>
    BY StepsOfForms
  <1>2. ReadOn(b, d) = <<StepOf("read", b, d, None, 0, 1)>>
    BY StepsOfForms
  <1>3. Begins(PointRead(b, d, r), StepOf("point", b, d, r, 0, 1), ReadOn(b, d))
    BY <1>1, <1>2, BeginsTwo DEF PointRead
  <1> QED
    BY <1>3, StepFields DEF Begins

LEMMA ReadOnFirst ==
    ASSUME NEW b, NEW d
    PROVE  LET s == ReadOn(b, d)
           IN  /\ s # <<>> /\ s[1].bus = b /\ Tail(s) = <<>>
               /\ Head(s).op = "read" /\ Head(s).dev = d /\ Head(s).sub = None
  <1>1. ReadOn(b, d) = <<StepOf("read", b, d, None, 0, 1)>>
    BY StepsOfForms
  <1>2. Begins(ReadOn(b, d), StepOf("read", b, d, None, 0, 1), <<>>)
    BY <1>1, BeginsOne
  <1> QED
    BY <1>2, StepFields DEF Begins

LEMMA CallFields ==
    ASSUME NEW d, NEW r, NEW s
    PROVE  /\ InitOf(d, s).kind = "init" /\ InitOf(d, s).dev = d /\ InitOf(d, s).steps = s
           /\ SendOf(d, r, s).kind = "send" /\ SendOf(d, r, s).steps = s
           /\ ReceiveOf(d, r, s).kind = "receive" /\ ReceiveOf(d, r, s).sub = r
           /\ ReceiveOf(d, r, s).steps = s
  BY DEF InitOf, SendOf, ReceiveOf

-----------------------------------------------------------------------------
(* The invariant: what is left of the call on a bus, and its clock.  After *)
(* the first half of the camera's protocol the device points to the        *)
(* register that was asked for.                                            *)
InitLeft(b) ==
    /\ call[b].kind = "init"
    /\ IF board = "RT1060"
       THEN \/ todo[b] = <<>>
            \/ todo[b] = Start(b, 10000) /\ (call[b].dev = "camera" => clock[b].by = 6)
            \/ todo[b] = DividerStart(b, 6, 10000)
            \/ todo[b] = SourceDividerStart(b, 60000, 6, 10000)
       ELSE \/ todo[b] = <<>>
            \/ todo[b] = Start(b, Measured)
            \/ todo[b] = Start(b, 24000)
            \/ todo[b] = RootStart(b, 24000, 12, Measured)

SendLeft(b) ==
    /\ call[b].kind = "send"
    /\ \E d \in DevicesOn(b), r \in Registers : todo[b] = <<>> \/ todo[b] = Write(b, d, r)

ReceiveLeft(b) ==
    /\ call[b].kind = "receive" /\ call[b].sub \in Registers
    /\ \/ todo[b] = <<>> /\ (status[b] = "Success" => got[b] = call[b].sub)
       \/ \E d \in DevicesOn(b) :
            \/ todo[b] = Read(b, d, call[b].sub)
            \/ todo[b] = PointRead(b, d, call[b].sub)
            \/ todo[b] = ReadOn(b, d) /\ pointer[d] = call[b].sub

Left(b) == InitLeft(b) \/ SendLeft(b) \/ ReceiveLeft(b)

(* On the RT1060 the camera's Init sets the divider before it starts the   *)
(* bus; on the RT1170 no bus is told less than it runs at.                 *)
Clocked(b) ==
    IF board = "RT1060"
    THEN /\ clock[b].source = 60000 /\ clock[b].by \in {1, 6}
         /\ told[b] \in {Off, 10000}
         /\ "camera" \in begun => clock[b].by = 6
    ELSE /\ clock[b].source = 24000 /\ clock[b].by \in {1, 12}
         /\ told[b] \in {Off, 2000, 24000}
         /\ told[b] = 2000 => clock[b].by = 12

I2cInv ==
    /\ board \in Boards
    /\ pointer \in [Devices -> Registers]
    /\ clock \in [Buses -> [source : Nat, by : Nat]]
    /\ DOMAIN told = Buses /\ DOMAIN call = Buses /\ DOMAIN todo = Buses
    /\ DOMAIN got = Buses /\ DOMAIN status = Buses
    /\ \A b \in Buses : Clocked(b) /\ Left(b)

LEMMA I2cInitInv == board \in Boards /\ I2cInit => I2cInv
  <1> SUFFICES ASSUME board \in Boards, I2cInit PROVE I2cInv
    OBVIOUS
  <1>1. /\ pointer \in [Devices -> Registers]
        /\ clock \in [Buses -> [source : Nat, by : Nat]]
        /\ DOMAIN told = Buses /\ DOMAIN call = Buses /\ DOMAIN todo = Buses
        /\ DOMAIN got = Buses /\ DOMAIN status = Buses
    BY DEF I2cInit
  <1>2. ASSUME NEW b \in Buses PROVE Clocked(b) /\ InitLeft(b)
    <2>0. call[b] = NoCall /\ todo[b] = <<>>
      BY DEF I2cInit
    <2>1. call[b].kind = "init" /\ todo[b] = <<>>
      BY <2>0, CallFields DEF NoCall
    <2>2. InitLeft(b)
      BY <2>1 DEF InitLeft
    <2>3. /\ clock[b].source = IF board = "RT1060" THEN 60000 ELSE 24000
          /\ clock[b].by = 1 /\ told[b] = Off /\ begun = {}
      BY DEF I2cInit
    <2>4. Clocked(b)
      BY <2>3 DEF Clocked, Off
    <2> QED
      BY <2>2, <2>4
  <1> QED
    BY <1>1, <1>2 DEF I2cInv, Left

(* The devices of one bus are not on another.                              *)
LEMMA OneBus ==
    ASSUME board \in Boards, NEW b \in Buses, NEW x \in Buses, x # b, NEW d \in DevicesOn(b)
    PROVE  d \in Devices /\ d \notin DevicesOn(x)
  BY DEF Boards, Buses, DevicesOn, Devices

(* Every call is of a known shape, on one bus.                             *)
LEMMA ShapeLeft ==
    ASSUME board \in Boards, NEW c \in Calls
    PROVE  \E b \in Buses : Shape(c, b)
  BY Calls1060, Calls1170 DEF Boards, Buses

LEMMA ShapeBus ==
    ASSUME NEW c, NEW b, Shape(c, b)
    PROVE  BusOf(c) = b
  <1>1. ASSUME NEW d \in DevicesOn(b), c = InitOf(d, InitSteps(b, d))
        PROVE  BusOf(c) = b
    <2>1. \A k, n, j : /\ Start(b, k)[1].bus = b
                       /\ SourceDividerStart(b, j, n, k)[1].bus = b
                       /\ RootStart(b, j, n, k)[1].bus = b
      BY StartFirst, SourceFirst, RootFirst
    <2>2. InitSteps(b, d)[1].bus = b
      <3>1. CASE board = "RT1060"
        BY <2>1, <3>1 DEF InitSteps
      <3>2. CASE board # "RT1060" /\ d = "accel"
        BY <2>1, <3>2 DEF InitSteps
      <3>3. CASE board # "RT1060" /\ d = "codec"
        BY <2>1, <3>3 DEF InitSteps
      <3>4. CASE board # "RT1060" /\ d # "accel" /\ d # "codec"
        BY <2>1, <3>4 DEF InitSteps
      <3> QED
        BY <3>1, <3>2, <3>3, <3>4
    <2> QED
      BY <1>1, <2>2, CallFields DEF BusOf
  <1>2. ASSUME NEW d \in DevicesOn(b), NEW r \in Registers,
               c \in {Sends(b, d, r), Receives(b, d, r), ReceivesOn(b, d, r)}
        PROVE  BusOf(c) = b
    <2>1. /\ Write(b, d, r)[1].bus = b /\ Read(b, d, r)[1].bus = b
          /\ PointRead(b, d, r)[1].bus = b
      BY WriteFirst, ReadFirst, PointFirst
    <2>2. CASE c = Sends(b, d, r)
      BY <2>2, <2>1, CallFields DEF BusOf, Sends
    <2>3. CASE c = Receives(b, d, r)
      BY <2>3, <2>1, CallFields DEF BusOf, Receives
    <2>4. CASE c = ReceivesOn(b, d, r)
      BY <2>4, <2>1, CallFields DEF BusOf, ReceivesOn
    <2> QED
      BY <1>2, <2>2, <2>3, <2>4
  <1> QED
    BY <1>1, <1>2 DEF Shape

-----------------------------------------------------------------------------
(* Each step keeps the invariant; one on a bus leaves the others alone.    *)
LEMMA OtherBus ==
    ASSUME I2cInv, board' = board, NEW b \in Buses, NEW x \in Buses, x # b,
           clock'[x] = clock[x], told'[x] = told[x], call'[x] = call[x],
           todo'[x] = todo[x], got'[x] = got[x], status'[x] = status[x],
           \A d \in DevicesOn(x) : pointer'[d] = pointer[d]
    PROVE  Clocked(x)' /\ Left(x)'
  <1>1. board # "RT1060"
    BY DEF Buses
  <1>2. Clocked(x)'
    BY <1>1 DEF I2cInv, Clocked
  <1>3. DevicesOn(x)' = DevicesOn(x)
    BY DEF DevicesOn
  <1>4. InitLeft(x) => InitLeft(x)'
    BY <1>1 DEF InitLeft
  <1>5. SendLeft(x) => SendLeft(x)'
    BY <1>3 DEF SendLeft
  <1>6. ReceiveLeft(x) => ReceiveLeft(x)'
    BY <1>3 DEF ReceiveLeft
  <1> QED
    BY <1>2, <1>4, <1>5, <1>6 DEF I2cInv, Left

LEMMA CallStep ==
    ASSUME I2cInv, board' = board, NEW b \in Buses, Call(b)
    PROVE  I2cInv'
  <1>1. PICK c \in Calls : /\ BusOf(c) = b
                           /\ call' = [call EXCEPT ![b] = c]
                           /\ todo' = [todo EXCEPT ![b] = c.steps]
    BY DEF Call
  <1>2. Shape(c, b)
    BY <1>1, ShapeLeft, ShapeBus DEF I2cInv
  <1>3. Buses' = Buses /\ DevicesOn(b)' = DevicesOn(b)
    BY DEF Buses, DevicesOn
  <1>4. UNCHANGED <<clock, told, begun, pointer>>
    BY DEF Call
  <1>5. DOMAIN got' = Buses /\ DOMAIN status' = Buses
    BY DEF Call, I2cInv
  <1>6. call'[b] = c /\ todo'[b] = c.steps
    BY <1>1 DEF I2cInv
  <1>7. Left(b)'
    <2>1. CASE \E d \in DevicesOn(b) : c = InitOf(d, InitSteps(b, d))
      <3>1. PICK d \in DevicesOn(b) : c = InitOf(d, InitSteps(b, d))
        BY <2>1
      <3>2. call'[b].kind = "init" /\ call'[b].dev = d /\ todo'[b] = InitSteps(b, d)
        BY <3>1, <1>6, CallFields
      <3>3. InitLeft(b)'
        BY <3>2 DEF InitLeft, InitSteps
      <3> QED
        BY <3>3 DEF Left
    <2>2. CASE \E d \in DevicesOn(b), r \in Registers : c = Sends(b, d, r)
      <3>1. PICK d \in DevicesOn(b), r \in Registers : c = Sends(b, d, r)
        BY <2>2
      <3>2. call'[b].kind = "send" /\ todo'[b] = Write(b, d, r)
        BY <3>1, <1>6, CallFields DEF Sends
      <3>3. SendLeft(b)'
        BY <3>2, <1>3 DEF SendLeft
      <3> QED
        BY <3>3 DEF Left
    <2>3. CASE \E d \in DevicesOn(b), r \in Registers : c \in {Receives(b, d, r), ReceivesOn(b, d, r)}
      <3>1. PICK d \in DevicesOn(b), r \in Registers : c \in {Receives(b, d, r), ReceivesOn(b, d, r)}
        BY <2>3
      <3>2. /\ call'[b].kind = "receive" /\ call'[b].sub = r
            /\ todo'[b] = Read(b, d, r) \/ todo'[b] = PointRead(b, d, r)
        BY <3>1, <1>6, CallFields DEF Receives, ReceivesOn
      <3>3. ReceiveLeft(b)'
        BY <3>2, <1>3 DEF ReceiveLeft
      <3> QED
        BY <3>3 DEF Left
    <2> QED
      BY <1>2, <2>1, <2>2, <2>3 DEF Shape
  <1>8. Clocked(b)'
    BY <1>4 DEF I2cInv, Clocked
  <1>9. ASSUME NEW x \in Buses, x # b
        PROVE  Clocked(x)' /\ Left(x)'
    <2>1. call'[x] = call[x] /\ todo'[x] = todo[x]
      BY <1>1, <1>9 DEF I2cInv
    <2>2. got'[x] = got[x] /\ status'[x] = status[x]
      BY <1>9 DEF Call, I2cInv
    <2> QED
      BY <1>4, <1>9, <2>1, <2>2, OtherBus
  <1>10. /\ pointer' \in [Devices -> Registers]
         /\ clock' \in [Buses -> [source : Nat, by : Nat]]
         /\ DOMAIN told' = Buses /\ DOMAIN call' = Buses /\ DOMAIN todo' = Buses
    BY <1>1, <1>4 DEF I2cInv
  <1> QED
    BY <1>3, <1>5, <1>7, <1>8, <1>9, <1>10 DEF I2cInv

LEMMA SetClockStep ==
    ASSUME I2cInv, board' = board, NEW b \in Buses, SetClock(b)
    PROVE  I2cInv'
  <1> DEFINE s == Head(todo[b])
  <1>1. /\ todo[b] # <<>> /\ s.op \in {"source", "divider", "root"}
        /\ todo' = [todo EXCEPT ![b] = Tail(@)]
        /\ UNCHANGED <<told, begun, pointer, call, got, status>>
    BY DEF SetClock
  <1>2. /\ clock' = [clock EXCEPT ![b] = clock'[b]]
        /\ s.op = "source" => clock'[b] = [clock[b] EXCEPT !.source = s.kHz]
        /\ s.op = "divider" => clock'[b] = [clock[b] EXCEPT !.by = s.by]
        /\ s.op = "root" => clock'[b] = [source |-> s.kHz, by |-> s.by]
    BY DEF SetClock, I2cInv
  <1>3. Buses' = Buses /\ DevicesOn(b)' = DevicesOn(b)
    BY DEF Buses, DevicesOn
  <1>4. todo'[b] = Tail(todo[b])
    BY <1>1 DEF I2cInv
  <1>5. InitLeft(b)
    <2>1. ~SendLeft(b)
      BY <1>1, WriteFirst DEF SendLeft
    <2>2. ~ReceiveLeft(b)
      BY <1>1, ReadFirst, PointFirst, ReadOnFirst DEF ReceiveLeft
    <2> QED
      BY <2>1, <2>2 DEF I2cInv, Left
  <1>6. call'[b] = call[b] /\ told'[b] = told[b] /\ begun' = begun
    BY <1>1
  <1>7. ASSUME board = "RT1060"
        PROVE  Clocked(b)' /\ InitLeft(b)'
    <2>1. \/ todo[b] = DividerStart(b, 6, 10000)
          \/ todo[b] = SourceDividerStart(b, 60000, 6, 10000)
      BY <1>1, <1>5, <1>7, StartFirst DEF InitLeft
    <2>2. CASE todo[b] = DividerStart(b, 6, 10000)
      <3>1. s.op = "divider" /\ s.by = 6 /\ todo'[b] = Start(b, 10000)
        BY <1>4, <2>2, DividerFirst
      <3>2. clock'[b].by = 6 /\ clock'[b].source = clock[b].source
        BY <1>2, <3>1 DEF I2cInv
      <3> QED
        BY <1>5, <1>6, <1>7, <3>1, <3>2 DEF I2cInv, Clocked, InitLeft
    <2>3. CASE todo[b] = SourceDividerStart(b, 60000, 6, 10000)
      <3>1. s.op = "source" /\ s.kHz = 60000 /\ todo'[b] = DividerStart(b, 6, 10000)
        BY <1>4, <2>3, SourceFirst
      <3>2. clock'[b].by = clock[b].by /\ clock'[b].source = 60000
        BY <1>2, <3>1 DEF I2cInv
      <3> QED
        BY <1>5, <1>6, <1>7, <3>1, <3>2 DEF I2cInv, Clocked, InitLeft
    <2> QED
      BY <2>1, <2>2, <2>3
  <1>8. ASSUME board # "RT1060"
        PROVE  Clocked(b)' /\ InitLeft(b)'
    <2>1. todo[b] = RootStart(b, 24000, 12, Measured)
      BY <1>1, <1>5, <1>8, StartFirst DEF InitLeft
    <2>2. s.op = "root" /\ s.kHz = 24000 /\ s.by = 12 /\ todo'[b] = Start(b, Measured)
      BY <1>4, <2>1, RootFirst
    <2>3. clock'[b].by = 12 /\ clock'[b].source = 24000
      BY <1>2, <2>2
    <2> QED
      BY <1>5, <1>6, <1>8, <2>2, <2>3 DEF I2cInv, Clocked, InitLeft
  <1>9. ASSUME NEW x \in Buses, x # b
        PROVE  Clocked(x)' /\ Left(x)'
    <2>1. todo'[x] = todo[x] /\ clock'[x] = clock[x]
      BY <1>1, <1>2, <1>9 DEF I2cInv
    <2> QED
      BY <1>1, <1>9, <2>1, OtherBus
  <1>10. Clocked(b)' /\ Left(b)'
    BY <1>7, <1>8 DEF Left
  <1>11. clock'[b] \in [source : Nat, by : Nat]
    <2>1. clock[b] \in [source : Nat, by : Nat]
      BY DEF I2cInv
    <2>2. clock'[b].source \in Nat /\ clock'[b].by \in Nat
      BY <1>10 DEF Clocked
    <2>3. \A k, n : [source |-> k, by |-> n].source = k /\ [source |-> k, by |-> n].by = n
      OBVIOUS
    <2> QED
      BY <1>1, <1>2, <2>1, <2>2, <2>3
  <1>12. clock' \in [Buses -> [source : Nat, by : Nat]]
    BY <1>2, <1>11 DEF I2cInv
  <1>13. /\ pointer' \in [Devices -> Registers]
         /\ DOMAIN told' = Buses /\ DOMAIN call' = Buses /\ DOMAIN todo' = Buses
         /\ DOMAIN got' = Buses /\ DOMAIN status' = Buses
    BY <1>1 DEF I2cInv
  <1> QED
    BY <1>3, <1>9, <1>10, <1>12, <1>13 DEF I2cInv

LEMMA StartBusStep ==
    ASSUME I2cInv, board' = board, NEW b \in Buses, StartBus(b)
    PROVE  I2cInv'
  <1> DEFINE s == Head(todo[b])
  <1>1. /\ todo[b] # <<>> /\ s.op = "start"
        /\ told' = [told EXCEPT ![b] = IF s.kHz = Measured THEN Frequency(b) ELSE s.kHz]
        /\ todo' = [todo EXCEPT ![b] = Tail(@)]
        /\ begun' = begun \cup {call[b].dev}
        /\ UNCHANGED <<clock, pointer, call, got, status>>
    BY DEF StartBus
  <1>2. Buses' = Buses /\ DevicesOn(b)' = DevicesOn(b)
    BY DEF Buses, DevicesOn
  <1>3. /\ todo'[b] = Tail(todo[b])
        /\ told'[b] = IF s.kHz = Measured THEN Frequency(b) ELSE s.kHz
    BY <1>1 DEF I2cInv
  <1>4. InitLeft(b)
    <2>1. ~SendLeft(b)
      BY <1>1, WriteFirst DEF SendLeft
    <2>2. ~ReceiveLeft(b)
      BY <1>1, ReadFirst, PointFirst, ReadOnFirst DEF ReceiveLeft
    <2> QED
      BY <2>1, <2>2 DEF I2cInv, Left
  <1>5. clock'[b] = clock[b] /\ call'[b] = call[b]
    BY <1>1
  <1>6. ASSUME board = "RT1060"
        PROVE  Clocked(b)' /\ InitLeft(b)'
    <2>1. todo[b] = Start(b, 10000) /\ (call[b].dev = "camera" => clock[b].by = 6)
      BY <1>1, <1>4, <1>6, DividerFirst, SourceFirst DEF InitLeft
    <2>2. s.kHz = 10000 /\ todo'[b] = <<>>
      BY <1>3, <2>1, StartFirst
    <2>3. told'[b] = 10000
      BY <1>3, <2>2 DEF Measured
    <2> QED
      BY <1>1, <1>4, <1>5, <1>6, <2>1, <2>2, <2>3 DEF I2cInv, Clocked, InitLeft
  <1>7. ASSUME board # "RT1060"
        PROVE  Clocked(b)' /\ InitLeft(b)'
    <2>1. todo[b] = Start(b, Measured) \/ todo[b] = Start(b, 24000)
      BY <1>1, <1>4, <1>7, RootFirst DEF InitLeft
    <2>2. s.kHz \in {Measured, 24000} /\ todo'[b] = <<>>
      BY <1>3, <2>1, StartFirst
    <2>3. told'[b] \in {Frequency(b), 24000}
      BY <1>3, <2>2
    <2>4. clock[b].by = 1 => Frequency(b) = 24000
      BY <1>7 DEF I2cInv, Clocked, Frequency
    <2>5. clock[b].by = 12 => Frequency(b) = 2000
      BY <1>7 DEF I2cInv, Clocked, Frequency
    <2>6. Clocked(b)'
      BY <1>5, <1>7, <2>3, <2>4, <2>5 DEF I2cInv, Clocked
    <2> QED
      BY <1>4, <1>5, <1>7, <2>2, <2>6 DEF InitLeft
  <1>8. Clocked(b)' /\ Left(b)'
    BY <1>6, <1>7 DEF Left
  <1>9. ASSUME NEW x \in Buses, x # b
        PROVE  Clocked(x)' /\ Left(x)'
    <2>1. todo'[x] = todo[x] /\ told'[x] = told[x]
      BY <1>1, <1>9 DEF I2cInv
    <2> QED
      BY <1>1, <1>9, <2>1, OtherBus
  <1>10. /\ pointer' \in [Devices -> Registers]
         /\ clock' \in [Buses -> [source : Nat, by : Nat]]
         /\ DOMAIN told' = Buses /\ DOMAIN call' = Buses /\ DOMAIN todo' = Buses
         /\ DOMAIN got' = Buses /\ DOMAIN status' = Buses
    BY <1>1 DEF I2cInv
  <1> QED
    BY <1>2, <1>8, <1>9, <1>10 DEF I2cInv

LEMMA TransferStep ==
    ASSUME I2cInv, board' = board, NEW b \in Buses, Transfer(b)
    PROVE  I2cInv'
  <1> DEFINE s == Head(todo[b])
             to == IF s.sub = None THEN pointer[s.dev] ELSE s.sub
  <1>1. PICK ok \in BOOLEAN, r \in Registers :
            /\ s.op = "point" => r \in IF ok THEN {to} ELSE {to, pointer[s.dev]}
            /\ pointer' = [pointer EXCEPT ![s.dev] = r]
            /\ got' = IF ok /\ s.op = "read" THEN [got EXCEPT ![b] = to] ELSE got
            /\ status' = [status EXCEPT ![b] = IF ok THEN "Success" ELSE "Fail"]
            /\ todo' = [todo EXCEPT ![b] = StepsLeft(b, ok)]
    BY DEF Transfer
  <1>2. /\ todo[b] # <<>> /\ s.op \in {"write", "point", "read"}
        /\ UNCHANGED <<clock, told, begun, call>>
    BY DEF Transfer
  <1>3. Buses' = Buses /\ DevicesOn(b)' = DevicesOn(b) /\ DevicesOn(b) \subseteq Devices
    BY DEF Buses, DevicesOn, Devices
  <1>4. /\ todo'[b] = IF ok THEN Tail(todo[b]) ELSE <<>>
        /\ status'[b] = IF ok THEN "Success" ELSE "Fail"
        /\ ok /\ s.op = "read" => got'[b] = to
    BY <1>1 DEF I2cInv, StepsLeft
  <1>5. ~InitLeft(b)
    BY <1>2, StartFirst, DividerFirst, SourceFirst, RootFirst DEF InitLeft
  <1>6. s.dev \in DevicesOn(b) /\ Left(b)'
    <2>1. CASE SendLeft(b)
      <3>1. PICK d \in DevicesOn(b), x \in Registers : todo[b] = Write(b, d, x)
        BY <1>2, <2>1 DEF SendLeft
      <3>2. s.dev = d /\ todo'[b] = <<>>
        BY <1>4, <3>1, WriteFirst
      <3>3. SendLeft(b)'
        BY <1>2, <1>3, <2>1, <3>2 DEF SendLeft
      <3> QED
        BY <3>2, <3>3 DEF Left
    <2>2. CASE ReceiveLeft(b)
      <3> DEFINE sub == call[b].sub
      <3>1. /\ call'[b] = call[b] /\ call[b].kind = "receive" /\ sub \in Registers
            /\ sub # None
        BY <1>2, <2>2, RegistersAssumption DEF ReceiveLeft, None
      <3>2. PICK d \in DevicesOn(b) :
               \/ todo[b] = Read(b, d, sub)
               \/ todo[b] = PointRead(b, d, sub)
               \/ todo[b] = ReadOn(b, d) /\ pointer[d] = sub
        BY <1>2, <2>2 DEF ReceiveLeft
      <3>3. CASE todo[b] = Read(b, d, sub)
        <4>1. s.dev = d /\ s.op = "read" /\ to = sub /\ todo'[b] = <<>>
          BY <1>4, <3>1, <3>3, ReadFirst
        <4>2. status'[b] = "Success" => got'[b] = sub
          BY <1>4, <4>1
        <4> QED
          BY <3>1, <4>1, <4>2 DEF Left, ReceiveLeft
      <3>4. CASE todo[b] = PointRead(b, d, sub)
        <4>1. s.dev = d /\ s.op = "point" /\ to = sub
          BY <3>1, <3>4, PointFirst
        <4>2. Tail(todo[b]) = ReadOn(b, d)
          BY <3>4, PointFirst
        <4>3. CASE ok
          <5>1. todo'[b] = ReadOn(b, d)
            BY <1>4, <4>2, <4>3
          <5>2. pointer'[d] = sub
            BY <1>1, <1>3, <4>1, <4>3 DEF I2cInv
          <5> QED
            BY <1>3, <3>1, <4>1, <5>1, <5>2 DEF Left, ReceiveLeft
        <4>4. CASE ~ok
          <5>1. todo'[b] = <<>> /\ status'[b] = "Fail"
            BY <1>4, <4>4
          <5> QED
            BY <3>1, <4>1, <5>1 DEF Left, ReceiveLeft
        <4> QED
          BY <4>3, <4>4
      <3>5. CASE todo[b] = ReadOn(b, d) /\ pointer[d] = sub
        <4>1. s.dev = d /\ s.op = "read" /\ to = sub /\ todo'[b] = <<>>
          BY <1>4, <3>5, ReadOnFirst
        <4>2. status'[b] = "Success" => got'[b] = sub
          BY <1>4, <4>1
        <4> QED
          BY <3>1, <4>1, <4>2 DEF Left, ReceiveLeft
      <3> QED
        BY <3>2, <3>3, <3>4, <3>5
    <2> QED
      BY <1>5, <2>1, <2>2 DEF I2cInv, Left
  <1>7. Clocked(b)'
    BY <1>2 DEF I2cInv, Clocked
  <1>8. ASSUME NEW x \in Buses, x # b
        PROVE  Clocked(x)' /\ Left(x)'
    <2>1. todo'[x] = todo[x] /\ status'[x] = status[x] /\ got'[x] = got[x]
      BY <1>1, <1>8 DEF I2cInv
    <2>2. ASSUME NEW d \in DevicesOn(x) PROVE pointer'[d] = pointer[d]
      <3>1. d # s.dev /\ d \in Devices
        BY <1>6, <1>8, OneBus DEF I2cInv
      <3> QED
        BY <1>1, <3>1 DEF I2cInv
    <2> QED
      BY <1>2, <1>8, <2>1, <2>2, OtherBus
  <1>9. /\ pointer' \in [Devices -> Registers]
        /\ clock' \in [Buses -> [source : Nat, by : Nat]]
        /\ DOMAIN told' = Buses /\ DOMAIN call' = Buses /\ DOMAIN todo' = Buses
        /\ DOMAIN got' = Buses /\ DOMAIN status' = Buses
    BY <1>1, <1>2 DEF I2cInv
  <1> QED
    BY <1>3, <1>6, <1>7, <1>8, <1>9 DEF I2cInv

LEMMA I2cStep == I2cInv /\ I2cNext /\ UNCHANGED board => I2cInv'
  BY CallStep, SetClockStep, StartBusStep, TransferStep DEF I2cNext

LEMMA I2cUnchanged == I2cInv /\ UNCHANGED <<board, i2cVars>> => I2cInv'
  <1> SUFFICES ASSUME I2cInv, UNCHANGED <<board, i2cVars>> PROVE I2cInv'
    OBVIOUS
  <1>1. /\ Buses' = Buses
        /\ UNCHANGED <<board, clock, told, begun, pointer, call, todo, got, status>>
    BY DEF i2cVars, Buses
  <1>2. ASSUME NEW b \in Buses PROVE Clocked(b)' /\ Left(b)'
    <2>1. Clocked(b)'
      BY <1>1 DEF I2cInv, Clocked
    <2>2. DevicesOn(b)' = DevicesOn(b)
      BY <1>1 DEF DevicesOn
    <2>3. InitLeft(b) => InitLeft(b)'
      BY <1>1 DEF InitLeft
    <2>4. SendLeft(b) => SendLeft(b)'
      BY <1>1, <2>2 DEF SendLeft
    <2>5. ReceiveLeft(b) => ReceiveLeft(b)'
      BY <1>1, <2>2 DEF ReceiveLeft
    <2> QED
      BY <2>1, <2>3, <2>4, <2>5 DEF I2cInv, Left
  <1> QED
    BY <1>1, <1>2 DEF I2cInv

LEMMA I2cInvariant == Spec => []I2cInv
  <1>1. Init => I2cInv
    BY I2cInitInv DEF Init
  <1>2. I2cInv /\ [Next]_vars => I2cInv'
    <2>1. UNCHANGED vars => UNCHANGED <<board, i2cVars>>
      BY DEF vars
    <2> QED
      BY <2>1, I2cStep, I2cUnchanged DEF Next
  <1> QED
    BY <1>1, <1>2, PTL DEF Spec

(* BOARD_LPI2C_Receive and BOARD_LPI2C_ReceiveSCCB: a receive that returns *)
(* success has read the register it was asked for, whatever failed before. *)
THEOREM ReadsAsked == Spec => []ReadsWhatItAsked
  <1>1. I2cInv => ReadsWhatItAsked
    <2> SUFFICES ASSUME I2cInv, NEW b \in Buses,
                        todo[b] = <<>>, status[b] = "Success", call[b].kind = "receive"
                 PROVE  got[b] = call[b].sub
      BY DEF ReadsWhatItAsked
    <2>1. ReceiveLeft(b)
      BY DEF I2cInv, Left, InitLeft, SendLeft
    <2> QED
      BY <2>1, ReadFirst, PointFirst, ReadOnFirst DEF ReceiveLeft
  <1> QED
    BY <1>1, I2cInvariant, PTL

(* The Init functions: no bus runs faster than its driver was last told,   *)
(* on the RT1060 once the camera has been initialised.                     *)
THEOREM SclBounded == Spec => []SclWithin
  <1>1. I2cInv => SclWithin
    <2> SUFFICES ASSUME I2cInv, NEW b \in Buses, told[b] # Off,
                        board = "RT1060" => "camera" \in begun
                 PROVE  Frequency(b) <= told[b]
      BY DEF SclWithin
    <2>1. Clocked(b)
      BY DEF I2cInv
    <2>2. CASE board = "RT1060"
      BY <2>1, <2>2 DEF Clocked, Frequency
    <2>3. CASE board # "RT1060" /\ clock[b].by = 1
      <3>1. told[b] = 24000 /\ clock[b].source = 24000
        BY <2>1, <2>3 DEF Clocked
      <3> QED
        BY <2>3, <3>1 DEF Frequency
    <2>4. CASE board # "RT1060" /\ clock[b].by = 12
      <3>1. told[b] >= 2000 /\ clock[b].source = 24000
        BY <2>1, <2>4 DEF Clocked
      <3>2. Frequency(b) = 2000
        BY <2>4, <3>1 DEF Frequency
      <3>3. told[b] \in {2000, 24000}
        BY <2>1, <2>4 DEF Clocked
      <3> QED
        BY <3>2, <3>3
    <2> QED
      BY <2>1, <2>2, <2>3, <2>4 DEF Clocked
  <1> QED
    BY <1>1, I2cInvariant, PTL

-----------------------------------------------------------------------------
(* Random numbers                                                          *)

(* Where a call is on each board, and that on the RT1060 nothing asks a    *)
(* generator for data that did not start.                                  *)
RngInv ==
    /\ board \in Boards
    /\ rng \in {"config", "trngInit", "trng"} => board = "RT1060"
    /\ rng \in {"caamInit", "caam"} => board = "RT1170"
    /\ rng = "trng" => generator = "on"
    /\ rng # "idle" => answer = "none" /\ filled = 0
    /\ RandomOnSuccess

LEMMA RngStep == RngInv /\ RngNext /\ UNCHANGED board => RngInv'
  <1> SUFFICES ASSUME RngInv, RngNext, UNCHANGED board PROVE RngInv'
    OBVIOUS
  <1>1. CASE AskRandom
    BY <1>1 DEF AskRandom, RngInv, RandomOnSuccess, Boards
  <1>2. CASE DefaultConfig
    BY <1>2 DEF DefaultConfig, RngInv, RandomOnSuccess, GoOn, Return
  <1>3. CASE TrngInit
    BY <1>3 DEF TrngInit, RngInv, RandomOnSuccess, GoOn, Return
  <1>4. CASE TrngData
    BY <1>4 DEF TrngData, RngInv, RandomOnSuccess, Return
  <1>5. CASE initRandom
    BY <1>5 DEF initRandom, RngInv, RandomOnSuccess, GoOn
  <1>6. CASE CaamData
    BY <1>6 DEF CaamData, RngInv, RandomOnSuccess, Return
  <1> QED
    BY <1>1, <1>2, <1>3, <1>4, <1>5, <1>6 DEF RngNext

(* aknano_cli_gen_random_bytes on the RT1060: success means random bytes,  *)
(* in every byte, for every size and whatever earlier calls came to.       *)
THEOREM SuccessIsRandom == Spec => []RandomOnSuccess
  <1>1. Init => RngInv
    BY DEF Init, RngInit, RngInv, RandomOnSuccess
  <1>2. RngInv /\ [Next]_vars => RngInv'
    <2>1. RngInv /\ UNCHANGED <<board, rngVars>> => RngInv'
      BY DEF RngInv, RandomOnSuccess, rngVars
    <2>2. UNCHANGED vars => UNCHANGED <<board, rngVars>>
      BY DEF vars
    <2> QED
      BY <2>1, <2>2, RngStep DEF Next
  <1>3. RngInv => RandomOnSuccess
    BY DEF RngInv
  <1> QED
    BY <1>1, <1>2, <1>3, PTL DEF Spec
=============================================================================
