------------------------- MODULE PacketPath_proofs -------------------------
(***************************************************************************)
(* Proofs about ProtoAnal and PacketPath, for all frames of any lengths    *)
(* below the width of a DWORD, any number of packets and any heap that has *)
(* room for the buffers of three AnalContents.                             *)
(***************************************************************************)
EXTENDS PacketPath, FiniteSetTheorems, TLAPS

-----------------------------------------------------------------------------
(* The analysis *)

Early == {"popped", "ip", "tcp", "udp"}
Late == {"analysed", "forwarded", "discarded"}
Transports == {"tcp", "udp"}

AnalTypes ==
    /\ bUseNullPkg \in BOOLEAN
    /\ frame \in Frames
    /\ ac \in [protype : {"err"} \cup Transports, start : Nat, len : Nat,
               swapped : BOOLEAN]
    /\ stage \in Early \cup Late \cup {"crashed"}
    /\ outOfMem \in BOOLEAN

(* The protocol byte of the frame is in it. *)
HasProtocol == Length(frame) > ProtocolAt

(* The stages a frame can be in, by its protocols. *)
AnalStages ==
    /\ stage \in Early => ac.protype = "err" /\ ~outOfMem
    /\ stage \in {"ip", "tcp", "udp", "analysed"} => frame.ether = "ip"
    /\ stage \in Transports /\ HasProtocol => frame.proto = stage
    /\ stage \in Late /\ frame.ether = "ip" /\ frame.proto \in Transports
         /\ HasProtocol => ac.protype # "err"
    /\ stage = "discarded" /\ frame.ether = "ip" => ac.len = 0
    /\ stage = "crashed" => ac.protype # "err"

(* What a TCP or UDP analysis leaves in the AnalContent: everything behind the
   fixed headers, unless the frame ends before. *)
FixedStart(proto) ==
    EthHeader + IpHeader + IF proto = "tcp" THEN TcpHeader ELSE UdpHeader
AnalResult ==
    ac.protype # "err" =>
        /\ HasProtocol => frame.proto = ac.protype
        /\ ac.start = FixedStart(ac.protype)
        /\ outOfMem => ac.len = 0
        /\ stage = "crashed" => Length(frame) < ac.start
        /\ stage # "crashed" /\ ~outOfMem => ac.start + ac.len = Length(frame)

AnalInv == AnalTypes /\ AnalStages /\ AnalResult

(* The lengths of a frame are numbers, it is shorter than 2^32 bytes, and the
   fixed headers fit in it if it has them. *)
LEMMA FrameLengths ==
  ASSUME NEW f \in Frames
  PROVE  /\ f \in Frame
         /\ UserStart(f) \in Nat
         /\ Length(f) \in 0 .. WordMod - 1 /\ Length(f) >= EthHeader
         /\ Length(f) = UserStart(f) - f.cut + f.user + f.padding
         /\ f.user > 0 => f.cut = 0
         /\ UserStart(f) >= EthHeader + IpHeader
         /\ f.proto \in Transports =>
              UserStart(f) + TakenAsHeader(f) >= FixedStart(f.proto)
         /\ ~f.fragment => TakenAsHeader(f) = 0
<1>1. /\ f \in Frame /\ WordMod \in Nat
      /\ 14 <= Length(f) /\ Length(f) < WordMod /\ (f.cut > 0 => f.user = 0)
  BY FramesAssumption DEF Wire
<1>2. /\ f.fragment => TransportHeader(f) = 0
      /\ ~f.fragment /\ f.proto = "tcp" => TransportHeader(f) = 20 + f.tcpOptions
      /\ ~f.fragment /\ f.proto = "udp" => TransportHeader(f) = 8
      /\ f.proto \notin Transports => TransportHeader(f) = 0
  BY Zenon DEF TransportHeader, Wire, Transports
<1>3. TransportHeader(f) \in Nat
  BY <1>1, <1>2 DEF Frame, Transports
<1>4. UserStart(f) = 34 + f.ipOptions + TransportHeader(f)
  BY <1>1, <1>3 DEF UserStart, Wire, Frame
<1> HIDE DEF TransportHeader
<1>5. UserStart(f) \in Nat /\ UserStart(f) >= 34
  BY <1>1, <1>3, <1>4 DEF Frame
<1>6. Length(f) = UserStart(f) - f.cut + f.user + f.padding  BY DEF Length
<1>7. Length(f) \in Nat  BY <1>1, <1>5, <1>6 DEF Frame
<1>8. /\ f.fragment /\ f.proto = "tcp" => TakenAsHeader(f) = 20
      /\ f.fragment /\ f.proto = "udp" => TakenAsHeader(f) = 8
      /\ ~f.fragment => TakenAsHeader(f) = 0
  BY Zenon DEF TakenAsHeader, Wire
<1>9. f.proto \in Transports => UserStart(f) + TakenAsHeader(f) >= FixedStart(f.proto)
  BY <1>1, <1>2, <1>4, <1>8
  DEF Frame, Transports, FixedStart, EthHeader, IpHeader, TcpHeader, UdpHeader
<1>10. f.user > 0 => f.cut = 0  BY <1>1 DEF Frame
<1> QED
  BY <1>1, <1>5, <1>6, <1>7, <1>8, <1>9, <1>10 DEF EthHeader, IpHeader

(* A DWORD subtraction is a number, and of a smaller number the subtraction. *)
LEMMA MinusExact ==
  ASSUME NEW a \in 0 .. WordMod - 1, NEW b \in 0 .. a
  PROVE  Minus(a, b) = a - b /\ Minus(a, b) \in 0 .. a
<1>1. WordMod \in Nat \ {0}  BY FramesAssumption
<1>2. a - b \in 0 .. WordMod - 1  BY <1>1
<1>3. (a - b) % WordMod = a - b  BY <1>1, <1>2
<1> QED  BY <1>3 DEF Minus

LEMMA MinusNat ==
  ASSUME NEW a \in Int, NEW b \in Int, WordMod > 0
  PROVE  Minus(a, b) \in Nat
BY FramesAssumption DEF Minus

(* The three subtractions of the analysis. *)
LEMMA HeadersOff ==
  ASSUME NEW length \in 0 .. WordMod - 1, NEW header \in {8, 20},
         length >= 34 + header
  PROVE  Minus(Minus(Minus(length, 14), 20), header) = length - 34 - header
<1>1. WordMod \in Nat /\ length \in Nat /\ header \in Nat
  BY FramesAssumption
<1>2. 14 \in 0 .. length  BY <1>1
<1>3. Minus(length, 14) = length - 14 /\ length - 14 \in 0 .. WordMod - 1
  BY <1>1, <1>2, MinusExact
<1>4. 20 \in 0 .. length - 14  BY <1>1
<1>5. Minus(length - 14, 20) = length - 34 /\ length - 34 \in 0 .. WordMod - 1
  BY <1>1, <1>3, <1>4, MinusExact
<1>6. header \in 0 .. length - 34  BY <1>1
<1>7. Minus(length - 34, header) = length - 34 - header
  BY <1>1, <1>5, <1>6, MinusExact
<1> QED  BY <1>3, <1>5, <1>7

(* If the headers fit in the frame, no length wraps. *)
LEMMA ContentLength ==
  ASSUME NEW proto \in Transports, frame \in Frames,
         NEW header, header = IF proto = "tcp" THEN TcpHeader ELSE UdpHeader
  PROVE  /\ Minus(IpPayload, header) \in Nat
         /\ Length(frame) >= FixedStart(proto) =>
              Minus(IpPayload, header) = Length(frame) - FixedStart(proto)
<1>1. header \in {8, 20} /\ FixedStart(proto) = 34 + header
  BY DEF EthHeader, IpHeader, FixedStart, Transports, TcpHeader, UdpHeader
<1>2. Length(frame) \in 0 .. WordMod - 1 /\ WordMod \in Nat
  BY FrameLengths, FramesAssumption
<1>3. ASSUME Length(frame) >= 34 + header
      PROVE  Minus(IpPayload, header) = Length(frame) - 34 - header
  BY <1>1, <1>2, <1>3, HeadersOff DEF IpPayload, EthHeader, IpHeader
<1>4. Length(frame) \in Int /\ WordMod > 0  BY <1>2
<1>5. Minus(IpPayload, header) \in Nat
  <2> DEFINE ethernet == Minus(Length(frame), EthHeader)
  <2>1. EthHeader \in Int /\ IpHeader \in Int /\ header \in Int
    BY <1>1 DEF EthHeader, IpHeader
  <2>2. ethernet \in Nat  BY <1>4, <2>1, MinusNat
  <2>3. IpPayload = Minus(ethernet, IpHeader)  BY DEF IpPayload
  <2> HIDE DEF ethernet
  <2>4. ethernet \in Int  BY <2>2
  <2>5. IpPayload \in Int  BY <1>4, <2>1, <2>3, <2>4, MinusNat
  <2> QED  BY <1>4, <2>1, <2>5, MinusNat
<1> QED  BY <1>1, <1>3, <1>4, <1>5

(* The first packet. *)
LEMMA AnalInit == Init => AnalInv
<1> SUFFICES ASSUME Init PROVE AnalInv
  OBVIOUS
<1>1. /\ bUseNullPkg \in BOOLEAN /\ frame \in Frames /\ stage = "popped"
      /\ outOfMem = FALSE /\ ac = Fresh /\ ac.protype = "err"
  BY DEF Init, Fresh
<1>2. AnalTypes  BY <1>1 DEF AnalTypes, Fresh, Early
<1>3. AnalStages  BY <1>1 DEF AnalStages, Early, Late, Transports
<1>4. AnalResult  BY <1>1 DEF AnalResult
<1> QED  BY <1>2, <1>3, <1>4 DEF AnalInv

(* The transport analysis yields everything behind the fixed headers, or the
   copy runs out of the frame. *)
LEMMA TransportStep ==
  ASSUME AnalInv, NEW proto \in Transports, NEW header,
         header = IF proto = "tcp" THEN TcpHeader ELSE UdpHeader,
         AnalyseTransport(proto, header)
  PROVE  AnalInv'
<1> DEFINE size == Minus(IpPayload, header)
           length == Length(frame)
           fixed == FixedStart(proto)
<1>1. /\ stage = proto /\ frame.ether = "ip" /\ frame \in Frames
      /\ HasProtocol => frame.proto = proto
  <2>1. stage = proto /\ AnalTypes /\ AnalStages
    BY DEF AnalInv, AnalyseTransport
  <2> QED  BY <2>1 DEF AnalTypes, AnalStages, Transports
<1>2. /\ size \in Nat /\ length \in Nat /\ fixed \in Nat
      /\ length >= fixed => size = length - fixed
  <2>1. fixed \in Nat
    BY DEF FixedStart, EthHeader, IpHeader, Transports, TcpHeader, UdpHeader
  <2>2. length \in Nat  BY <1>1, FrameLengths, FramesAssumption
  <2> QED  BY <1>1, <2>1, <2>2, ContentLength
<1>3. EthHeader + IpHeader + header = fixed
  BY DEF FixedStart, EthHeader, IpHeader, Transports, TcpHeader, UdpHeader
<1> HIDE DEF size, length, fixed
<1>4. /\ ac \in [protype : {"err"} \cup Transports, start : Nat, len : Nat,
                 swapped : BOOLEAN]
      /\ outOfMem = FALSE
  BY <1>1 DEF AnalInv, AnalTypes, AnalStages, Early, Transports
<1>5. Content(proto, header) =
        [protype |-> proto, start |-> fixed, len |-> size, swapped |-> ac.swapped]
  <2>1. Content(proto, header) =
          [ac EXCEPT !.protype = proto, !.start = fixed, !.len = size]
    BY <1>3 DEF Content, size
  <2> QED  BY <1>4, <2>1
<1>6. /\ ac'.protype = proto /\ ac'.start = fixed
      /\ ac' \in [protype : {"err"} \cup Transports, start : Nat, len : Nat,
                  swapped : BOOLEAN]
      /\ outOfMem' \in BOOLEAN /\ stage' \in {"analysed", "crashed"}
      /\ outOfMem' => ac'.len = 0 /\ stage' = "analysed"
      /\ stage' = "crashed" => length < fixed
      /\ stage' # "crashed" /\ ~outOfMem' => fixed + ac'.len = length
  <2>1. CASE /\ ac' = Content(proto, header)
             /\ stage' = IF Overrun(ac') THEN "crashed" ELSE "analysed"
             /\ UNCHANGED outOfMem
    <3>1. ac' = [protype |-> proto, start |-> fixed, len |-> size,
                 swapped |-> ac.swapped]
      BY <1>5, <2>1
    <3>2. outOfMem' = FALSE  BY <1>4, <2>1
    <3>3. Overrun(ac') <=> fixed + size > length
      BY <3>1 DEF Overrun, length
    <3>4. stage' = IF fixed + size > length THEN "crashed" ELSE "analysed"
      BY <2>1, <3>3
    <3>5. ac'.len = size /\ ac'.start = fixed /\ ac'.protype = proto  BY <3>1
    <3>6. /\ stage' \in {"analysed", "crashed"}
          /\ stage' = "crashed" => length < fixed
          /\ stage' # "crashed" => fixed + size = length
      BY <1>2, <3>4
    <3>7. ac' \in [protype : {"err"} \cup Transports, start : Nat, len : Nat,
                  swapped : BOOLEAN]
      BY <1>2, <1>4, <3>1
    <3> QED  BY <3>2, <3>5, <3>6, <3>7
  <2>2. CASE /\ ac' = [Content(proto, header) EXCEPT !.len = 0]
             /\ stage' = "analysed" /\ outOfMem' = TRUE
    <3>1. ac' = [protype |-> proto, start |-> fixed, len |-> 0,
                 swapped |-> ac.swapped]
      BY <1>5, <2>2
    <3> QED  BY <1>2, <1>4, <2>2, <3>1
  <2> QED  BY <2>1, <2>2 DEF AnalyseTransport
<1>7. frame' = frame /\ bUseNullPkg' = bUseNullPkg /\ (HasProtocol' <=> HasProtocol)
  BY DEF AnalyseTransport, HasProtocol
<1>8. AnalTypes'
  BY <1>6, <1>7 DEF AnalInv, AnalTypes, Late
<1>9. AnalStages'
  BY <1>1, <1>6, <1>7 DEF AnalStages, Early, Late, Transports
<1>10. AnalResult'
  BY <1>1, <1>6, <1>7 DEF AnalResult, length, fixed
<1> QED  BY <1>8, <1>9, <1>10 DEF AnalInv

(* The switch of IpProtoAnal goes by the protocol byte, if the frame has it. *)
LEMMA DispatchStep == AnalInv /\ DispatchIp => AnalInv'
<1> SUFFICES ASSUME AnalInv, DispatchIp PROVE AnalInv'
  OBVIOUS
<1>1. PICK proto \in IF HasProtocol THEN {frame.proto} ELSE {"tcp", "udp", "other"} :
        stage' = IF proto \in Transports THEN proto ELSE "analysed"
  BY DEF DispatchIp, HasProtocol, Transports
<1>2. /\ stage = "ip" /\ UNCHANGED <<bUseNullPkg, frame, ac, outOfMem>>
      /\ (HasProtocol' <=> HasProtocol)
  BY DEF DispatchIp, HasProtocol
<1>3. /\ stage' \in {"tcp", "udp", "analysed"}
      /\ HasProtocol /\ stage' \in Transports => frame.proto = stage'
      /\ HasProtocol /\ stage' = "analysed" => frame.proto \notin Transports
  BY <1>1 DEF Transports
<1>4. frame.ether = "ip" /\ ac.protype = "err" /\ ~outOfMem
  BY <1>2 DEF AnalInv, AnalStages, Early
<1> QED
  BY <1>2, <1>3, <1>4
  DEF AnalInv, AnalTypes, AnalStages, AnalResult, Early, Late, Transports

(* Every step of the analysis keeps the invariant. *)
LEMMA AnalStep == AnalInv /\ [Next]_vars => AnalInv'
<1> SUFFICES ASSUME AnalInv, [Next]_vars PROVE AnalInv'
  OBVIOUS
<1> USE DEF AnalInv, AnalTypes, AnalStages, AnalResult, Early, Late, Transports,
            HasProtocol
<1>1. CASE DispatchEther  BY <1>1 DEF DispatchEther
<1>2. CASE DispatchIp  BY <1>2, DispatchStep
<1>3. CASE AnalyseTcp  BY <1>3, TransportStep DEF AnalyseTcp
<1>4. CASE AnalyseUdp  BY <1>4, TransportStep DEF AnalyseUdp
<1>5. CASE Filter  BY <1>5 DEF Filter
<1>6. CASE UNCHANGED vars  BY <1>6 DEF vars
<1> QED  BY <1>1, <1>2, <1>3, <1>4, <1>5, <1>6 DEF Next

(* What the invariant says of the content. *)
LEMMA AnalCorrect ==
  AnalInv => ContentInside /\ UserDataKept /\ PlainContentExact /\ UserDataForwarded
<1> SUFFICES ASSUME AnalInv
             PROVE  ContentInside /\ UserDataKept /\ PlainContentExact
                      /\ UserDataForwarded
  OBVIOUS
<1> DEFINE length == Length(frame)
           user == UserStart(frame)
           taken == TakenAsHeader(frame)
<1>1. frame \in Frames  BY DEF AnalInv, AnalTypes
<1>2. /\ frame \in Frame /\ user \in Nat /\ length \in Nat
      /\ length = user - frame.cut + frame.user + frame.padding
      /\ frame.user > 0 => frame.cut = 0
      /\ user >= 34
      /\ frame.proto \in Transports => user + taken >= FixedStart(frame.proto)
      /\ ~frame.fragment => taken = 0
  BY <1>1, FrameLengths, FramesAssumption DEF EthHeader, IpHeader
<1>3. taken \in Nat \/ frame.proto \notin Transports
  <2>1. frame.fragment \in BOOLEAN  BY <1>2 DEF Frame
  <2> QED  BY <2>1 DEF TakenAsHeader, Wire, Transports
<1>4. HasProtocol <=> length > 23  BY DEF HasProtocol, ProtocolAt
<1>5. frame.cut = 0 => HasProtocol  BY <1>2, <1>4 DEF Frame
<1> HIDE DEF length, user, taken
<1>6. ac.protype # "err" =>
        /\ ac.protype \in Transports
        /\ ac.start \in Nat /\ ac.len \in Nat
        /\ ac.start = FixedStart(ac.protype)
        /\ HasProtocol => frame.proto = ac.protype
        /\ stage = "crashed" => length < ac.start
        /\ stage # "crashed" /\ ~outOfMem => ac.start + ac.len = length
  BY DEF AnalInv, AnalTypes, AnalResult, length
<1>7. ContentInside
  <2>1. ASSUME Analysed PROVE ac.start + ac.len <= length
    BY <1>2, <1>6, <2>1 DEF Analysed
  <2>2. ASSUME stage = "crashed"
        PROVE  (frame.fragment \/ frame.cut > 0) /\ length < ac.start
    <3>1. length < ac.start /\ ac.protype # "err"
      BY <1>6, <2>2 DEF AnalInv, AnalStages
    <3>2. ASSUME ~frame.fragment, frame.cut = 0 PROVE FALSE
      <4>1. frame.proto = ac.protype /\ frame.proto \in Transports
        BY <1>5, <1>6, <3>1, <3>2
      <4>2. user >= ac.start /\ length >= user
        BY <1>2, <1>6, <3>1, <3>2, <4>1 DEF Frame
      <4> QED  BY <1>2, <1>6, <3>1, <4>2
    <3> QED  BY <1>2, <3>1, <3>2 DEF Frame
  <2> QED  BY <2>1, <2>2 DEF ContentInside, length
<1>8. UserDataKept
  <2> SUFFICES ASSUME Analysed, frame.user > 0
               PROVE  ac.start <= user + taken /\ ac.start + ac.len >= user + frame.user
    BY DEF UserDataKept, user, taken
  <2>1. frame.proto = ac.protype /\ frame.proto \in Transports
    BY <1>2, <1>5, <1>6 DEF Analysed
  <2> QED  BY <1>2, <1>3, <1>6, <2>1 DEF Analysed, Frame
<1>9. PlainContentExact
  <2> SUFFICES ASSUME Analysed, Plain(frame)
               PROVE  ac.start = user /\ ac.len = frame.user
    BY DEF PlainContentExact, user
  <2>1. /\ ~frame.fragment /\ frame.cut = 0 /\ frame.padding = 0
        /\ frame.ipOptions = 0 /\ frame.tcpOptions = 0
    BY DEF Plain
  <2>2. frame.proto = ac.protype /\ frame.proto \in Transports
    BY <1>5, <1>6, <2>1 DEF Analysed
  <2>3. user = FixedStart(frame.proto)
    <3>1. /\ frame.proto = "tcp" => TransportHeader(frame) = 20 + frame.tcpOptions
          /\ frame.proto = "udp" => TransportHeader(frame) = 8
      BY <2>1, Zenon DEF TransportHeader, Wire
    <3> QED
      BY <1>2, <2>1, <2>2, <3>1
      DEF UserStart, Wire, Transports, FixedStart, EthHeader,
          IpHeader, TcpHeader, UdpHeader, user
  <2> QED  BY <1>2, <1>6, <2>1, <2>2, <2>3 DEF Analysed, Frame
<1>10. UserDataForwarded
  <2> SUFFICES ASSUME stage = "discarded", ~outOfMem, HasUserData(frame)
               PROVE  FALSE
    BY DEF UserDataForwarded
  <2>1. /\ frame.ether = "ip" /\ frame.proto \in Transports /\ frame.user > taken
    BY DEF HasUserData, Transports, taken
  <2>2. frame.cut = 0  BY <1>2, <1>3, <2>1 DEF Frame
  <2>3. ac.protype # "err" /\ ac.len = 0
    BY <1>5, <2>1, <2>2 DEF AnalInv, AnalStages, Late
  <2> QED
    BY <1>2, <1>3, <1>5, <1>6, <2>1, <2>2, <2>3 DEF Frame
<1> QED  BY <1>7, <1>8, <1>9, <1>10

-----------------------------------------------------------------------------
(* The heap.  The six buffer pointers of the three AnalContents are a function
   F from 1 .. 6, so that what free and malloc do is said once. *)

Fields == 1 .. 6
Buffers == [frame : Frames, start : Nat, len : Nat]
Pointers == Address \cup {NULL}

(* Every buffer that is allocated is behind one pointer, and every pointer
   that is not NULL is to one. *)
Owned(h, F) ==
    /\ h \in [Address -> Buffers \cup {Free}]
    /\ F \in [Fields -> Pointers]
    /\ \A i, j \in Fields : F[i] = F[j] /\ F[i] # NULL => i = j
    /\ \A a \in Address : h[a] # Free <=> \E i \in Fields : F[i] = a

(* F with other values of the fields i and j. *)
With(F, i, a, j, b) ==
    [n \in Fields |-> IF n = i THEN a ELSE IF n = j THEN b ELSE F[n]]

(* What is behind the pointers but for those of the fields I stays. *)
Kept(h, g, F, I) == \A j \in Fields \ I : F[j] # NULL => g[F[j]] = h[F[j]]

(* Five buffers leave room for another one. *)
LEMMA Room ==
  ASSUME NEW h, NEW F, Owned(h, F), NEW i \in Fields, F[i] = NULL
  PROVE  malloc(h) \in Address /\ h[malloc(h)] = Free
<1> DEFINE S == Fields \ {i}
           T == {F[j] : j \in S}
           f == [j \in S |-> F[j]]
<1>1. IsFiniteSet(S) /\ Cardinality(S) = 5
  <2>1. IsFiniteSet(Fields) /\ Cardinality(Fields) = 6
    <3>1. /\ IsFiniteSet(1 .. 6)
          /\ Cardinality(1 .. 6) = IF 1 > 6 THEN 0 ELSE 6 - 1 + 1
      BY FS_Interval, 1 \in Int, 6 \in Int, Zenon
    <3> QED  BY <3>1 DEF Fields
  <2> QED  BY <2>1, FS_RemoveElement
<1>2. f \in Surjection(S, T)  BY DEF Surjection
<1>3. IsFiniteSet(T) /\ Cardinality(T) <= 5  BY <1>1, <1>2, FS_Surjection
<1>4. \E a \in Address : h[a] = Free
  <2> SUFFICES ASSUME \A a \in Address : h[a] # Free PROVE FALSE
    OBVIOUS
  <2>1. Address \subseteq T  BY PathAssumption DEF Owned
  <2>2. Cardinality(Address) <= Cardinality(T) /\ Cardinality(T) \in Nat
        /\ Cardinality(Address) \in Nat
    BY <1>3, <2>1, PathAssumption, FS_Subset, FS_CardinalityType
  <2> QED  BY <1>3, <2>2, PathAssumption
<1> QED  BY <1>4 DEF malloc

(* free gives back what a pointer owns. *)
LEMMA FreeField ==
  ASSUME NEW h, NEW F, Owned(h, F), NEW i \in Fields
  PROVE  /\ Owned(free(h, F[i]), [F EXCEPT ![i] = NULL])
         /\ Kept(h, free(h, F[i]), F, {i})
<1> DEFINE g == free(h, F[i])
           G == [F EXCEPT ![i] = NULL]
<1>1. CASE F[i] = NULL
  <2>1. g = h  BY <1>1 DEF free
  <2>2. G = F  BY <1>1 DEF Owned
  <2> QED  BY <2>1, <2>2 DEF Kept
<1>2. CASE F[i] # NULL
  <2>1. g = [h EXCEPT ![F[i]] = Free] /\ F[i] \in Address
    BY <1>2 DEF free, Owned, Pointers
  <2>2. g \in [Address -> Buffers \cup {Free}] /\ G \in [Fields -> Pointers]
    BY <2>1 DEF Owned, Pointers
  <2>3. \A j, k \in Fields : G[j] = G[k] /\ G[j] # NULL => j = k
    BY DEF Owned
  <2>4. \A a \in Address : g[a] # Free <=> \E j \in Fields : G[j] = a
    BY <1>2, <2>1, PathAssumption DEF Owned, Pointers
  <2>5. Kept(h, g, F, {i})
    BY <1>2, <2>1 DEF Owned, Pointers, Kept
  <2> QED  BY <2>2, <2>3, <2>4, <2>5 DEF Owned
<1> QED  BY <1>1, <1>2

(* malloc, and the pointer that gets what it returns. *)
LEMMA AllocField ==
  ASSUME NEW h, NEW F, Owned(h, F), NEW i \in Fields, F[i] = NULL,
         NEW v \in Buffers
  PROVE  LET a == malloc(h)
             g == [h EXCEPT ![a] = v]
         IN  /\ Owned(g, [F EXCEPT ![i] = a])
             /\ Kept(h, g, F, {})
             /\ a \in Address /\ g[a] = v
<1> DEFINE a == malloc(h)
           g == [h EXCEPT ![a] = v]
           G == [F EXCEPT ![i] = a]
<1>1. a \in Address /\ h[a] = Free  BY Room
<1>2. v # Free  BY PathAssumption DEF Buffers
<1>3. \A j \in Fields : F[j] # a
  BY <1>1 DEF Owned
<1> HIDE DEF a
<1>4. g \in [Address -> Buffers \cup {Free}] /\ G \in [Fields -> Pointers]
  BY <1>1 DEF Owned, Pointers
<1>5. \A j, k \in Fields : G[j] = G[k] /\ G[j] # NULL => j = k
  BY <1>3 DEF Owned
<1>6. \A b \in Address : g[b] # Free <=> \E j \in Fields : G[j] = b
  BY <1>1, <1>2, <1>3, PathAssumption DEF Owned
<1>7. Kept(h, g, F, {})
  BY <1>1, <1>3 DEF Owned, Pointers, Kept
<1> QED  BY <1>1, <1>4, <1>5, <1>6, <1>7 DEF Owned, a

(* One buffer in the assignment: the pointer i gets a copy of what pointer k
   is to, or nothing if that has no length n. *)
Replaced(h, F, i, k, n, R) ==
    /\ Owned(R.heap, [F EXCEPT ![i] = R.at])
    /\ Kept(h, R.heap, F, {i})
    /\ n = 0 => R.at = NULL
    /\ n # 0 => R.at \in Address /\ R.heap[R.at] = h[F[k]]

(* Replace does that. *)
LEMMA ReplaceField ==
  ASSUME NEW h, NEW F, Owned(h, F), NEW i \in Fields, NEW k \in Fields \ {i},
         NEW n \in Nat, n # 0 => F[k] # NULL
  PROVE  Replaced(h, F, i, k, n, Replace(h, F[i], F[k], n))
<1> DEFINE R == Replace(h, F[i], F[k], n)
           g == free(h, F[i])
           G == [F EXCEPT ![i] = NULL]
           a == malloc(g)
           v == g[F[k]]
<1>1. Owned(g, G) /\ Kept(h, g, F, {i})  BY FreeField
<1>2. G[i] = NULL  BY DEF Owned
<1>3. CASE n = 0
  <2>1. R.heap = g /\ R.at = NULL  BY <1>3 DEF Replace
  <2> QED  BY <1>1, <1>3, <2>1 DEF Replaced
<1>4. CASE n # 0
  <2>1. R.heap = [g EXCEPT ![a] = v] /\ R.at = a  BY <1>4 DEF Replace
  <2>2. F[k] # NULL /\ F[k] \in Address /\ G[k] = F[k]
    BY <1>4 DEF Owned, Pointers
  <2>3. v = h[F[k]] /\ h[F[k]] \in Buffers
    BY <1>1, <2>2 DEF Owned, Kept
  <2>4. /\ Owned(R.heap, [G EXCEPT ![i] = a]) /\ Kept(g, R.heap, G, {})
        /\ a \in Address /\ R.heap[a] = v
    <3>1. v \in Buffers  BY <2>3
    <3> HIDE DEF g, G, v
    <3>2. LET g2 == [g EXCEPT ![a] = v]
          IN  /\ Owned(g2, [G EXCEPT ![i] = a]) /\ Kept(g, g2, G, {})
              /\ a \in Address /\ g2[a] = v
      BY <1>1, <1>2, <3>1, AllocField, Zenon
    <3> QED  BY <2>1, <3>2
  <2>5. [G EXCEPT ![i] = a] = [F EXCEPT ![i] = a]  BY DEF Owned
  <2>6. Kept(h, R.heap, F, {i})
    BY <1>1, <2>4 DEF Kept, Owned
  <2> HIDE DEF R
  <2>7. Replaced(h, F, i, k, n, R)
    BY <1>4, <2>1, <2>3, <2>4, <2>5, <2>6 DEF Replaced
  <2> QED  BY <2>7 DEF R
<1> QED  BY <1>3, <1>4

(* The destructor, and acInit: both pointers of an AnalContent. *)
LEMMA DestroyFields ==
  ASSUME NEW h, NEW F, Owned(h, F), NEW i \in Fields, NEW j \in Fields \ {i},
         NEW o, o.pbySrcContent = F[i], o.pbyAnalContent = F[j]
  PROVE  /\ Owned(Destroy(h, o), With(F, i, NULL, j, NULL))
         /\ Kept(h, Destroy(h, o), F, {i, j})
<1> DEFINE g == free(h, F[i])
           G == [F EXCEPT ![i] = NULL]
<1>1. Owned(g, G) /\ Kept(h, g, F, {i}) /\ G[j] = F[j]
  <2>1. G[j] = F[j]  BY DEF Owned
  <2> QED  BY <2>1, FreeField
<1>2. Owned(free(g, G[j]), [G EXCEPT ![j] = NULL]) /\ Kept(g, free(g, G[j]), G, {j})
  BY <1>1, FreeField
<1>3. Destroy(h, o) = free(g, G[j])  BY <1>1 DEF Destroy
<1>4. [G EXCEPT ![j] = NULL] = With(F, i, NULL, j, NULL)
  BY DEF Owned, With
<1>5. Kept(h, Destroy(h, o), F, {i, j})
  BY <1>1, <1>2, <1>3 DEF Kept, Owned
<1> QED  BY <1>2, <1>3, <1>4, <1>5

AnalContents ==
    [pbySrcContent : Pointers, dwSrcContLen : Nat,
     pbyAnalContent : Pointers, dwAnalContentLen : Nat,
     timeAndId : Frames \cup {NULL}, rest : Frames \cup {NULL}]

(* An AnalContent is empty, or both its buffers are of its frame. *)
Empty(o) ==
    /\ o.rest = NULL
    /\ o.pbySrcContent = NULL /\ o.dwSrcContLen = 0
    /\ o.pbyAnalContent = NULL /\ o.dwAnalContentLen = 0
Filled(h, o) ==
    /\ o.rest # NULL /\ o.timeAndId = o.rest
    /\ o.pbySrcContent # NULL
    /\ h[o.pbySrcContent] = Bytes(o.rest, 0, o.dwSrcContLen)
    /\ o.dwSrcContLen = Length(o.rest)
    /\ IF o.pbyAnalContent = NULL THEN o.dwAnalContentLen = 0
       ELSE /\ h[o.pbyAnalContent].frame = o.rest
            /\ h[o.pbyAnalContent].len = o.dwAnalContentLen
Whole(h, o) == Empty(o) \/ Filled(h, o)

(* It stays so as long as its buffers do. *)
LEMMA WholeKept ==
  ASSUME NEW h, NEW g, NEW o, Whole(h, o),
         o.pbySrcContent # NULL => g[o.pbySrcContent] = h[o.pbySrcContent],
         o.pbyAnalContent # NULL => g[o.pbyAnalContent] = h[o.pbyAnalContent]
  PROVE  Whole(g, o)
  BY DEF Whole, Empty, Filled

(* A frame is not empty: it has its Ethernet header. *)
LEMMA FrameNotEmpty ==
  ASSUME NEW f \in Frames
  PROVE  Length(f) \in Nat \ {0}
<1>1. Length(f) \in Nat /\ Length(f) >= 14
  BY FrameLengths, FramesAssumption DEF EthHeader
<1> QED  BY <1>1

(* o is a copy of an AnalContent, with its own buffers. *)
CopyOf(o, from, src, anal) ==
    /\ o.pbySrcContent = src /\ o.dwSrcContLen = from.dwSrcContLen
    /\ o.pbyAnalContent = anal /\ o.dwAnalContentLen = from.dwAnalContentLen
    /\ o.timeAndId = from.timeAndId /\ o.rest = from.rest
    /\ src \in Pointers /\ anal \in Pointers => o \in AnalContents

(* That is what the assignment makes of it. *)
LEMMA Copied ==
  ASSUME NEW from \in AnalContents, NEW src, NEW anal
  PROVE  CopyOf([from EXCEPT !.pbySrcContent = src, !.pbyAnalContent = anal],
                from, src, anal)
  BY DEF AnalContents, CopyOf

(* A deep copy A of from in the fields i and j of the pointers F. *)
Assigned(h, F, i, j, from, A) ==
    /\ Owned(A.heap, With(F, i, A.object.pbySrcContent,
                          j, A.object.pbyAnalContent))
    /\ Kept(h, A.heap, F, {i, j})
    /\ A.object \in AnalContents
    /\ Whole(A.heap, A.object)
    /\ A.object.rest = from.rest

(* The assignment makes one into the fields i and j of the AnalContent with
   the fields k and l. *)
LEMMA AssignFields ==
  ASSUME NEW h, NEW F, Owned(h, F),
         NEW i \in Fields, NEW j \in Fields \ {i},
         NEW k \in Fields \ {i, j}, NEW l \in Fields \ {i, j},
         NEW to, to.pbySrcContent = F[i], to.pbyAnalContent = F[j],
         NEW from \in AnalContents, from.pbySrcContent = F[k],
         from.pbyAnalContent = F[l], Whole(h, from)
  PROVE  Assigned(h, F, i, j, from, Assign(h, to, from))
<1> DEFINE S == Replace(h, F[i], F[k], from.dwSrcContLen)
           T == Replace(S.heap, F[j], F[l], from.dwAnalContentLen)
           G == [F EXCEPT ![i] = S.at]
           A == Assign(h, to, from)
           o == A.object
<1>1. /\ A.heap = T.heap
      /\ o = [from EXCEPT !.pbySrcContent = S.at, !.pbyAnalContent = T.at]
  BY DEF Assign
<1>2. /\ from.dwSrcContLen \in Nat /\ from.dwAnalContentLen \in Nat
      /\ from.dwSrcContLen # 0 => F[k] # NULL
      /\ from.dwAnalContentLen # 0 => F[l] # NULL
      /\ j \in Fields /\ k \in Fields \ {i} /\ l \in Fields \ {j}
  BY DEF AnalContents, Whole, Empty, Filled
<1> HIDE DEF T, A, o
<1>3. /\ Owned(S.heap, G) /\ Kept(h, S.heap, F, {i})
      /\ from.dwSrcContLen = 0 => S.at = NULL
      /\ from.dwSrcContLen # 0 => S.at \in Address /\ S.heap[S.at] = h[F[k]]
  <2>1. Replaced(h, F, i, k, from.dwSrcContLen, S)
    BY <1>2, ReplaceField, Zenon
  <2> QED  BY <2>1 DEF Replaced
<1>4. G[j] = F[j] /\ G[l] = F[l] /\ G[i] = S.at  BY DEF Owned
<1>5. /\ Owned(T.heap, [G EXCEPT ![j] = T.at])
      /\ Kept(S.heap, T.heap, G, {j})
      /\ from.dwAnalContentLen = 0 => T.at = NULL
      /\ from.dwAnalContentLen # 0 => T.at \in Address /\ T.heap[T.at] = S.heap[F[l]]
  <2>1. from.dwAnalContentLen # 0 => G[l] # NULL  BY <1>2, <1>4
  <2>2. T = Replace(S.heap, G[j], G[l], from.dwAnalContentLen)
    BY <1>4 DEF T
  <2> HIDE DEF S, G
  <2>3. Replaced(S.heap, G, j, l, from.dwAnalContentLen,
                 Replace(S.heap, G[j], G[l], from.dwAnalContentLen))
    BY <1>2, <1>3, <2>1, ReplaceField, Zenon
  <2> QED  BY <1>4, <2>2, <2>3 DEF Replaced
<1>6. [G EXCEPT ![j] = T.at] = With(F, i, S.at, j, T.at)
  BY DEF Owned, With
<1>7. Kept(h, T.heap, F, {i, j})
  BY <1>3, <1>4, <1>5 DEF Kept, Owned
<1>8. S.at \in Pointers /\ T.at \in Pointers
  BY <1>3, <1>5 DEF Pointers
<1> HIDE DEF S, G
<1>9. /\ o.pbySrcContent = S.at /\ o.pbyAnalContent = T.at
      /\ o.dwSrcContLen = from.dwSrcContLen
      /\ o.dwAnalContentLen = from.dwAnalContentLen
      /\ o.timeAndId = from.timeAndId /\ o.rest = from.rest
      /\ o \in AnalContents
  <2>1. CopyOf([from EXCEPT !.pbySrcContent = S.at, !.pbyAnalContent = T.at],
               from, S.at, T.at)
    BY Copied, Zenon
  <2>2. CopyOf(o, from, S.at, T.at)  BY <1>1, <2>1, Zenon
  <2> QED  BY <1>8, <2>2 DEF CopyOf
<1>10. Whole(T.heap, o)
  <2>1. CASE Empty(from)  BY <1>3, <1>5, <1>9, <2>1 DEF Empty, Whole
  <2>2. CASE Filled(h, from)
    <3>1. from.dwSrcContLen # 0
      BY <2>2, FrameNotEmpty DEF Filled, AnalContents
    <3>2. T.heap[S.at] = h[F[k]] /\ S.at \in Address
      <4>1. S.at \in Address /\ S.heap[S.at] = h[F[k]] /\ S.at # NULL
        BY <1>3, <3>1, PathAssumption
      <4>2. i \in Fields \ {j} /\ G[i] = S.at  BY <1>4
      <4> QED  BY <1>5, <4>1, <4>2 DEF Kept
    <3>3. from.dwAnalContentLen # 0 =>
            T.at \in Address /\ T.heap[T.at] = h[F[l]] /\ F[l] # NULL
      BY <1>2, <1>3, <1>5 DEF Kept
    <3>4. S.at # NULL /\ (from.dwAnalContentLen # 0 => T.at # NULL)
      BY <3>2, <3>3, PathAssumption
    <3> QED
      BY <1>5, <1>9, <2>2, <3>2, <3>3, <3>4 DEF Filled, Whole
  <2> QED  BY <2>1, <2>2 DEF Whole
<1>11. Assigned(h, F, i, j, from, A)
  BY <1>1, <1>5, <1>6, <1>7, <1>9, <1>10 DEF Assigned, o
<1> QED  BY <1>11 DEF A

(* The pointers of the three AnalContents. *)
Layout(p, s, o) ==
    [n \in Fields |-> IF n = 1 THEN p.pbySrcContent
                      ELSE IF n = 2 THEN p.pbyAnalContent
                      ELSE IF n = 3 THEN s.pbySrcContent
                      ELSE IF n = 4 THEN s.pbyAnalContent
                      ELSE IF n = 5 THEN o.pbySrcContent
                      ELSE o.pbyAnalContent]

(* The buffers of the worker's, the slot's and the output's AnalContent. *)
HeapInv(h, p, s, o) ==
    /\ Owned(h, Layout(p, s, o))
    /\ p \in AnalContents /\ s \in AnalContents /\ o \in AnalContents
    /\ Whole(h, p) /\ Whole(h, s) /\ Whole(h, o)

(* Where the fields are. *)
LEMMA LayoutFields ==
  ASSUME NEW p, NEW s, NEW o
  PROVE  /\ Layout(p, s, o)[1] = p.pbySrcContent
         /\ Layout(p, s, o)[2] = p.pbyAnalContent
         /\ Layout(p, s, o)[3] = s.pbySrcContent
         /\ Layout(p, s, o)[4] = s.pbyAnalContent
         /\ Layout(p, s, o)[5] = o.pbySrcContent
         /\ Layout(p, s, o)[6] = o.pbyAnalContent
  BY DEF Layout, Fields

(* A change of both pointers of one AnalContent. *)
LEMMA LayoutPacket ==
  ASSUME NEW p, NEW s, NEW o, NEW q
  PROVE  With(Layout(p, s, o), 1, q.pbySrcContent, 2, q.pbyAnalContent)
           = Layout(q, s, o)
  BY DEF Layout, Fields, With
(* The same for the slot, *)
LEMMA LayoutSlot ==
  ASSUME NEW p, NEW s, NEW o, NEW q
  PROVE  With(Layout(p, s, o), 3, q.pbySrcContent, 4, q.pbyAnalContent)
           = Layout(p, q, o)
  BY DEF Layout, Fields, With
(* and for what is put out. *)
LEMMA LayoutOut ==
  ASSUME NEW p, NEW s, NEW o, NEW q
  PROVE  With(Layout(p, s, o), 5, q.pbySrcContent, 6, q.pbyAnalContent)
           = Layout(p, s, q)
  BY DEF Layout, Fields, With

(* A change of the pointer to the content. *)
LEMMA LayoutContent ==
  ASSUME NEW p, NEW s, NEW o, NEW q, q.pbySrcContent = p.pbySrcContent
  PROVE  Layout(q, s, o) = [Layout(p, s, o) EXCEPT ![2] = q.pbyAnalContent]
<1> DEFINE F == Layout(p, s, o)
           G == Layout(q, s, o)
           H == [F EXCEPT ![2] = q.pbyAnalContent]
<1>1. \A n \in Fields : G[n] = H[n]  BY DEF Layout, Fields
<1>2. H = [n \in Fields |-> H[n]] /\ G = [n \in Fields |-> G[n]]
  BY DEF Layout
<1> HIDE DEF G, H
<1> QED  BY <1>1, <1>2 DEF G, H

(* What is in the buffers of an AnalContent stays. *)
SameBuffers(h, g, o) ==
    /\ o.pbySrcContent # NULL => g[o.pbySrcContent] = h[o.pbySrcContent]
    /\ o.pbyAnalContent # NULL => g[o.pbyAnalContent] = h[o.pbyAnalContent]

(* An empty AnalContent and an initialised one have no buffers. *)
LEMMA EmptyContents ==
  ASSUME NEW s \in AnalContents
  PROVE  /\ Nothing \in AnalContents /\ Empty(Nothing)
         /\ acInit(s) \in AnalContents /\ Empty(acInit(s))
<1>1. acInit(s) = [pbySrcContent |-> NULL, dwSrcContLen |-> 0,
                   pbyAnalContent |-> NULL, dwAnalContentLen |-> 0,
                   timeAndId |-> s.timeAndId, rest |-> NULL]
  BY DEF acInit, Nothing
<1> QED  BY <1>1 DEF Nothing, AnalContents, Pointers, Empty

(* delete. *)
LEMMA DestroyPacket ==
  ASSUME NEW h, NEW p, NEW s, NEW o, HeapInv(h, p, s, o)
  PROVE  HeapInv(Destroy(h, p), Nothing, s, o)
<1> DEFINE F == Layout(p, s, o)
           g == Destroy(h, p)
<1>1. /\ F[1] = p.pbySrcContent /\ F[2] = p.pbyAnalContent
      /\ F[3] = s.pbySrcContent /\ F[4] = s.pbyAnalContent
      /\ F[5] = o.pbySrcContent /\ F[6] = o.pbyAnalContent
  BY LayoutFields
<1>2. Owned(h, F) /\ \A n \in 1 .. 6 : n \in Fields
  BY DEF HeapInv, F, Fields
<1>3. /\ p \in AnalContents /\ s \in AnalContents /\ o \in AnalContents
      /\ Whole(h, p) /\ Whole(h, s) /\ Whole(h, o)
  BY DEF HeapInv
<1>4. /\ 1 \in Fields /\ 2 \in Fields \ {1}
      /\ 3 \in Fields \ {1, 2} /\ 4 \in Fields \ {1, 2}
      /\ 5 \in Fields \ {1, 2} /\ 6 \in Fields \ {1, 2}
  BY DEF Fields
<1> HIDE DEF F
<1>5. Owned(g, With(F, 1, NULL, 2, NULL)) /\ Kept(h, g, F, {1, 2})
  BY <1>1, <1>2, <1>4, DestroyFields
<1>6. Layout(Nothing, s, o) = With(F, 1, NULL, 2, NULL)
  BY LayoutPacket DEF F, Nothing
<1> HIDE DEF g
<1>7. Whole(g, s)
  <2>1. SameBuffers(h, g, s)  BY <1>1, <1>4, <1>5 DEF Kept, SameBuffers
  <2> QED  BY <1>3, <2>1, WholeKept DEF SameBuffers
<1>8. Whole(g, o)
  <2>1. SameBuffers(h, g, o)  BY <1>1, <1>4, <1>5 DEF Kept, SameBuffers
  <2> QED  BY <1>3, <2>1, WholeKept DEF SameBuffers
<1>9. Owned(g, Layout(Nothing, s, o))  BY <1>5, <1>6
<1>10. Nothing \in AnalContents /\ Whole(g, Nothing)
  BY <1>3, EmptyContents DEF Whole
<1>11. HeapInv(g, Nothing, s, o)
  BY <1>3, <1>7, <1>8, <1>9, <1>10 DEF HeapInv
<1> QED  BY <1>11 DEF g

(* CACQueue::Push: the slot becomes a copy of the packet. *)
LEMMA AssignSlot ==
  ASSUME NEW h, NEW p, NEW s, NEW o, HeapInv(h, p, s, o)
  PROVE  HeapInv(Assign(h, s, p).heap, p, Assign(h, s, p).object, o)
<1> DEFINE F == Layout(p, s, o)
           A == Assign(h, s, p)
           q == A.object
<1>1. /\ F[1] = p.pbySrcContent /\ F[2] = p.pbyAnalContent
      /\ F[3] = s.pbySrcContent /\ F[4] = s.pbyAnalContent
      /\ F[5] = o.pbySrcContent /\ F[6] = o.pbyAnalContent
  BY LayoutFields
<1>2. Owned(h, F) /\ \A n \in 1 .. 6 : n \in Fields
  BY DEF HeapInv, F, Fields
<1>3. /\ p \in AnalContents /\ s \in AnalContents /\ o \in AnalContents
      /\ Whole(h, p) /\ Whole(h, s) /\ Whole(h, o)
  BY DEF HeapInv
<1>4. /\ 3 \in Fields /\ 4 \in Fields \ {3}
      /\ 1 \in Fields \ {3, 4} /\ 2 \in Fields \ {3, 4}
      /\ 5 \in Fields \ {3, 4} /\ 6 \in Fields \ {3, 4}
  BY DEF Fields
<1> HIDE DEF F, A, q
<1>5. Assigned(h, F, 3, 4, p, A)
  BY <1>1, <1>2, <1>3, <1>4, AssignFields, Zenon DEF A
<1>6. /\ Owned(A.heap, With(F, 3, q.pbySrcContent, 4, q.pbyAnalContent))
      /\ Kept(h, A.heap, F, {3, 4}) /\ q \in AnalContents /\ Whole(A.heap, q)
  BY <1>5 DEF Assigned, q
<1>7. Owned(A.heap, Layout(p, q, o))  BY <1>6, LayoutSlot DEF F
<1>8. Whole(A.heap, p)
  <2>1. SameBuffers(h, A.heap, p)  BY <1>1, <1>4, <1>6 DEF Kept, SameBuffers
  <2> QED  BY <1>3, <2>1, WholeKept DEF SameBuffers
<1>9. Whole(A.heap, o)
  <2>1. SameBuffers(h, A.heap, o)  BY <1>1, <1>4, <1>6 DEF Kept, SameBuffers
  <2> QED  BY <1>3, <2>1, WholeKept DEF SameBuffers
<1>10. HeapInv(A.heap, p, q, o)
  BY <1>3, <1>6, <1>7, <1>8, <1>9 DEF HeapInv
<1> QED  BY <1>10 DEF A, q

(* CACQueue::Pop: the AnalContent of the output becomes a copy of the slot, *)
LEMMA AssignOut ==
  ASSUME NEW h, NEW p, NEW s, NEW o, HeapInv(h, p, s, o)
  PROVE  HeapInv(Assign(h, o, s).heap, p, s, Assign(h, o, s).object)
<1> DEFINE F == Layout(p, s, o)
           A == Assign(h, o, s)
           q == A.object
<1>1. /\ F[1] = p.pbySrcContent /\ F[2] = p.pbyAnalContent
      /\ F[3] = s.pbySrcContent /\ F[4] = s.pbyAnalContent
      /\ F[5] = o.pbySrcContent /\ F[6] = o.pbyAnalContent
  BY LayoutFields
<1>2. Owned(h, F) /\ \A n \in 1 .. 6 : n \in Fields
  BY DEF HeapInv, F, Fields
<1>3. /\ p \in AnalContents /\ s \in AnalContents /\ o \in AnalContents
      /\ Whole(h, p) /\ Whole(h, s) /\ Whole(h, o)
  BY DEF HeapInv
<1>4. /\ 5 \in Fields /\ 6 \in Fields \ {5}
      /\ 1 \in Fields \ {5, 6} /\ 2 \in Fields \ {5, 6}
      /\ 3 \in Fields \ {5, 6} /\ 4 \in Fields \ {5, 6}
  BY DEF Fields
<1> HIDE DEF F, A, q
<1>5. Assigned(h, F, 5, 6, s, A)
  BY <1>1, <1>2, <1>3, <1>4, AssignFields, Zenon DEF A
<1>6. /\ Owned(A.heap, With(F, 5, q.pbySrcContent, 6, q.pbyAnalContent))
      /\ Kept(h, A.heap, F, {5, 6}) /\ q \in AnalContents /\ Whole(A.heap, q)
  BY <1>5 DEF Assigned, q
<1>7. Owned(A.heap, Layout(p, s, q))  BY <1>6, LayoutOut DEF F
<1>8. Whole(A.heap, p)
  <2>1. SameBuffers(h, A.heap, p)  BY <1>1, <1>4, <1>6 DEF Kept, SameBuffers
  <2> QED  BY <1>3, <2>1, WholeKept DEF SameBuffers
<1>9. Whole(A.heap, s)
  <2>1. SameBuffers(h, A.heap, s)  BY <1>1, <1>4, <1>6 DEF Kept, SameBuffers
  <2> QED  BY <1>3, <2>1, WholeKept DEF SameBuffers
<1>10. HeapInv(A.heap, p, s, q)
  BY <1>3, <1>6, <1>7, <1>8, <1>9 DEF HeapInv
<1> QED  BY <1>10 DEF A, q

(* and the slot is initialised. *)
LEMMA InitSlot ==
  ASSUME NEW h, NEW p, NEW s, NEW o, HeapInv(h, p, s, o)
  PROVE  HeapInv(Destroy(h, s), p, acInit(s), o)
<1> DEFINE F == Layout(p, s, o)
           g == Destroy(h, s)
<1>1. /\ F[1] = p.pbySrcContent /\ F[2] = p.pbyAnalContent
      /\ F[3] = s.pbySrcContent /\ F[4] = s.pbyAnalContent
      /\ F[5] = o.pbySrcContent /\ F[6] = o.pbyAnalContent
  BY LayoutFields
<1>2. Owned(h, F) /\ \A n \in 1 .. 6 : n \in Fields
  BY DEF HeapInv, F, Fields
<1>3. /\ p \in AnalContents /\ s \in AnalContents /\ o \in AnalContents
      /\ Whole(h, p) /\ Whole(h, s) /\ Whole(h, o)
  BY DEF HeapInv
<1>4. /\ 3 \in Fields /\ 4 \in Fields \ {3}
      /\ 1 \in Fields \ {3, 4} /\ 2 \in Fields \ {3, 4}
      /\ 5 \in Fields \ {3, 4} /\ 6 \in Fields \ {3, 4}
  BY DEF Fields
<1> HIDE DEF F
<1>5. Owned(g, With(F, 3, NULL, 4, NULL)) /\ Kept(h, g, F, {3, 4})
  BY <1>1, <1>2, <1>4, DestroyFields
<1>6. acInit(s) \in AnalContents /\ Empty(acInit(s))
  BY <1>3, EmptyContents
<1>7. Layout(p, acInit(s), o) = With(F, 3, NULL, 4, NULL)
  BY <1>6, LayoutSlot DEF F, Empty
<1> HIDE DEF g
<1>8. Whole(g, p)
  <2>1. SameBuffers(h, g, p)  BY <1>1, <1>4, <1>5 DEF Kept, SameBuffers
  <2> QED  BY <1>3, <2>1, WholeKept DEF SameBuffers
<1>9. Whole(g, o)
  <2>1. SameBuffers(h, g, o)  BY <1>1, <1>4, <1>5 DEF Kept, SameBuffers
  <2> QED  BY <1>3, <2>1, WholeKept DEF SameBuffers
<1>10. Owned(g, Layout(p, acInit(s), o))  BY <1>5, <1>7
<1>11. HeapInv(g, p, acInit(s), o)
  BY <1>3, <1>6, <1>8, <1>9, <1>10 DEF HeapInv, Whole
<1> QED  BY <1>11 DEF g

(* The constructor: a packet that was not there has its raw content. *)
LEMMA ConstructPacket ==
  ASSUME NEW h, NEW s, NEW o, HeapInv(h, Nothing, s, o), NEW f \in Frames
  PROVE  /\ HeapInv(Construct(h, f).heap, Construct(h, f).object, s, o)
         /\ Construct(h, f).object.rest = f
         /\ Construct(h, f).object.pbyAnalContent = NULL
<1> DEFINE F == Layout(Nothing, s, o)
           a == malloc(h)
           v == Bytes(f, 0, Length(f))
           g == [h EXCEPT ![a] = v]
           q == Construct(h, f).object
<1>1. /\ F[1] = NULL /\ F[2] = NULL
      /\ F[3] = s.pbySrcContent /\ F[4] = s.pbyAnalContent
      /\ F[5] = o.pbySrcContent /\ F[6] = o.pbyAnalContent
  BY LayoutFields DEF Nothing
<1>2. Owned(h, F) /\ \A n \in 1 .. 6 : n \in Fields
  BY DEF HeapInv, F, Fields
<1>3. /\ s \in AnalContents /\ o \in AnalContents /\ Whole(h, s) /\ Whole(h, o)
  BY DEF HeapInv
<1>4. Construct(h, f).heap = g /\ v \in Buffers /\ Length(f) \in Nat
  BY FrameNotEmpty DEF Construct, Buffers, Bytes
<1>5. q = [pbySrcContent |-> a, dwSrcContLen |-> Length(f),
           pbyAnalContent |-> NULL, dwAnalContentLen |-> 0,
           timeAndId |-> f, rest |-> f]
  BY DEF Construct, Nothing
<1> HIDE DEF F, v, q
<1>6. /\ Owned(g, [F EXCEPT ![1] = a]) /\ Kept(h, g, F, {})
      /\ a \in Address /\ g[a] = v
  <2>1. 1 \in Fields  BY <1>2
  <2> HIDE DEF a, g
  <2>2. LET b == malloc(h)
            k == [h EXCEPT ![b] = v]
        IN  /\ Owned(k, [F EXCEPT ![1] = b]) /\ Kept(h, k, F, {})
            /\ b \in Address /\ k[b] = v
    BY <1>1, <1>2, <1>4, <2>1, AllocField, Zenon
  <2> QED  BY <2>2 DEF a, g
<1> HIDE DEF a, g
<1>7. Layout(q, s, o) = [F EXCEPT ![1] = a]
  BY <1>5 DEF F, Layout, Fields, Nothing
<1>8. q \in AnalContents /\ Whole(g, q) /\ q.rest = f /\ q.pbyAnalContent = NULL
  <2>1. a # NULL /\ f # NULL  BY <1>6, PathAssumption
  <2>2. q \in AnalContents  BY <1>4, <1>5, <1>6 DEF AnalContents, Pointers
  <2>3. Filled(g, q)
    BY <1>5, <1>6, <2>1 DEF Filled, v
  <2> QED  BY <1>5, <2>2, <2>3 DEF Whole
<1>9. Whole(g, s)
  <2>1. SameBuffers(h, g, s)  BY <1>1, <1>2, <1>6 DEF Kept, SameBuffers
  <2> QED  BY <1>3, <2>1, WholeKept DEF SameBuffers
<1>10. Whole(g, o)
  <2>1. SameBuffers(h, g, o)  BY <1>1, <1>2, <1>6 DEF Kept, SameBuffers
  <2> QED  BY <1>3, <2>1, WholeKept DEF SameBuffers
<1>11. HeapInv(g, q, s, o)
  BY <1>3, <1>6, <1>7, <1>8, <1>9, <1>10 DEF HeapInv
<1> QED  BY <1>4, <1>8, <1>11 DEF q

(* q is p with another content. *)
ContentSet(q, p, a, n) ==
    /\ q.pbySrcContent = p.pbySrcContent /\ q.dwSrcContLen = p.dwSrcContLen
    /\ q.pbyAnalContent = a /\ q.dwAnalContentLen = n
    /\ q.timeAndId = p.timeAndId /\ q.rest = p.rest
    /\ a \in Pointers => q \in AnalContents

(* That is what the analysis makes of a packet. *)
LEMMA ContentSetBy ==
  ASSUME NEW p \in AnalContents, NEW a, NEW n \in Nat
  PROVE  ContentSet([p EXCEPT !.pbyAnalContent = a, !.dwAnalContentLen = n],
                    p, a, n)
  BY DEF AnalContents, ContentSet

(* The heap is in order with n bytes of its frame for the packet. *)
AnalysedInv(h, p, s, o, start, n) ==
    LET q == [p EXCEPT !.pbyAnalContent = malloc(h), !.dwAnalContentLen = n]
    IN  /\ HeapInv([h EXCEPT ![malloc(h)] = Bytes(p.rest, start, n)], q, s, o)
        /\ q.rest = p.rest

(* The analysis: a packet that had no content has one of its frame. *)
LEMMA AnalysePacket ==
  ASSUME NEW h, NEW p, NEW s, NEW o, HeapInv(h, p, s, o),
         p.rest # NULL, p.pbyAnalContent = NULL,
         NEW start \in Nat, NEW n \in Nat
  PROVE  AnalysedInv(h, p, s, o, start, n)
<1> DEFINE F == Layout(p, s, o)
           a == malloc(h)
           v == Bytes(p.rest, start, n)
           g == [h EXCEPT ![a] = v]
           q == [p EXCEPT !.pbyAnalContent = a, !.dwAnalContentLen = n]
<1>1. /\ F[1] = p.pbySrcContent /\ F[2] = NULL
      /\ F[3] = s.pbySrcContent /\ F[4] = s.pbyAnalContent
      /\ F[5] = o.pbySrcContent /\ F[6] = o.pbyAnalContent
  BY LayoutFields
<1>2. Owned(h, F) /\ \A i \in 1 .. 6 : i \in Fields
  BY DEF HeapInv, F, Fields
<1>3. /\ p \in AnalContents /\ s \in AnalContents /\ o \in AnalContents
      /\ Whole(h, p) /\ Whole(h, s) /\ Whole(h, o)
  BY DEF HeapInv
<1>4. p.rest \in Frames /\ v \in Buffers /\ v.frame = p.rest /\ v.len = n
  BY <1>3 DEF AnalContents, Buffers, Bytes
<1>5. ContentSet(q, p, a, n)  BY <1>3, ContentSetBy, Zenon
<1> HIDE DEF q
<1>6. /\ q.pbySrcContent = p.pbySrcContent /\ q.dwSrcContLen = p.dwSrcContLen
      /\ q.pbyAnalContent = a /\ q.dwAnalContentLen = n
      /\ q.timeAndId = p.timeAndId /\ q.rest = p.rest
      /\ a \in Pointers => q \in AnalContents
  BY <1>5 DEF ContentSet
<1>7. /\ Owned(g, [F EXCEPT ![2] = a]) /\ Kept(h, g, F, {})
      /\ a \in Address /\ g[a] = v
  <2>1. 2 \in Fields  BY <1>2
  <2> HIDE DEF a, F, v, g
  <2>2. LET b == malloc(h)
            k == [h EXCEPT ![b] = v]
        IN  /\ Owned(k, [F EXCEPT ![2] = b]) /\ Kept(h, k, F, {})
            /\ b \in Address /\ k[b] = v
    BY <1>1, <1>2, <1>4, <2>1, AllocField, Zenon
  <2> QED  BY <2>2 DEF a, g
<1> HIDE DEF a, v, g
<1>8. Layout(q, s, o) = [F EXCEPT ![2] = a]
  <2> HIDE DEF F
  <2>1. Layout(q, s, o) = [Layout(p, s, o) EXCEPT ![2] = q.pbyAnalContent]
    BY <1>6, LayoutContent
  <2> QED  BY <1>6, <2>1, Zenon DEF F
<1> HIDE DEF F
<1>9. q \in AnalContents  BY <1>6, <1>7 DEF Pointers
<1>10. Whole(g, q)
  <2>1. a # NULL /\ Filled(h, p)  BY <1>3, <1>7, PathAssumption DEF Whole, Empty
  <2>2. g[p.pbySrcContent] = h[p.pbySrcContent]
    BY <1>1, <1>2, <1>7, <2>1 DEF Kept, Filled
  <2>3. Filled(g, q)
    BY <1>4, <1>7, <1>6, <2>1, <2>2 DEF Filled
  <2> QED  BY <2>3 DEF Whole
<1>11. Whole(g, s)
  <2>1. SameBuffers(h, g, s)  BY <1>1, <1>2, <1>7 DEF Kept, SameBuffers
  <2> QED  BY <1>3, <2>1, WholeKept DEF SameBuffers
<1>12. Whole(g, o)
  <2>1. SameBuffers(h, g, o)  BY <1>1, <1>2, <1>7 DEF Kept, SameBuffers
  <2> QED  BY <1>3, <2>1, WholeKept DEF SameBuffers
<1>13. HeapInv(g, q, s, o) /\ q.rest = p.rest
  BY <1>3, <1>7, <1>8, <1>9, <1>10, <1>11, <1>12, <1>6 DEF HeapInv
<1> QED  BY <1>13 DEF g, q, a, v, AnalysedInv

-----------------------------------------------------------------------------
(* The path of a packet *)

(* The buffers are owned and of one frame each; while the worker has a packet
   it is the one under analysis, without content until that is done. *)
PathInv ==
    /\ AnalInv
    /\ HeapInv(heap, packet, slot, out)
    /\ worker \in {"deal", "delete", "pop"}
    /\ IF worker = "pop" THEN packet = Nothing ELSE packet.rest = frame
    /\ worker = "deal" /\ stage \in Early => packet.pbyAnalContent = NULL

(* Nothing is allocated at first. *)
LEMMA NoBuffers == HeapInv([a \in Address |-> Free], Nothing, Nothing, Nothing)
<1> DEFINE h == [a \in Address |-> Free]
           F == Layout(Nothing, Nothing, Nothing)
<1>1. \A n \in Fields : F[n] = NULL  BY DEF Layout, Nothing
<1>2. F \in [Fields -> Pointers]  BY DEF Layout, Nothing, Pointers
<1>3. h \in [Address -> Buffers \cup {Free}]  OBVIOUS
<1>4. \A a \in Address : h[a] = Free /\ a # NULL  BY PathAssumption
<1> HIDE DEF h, F
<1>5. Owned(h, F)  BY <1>1, <1>2, <1>3, <1>4 DEF Owned
<1>6. Nothing \in AnalContents /\ Empty(Nothing)
  BY DEF Nothing, AnalContents, Pointers, Empty
<1>7. HeapInv(h, Nothing, Nothing, Nothing)
  BY <1>5, <1>6 DEF HeapInv, Whole, F
<1> QED  BY <1>7 DEF h

(* The first packet is constructed in an empty heap. *)
LEMMA PathInitInv == PathInit => PathInv
<1> SUFFICES ASSUME PathInit PROVE PathInv
  OBVIOUS
<1>1. AnalInv  BY AnalInit DEF PathInit
<1>2. frame \in Frames  BY <1>1 DEF AnalInv, AnalTypes
<1> DEFINE h == [a \in Address |-> Free]
<1>3. /\ heap = Construct(h, frame).heap /\ packet = Construct(h, frame).object
      /\ slot = Nothing /\ out = Nothing /\ worker = "deal"
  BY DEF PathInit
<1>4. HeapInv(h, Nothing, Nothing, Nothing)  BY NoBuffers
<1> HIDE DEF h
<1>5. /\ HeapInv(Construct(h, frame).heap, Construct(h, frame).object, Nothing, Nothing)
      /\ Construct(h, frame).object.rest = frame
      /\ Construct(h, frame).object.pbyAnalContent = NULL
  BY <1>2, <1>4, ConstructPacket, Zenon
<1> QED  BY <1>1, <1>3, <1>5 DEF PathInv

(* A new packet starts its analysis as the first one did. *)
LEMMA NextPacketStep ==
  ASSUME PathInv, NEW f \in Frames, NextPacket(f)
  PROVE  PathInv'
<1>1. AnalInv'
  <2>1. Init'
    BY DEF NextPacket, Init, PathInv, AnalInv, AnalTypes
  <2>2. Init' => AnalInv'  BY AnalInit, PTL
  <2> QED  BY <2>1, <2>2
<1>2. HeapInv(heap, Nothing, slot, out)  BY DEF PathInv, NextPacket
<1>3. /\ HeapInv(Construct(heap, f).heap, Construct(heap, f).object, slot, out)
      /\ Construct(heap, f).object.rest = f
      /\ Construct(heap, f).object.pbyAnalContent = NULL
  BY <1>2, ConstructPacket, Zenon
<1>4. /\ heap' = Construct(heap, f).heap /\ packet' = Construct(heap, f).object
      /\ slot' = slot /\ out' = out /\ worker' = "deal" /\ frame' = f
  BY DEF NextPacket
<1>5. HeapInv(heap', packet', slot', out') /\ packet'.rest = f
      /\ packet'.pbyAnalContent = NULL
  BY <1>3, <1>4
<1> QED  BY <1>1, <1>4, <1>5 DEF PathInv

(* The analysis of the packet, with the content it allocates. *)
LEMMA AnalyseStep == PathInv /\ Analyse => PathInv'
<1> SUFFICES ASSUME PathInv, Analyse PROVE PathInv'
  OBVIOUS
<1>1. AnalInv'  BY AnalStep DEF PathInv, Analyse, Next
<1>2. /\ stage \in Early /\ stage' \in {"analysed", "crashed"} /\ frame' = frame
      /\ worker = "deal" /\ worker' = "deal" /\ slot' = slot /\ out' = out
  BY DEF Analyse, AnalyseTcp, AnalyseUdp, AnalyseTransport, Overrun, Early
<1>3. HeapInv(heap, packet, slot, out) /\ packet.rest = frame
      /\ packet.pbyAnalContent = NULL /\ frame \in Frames
  BY <1>2 DEF PathInv, AnalInv, AnalTypes
<1>4. ac'.start \in Nat /\ ac'.len \in Nat  BY <1>1 DEF AnalInv, AnalTypes
<1>5. packet.rest # NULL  BY <1>3, PathAssumption
<1>6. HeapInv(heap', packet', slot', out') /\ packet'.rest = frame
  <2>1. CASE outOfMem'  BY <1>2, <1>3, <2>1 DEF Analyse
  <2>2. CASE ~outOfMem'
    <3> DEFINE q == [packet EXCEPT !.pbyAnalContent = malloc(heap),
                                   !.dwAnalContentLen = ac'.len]
               g == [heap EXCEPT ![malloc(heap)] =
                                   Bytes(packet.rest, ac'.start, ac'.len)]
    <3>1. heap' = g /\ packet' = q  BY <1>3, <2>2 DEF Analyse
    <3>2. HeapInv(g, q, slot, out) /\ q.rest = packet.rest
      <4>1. AnalysedInv(heap, packet, slot, out, ac'.start, ac'.len)
        BY <1>3, <1>4, <1>5, AnalysePacket
      <4> QED  BY <4>1 DEF AnalysedInv
    <3> HIDE DEF g, q
    <3> QED  BY <1>2, <1>3, <3>1, <3>2
  <2> QED  BY <2>1, <2>2
<1> QED  BY <1>1, <1>2, <1>6 DEF PathInv, Early

(* Every step keeps the invariant. *)
LEMMA PathStep == PathInv /\ [PathNext]_pathVars => PathInv'
<1> SUFFICES ASSUME PathInv, [PathNext]_pathVars PROVE PathInv'
  OBVIOUS
<1>1. AnalInv /\ HeapInv(heap, packet, slot, out)  BY DEF PathInv
<1>2. ASSUME UNCHANGED others PROVE AnalInv'
  BY <1>1, <1>2, AnalStep DEF others, vars
<1>3. ASSUME NEW f \in Frames, NextPacket(f) PROVE PathInv'
  BY <1>3, NextPacketStep
<1>4. CASE Analyse  BY <1>4, AnalyseStep
<1>5. CASE Deal
  <2>1. AnalInv'  BY <1>1, <1>5, AnalStep DEF Deal, Next
  <2>2. frame' = frame /\ (stage' \in Early => stage \in Early)
    BY <1>1, <1>5
    DEF Deal, DispatchEther, DispatchIp, Filter, Early, AnalInv, AnalTypes
  <2> QED  BY <1>5, <2>1, <2>2 DEF Deal, PathInv
<1>6. CASE Push
  <2>1. HeapInv(heap', packet', slot', out')
    <3>1. CASE full  BY <1>1, <1>6, <3>1 DEF Push
    <3>2. CASE ~full  BY <1>1, <1>6, <3>2, AssignSlot DEF Push
    <3> QED  BY <3>1, <3>2
  <2>2. AnalInv'  BY <1>2, <1>6 DEF Push
  <2> QED  BY <1>6, <2>1, <2>2 DEF PathInv, Push, others
<1>7. CASE Delete
  <2>1. HeapInv(heap', packet', slot', out')
    BY <1>1, <1>7, DestroyPacket DEF Delete
  <2>2. AnalInv'  BY <1>2, <1>7 DEF Delete
  <2> QED  BY <1>7, <2>1, <2>2 DEF PathInv, Delete
<1>8. CASE Pop
  <2>1. HeapInv(heap', packet', slot', out')
    <3> DEFINE g == Assign(heap, out, slot).heap
               q == Assign(heap, out, slot).object
    <3>1. HeapInv(g, packet, slot, q)  BY <1>1, AssignOut
    <3>2. /\ heap' = Destroy(g, slot) /\ packet' = packet
          /\ slot' = acInit(slot) /\ out' = q
      BY <1>8 DEF Pop
    <3> HIDE DEF g, q
    <3> QED  BY <3>1, <3>2, InitSlot
  <2>2. AnalInv'  BY <1>2, <1>8 DEF Pop
  <2> QED  BY <1>8, <2>1, <2>2 DEF PathInv, Pop, others
<1>9. CASE Clear
  <2>1. AnalInv'  BY <1>2, <1>9 DEF Clear
  <2> QED  BY <1>9, <2>1 DEF PathInv, Clear, others
<1>10. CASE UNCHANGED pathVars
  <2>1. AnalInv'  BY <1>1, <1>10, AnalStep DEF pathVars
  <2> QED  BY <1>10, <2>1 DEF PathInv, pathVars, vars
<1> QED
  BY <1>3, <1>4, <1>5, <1>6, <1>7, <1>8, <1>9, <1>10 DEF PathNext

(* The fields that hold an address: none of a free buffer, one of another. *)
LEMMA OneOwner ==
  ASSUME NEW h, NEW p, NEW s, NEW o, HeapInv(h, p, s, o), NEW a \in Address,
         NEW Holders, NEW Contents,
         Holders = {i \in 1 .. 3 : Layout(p, s, o)[2 * i - 1] = a},
         Contents = {i \in 1 .. 3 : Layout(p, s, o)[2 * i] = a}
  PROVE  Cardinality(Holders) + Cardinality(Contents) = IF h[a] = Free THEN 0 ELSE 1
<1> DEFINE F == Layout(p, s, o)
<1>1. Owned(h, F) /\ a # NULL  BY PathAssumption DEF HeapInv
<1> HIDE DEF F
<1>2. \A i \in 1 .. 3 : 2 * i - 1 \in Fields /\ 2 * i \in Fields
  BY DEF Fields
<1>3. CASE h[a] = Free
  <2>1. \A n \in Fields : F[n] # a  BY <1>1, <1>3 DEF Owned
  <2>2. Holders = {} /\ Contents = {}  BY <1>2, <2>1 DEF F
  <2> QED  BY <1>3, <2>2, FS_EmptySet
<1>4. CASE h[a] # Free
  <2>1. PICK n \in Fields : F[n] = a  BY <1>1, <1>4 DEF Owned
  <2>2. \A m \in Fields : F[m] = a <=> m = n  BY <1>1, <2>1 DEF Owned
  <2>3. PICK i \in 1 .. 3 : n = 2 * i - 1 \/ n = 2 * i
    <3>1. n = 2 * 1 - 1 \/ n = 2 * 1 \/ n = 2 * 2 - 1 \/ n = 2 * 2
          \/ n = 2 * 3 - 1 \/ n = 2 * 3
      BY DEF Fields
    <3> QED  BY <3>1
  <2>4. Cardinality({i}) = 1 /\ Cardinality({}) = 0
    BY FS_EmptySet, FS_Singleton, Zenon
  <2>5. CASE n = 2 * i - 1
    <3>1. Holders = {i} /\ Contents = {}  BY <1>2, <2>2, <2>5 DEF F
    <3> QED  BY <1>4, <2>4, <3>1
  <2>6. CASE n = 2 * i
    <3>1. Holders = {} /\ Contents = {i}  BY <1>2, <2>2, <2>6 DEF F
    <3> QED  BY <1>4, <2>4, <3>1
  <2> QED  BY <2>3, <2>5, <2>6
<1> QED  BY <1>3, <1>4

(* What the invariant says of the buffers. *)
LEMMA PathCorrect == PathInv => OneOwnerPerBuffer /\ OfOneFrame
<1> SUFFICES ASSUME PathInv PROVE OneOwnerPerBuffer /\ OfOneFrame
  OBVIOUS
<1>1. HeapInv(heap, packet, slot, out)  BY DEF PathInv
<1>2. /\ DOMAIN Objects = 1 .. 3
      /\ Objects[1] = packet /\ Objects[2] = slot /\ Objects[3] = out
  BY DEF Objects
<1>3. OneOwnerPerBuffer
  <2> DEFINE Holders(a) == {i \in DOMAIN Objects : Objects[i].pbySrcContent = a}
             Contents(a) == {i \in DOMAIN Objects : Objects[i].pbyAnalContent = a}
             F == Layout(packet, slot, out)
  <2> SUFFICES ASSUME NEW a \in Address
               PROVE  Cardinality(Holders(a)) + Cardinality(Contents(a))
                        = IF heap[a] = Free THEN 0 ELSE 1
    BY DEF OneOwnerPerBuffer
  <2>1. /\ F[2 * 1 - 1] = packet.pbySrcContent /\ F[2 * 1] = packet.pbyAnalContent
        /\ F[2 * 2 - 1] = slot.pbySrcContent /\ F[2 * 2] = slot.pbyAnalContent
        /\ F[2 * 3 - 1] = out.pbySrcContent /\ F[2 * 3] = out.pbyAnalContent
    BY LayoutFields
  <2>2. \A i \in 1 .. 3 : /\ Objects[i].pbySrcContent = F[2 * i - 1]
                          /\ Objects[i].pbyAnalContent = F[2 * i]
    <3> HIDE DEF F
    <3> QED  BY <1>2, <2>1
  <2>3. /\ Holders(a) = {i \in 1 .. 3 : F[2 * i - 1] = a}
        /\ Contents(a) = {i \in 1 .. 3 : F[2 * i] = a}
    BY <1>2, <2>2
  <2> HIDE DEF Holders, Contents
  <2> QED  BY <1>1, <2>3, OneOwner
<1>4. OfOneFrame
  <2>1. ASSUME NEW o \in AnalContents, Whole(heap, o), o.rest # NULL,
               NEW n \in Fields, o.pbyAnalContent = Layout(packet, slot, out)[n]
        PROVE  /\ o.timeAndId = o.rest
               /\ heap[o.pbySrcContent] = Bytes(o.rest, 0, o.dwSrcContLen)
               /\ o.dwSrcContLen = Length(o.rest)
               /\ IF ContentOf(o) = Free THEN o.dwAnalContentLen = 0
                  ELSE /\ ContentOf(o).frame = o.rest
                       /\ ContentOf(o).len = o.dwAnalContentLen
    <3>1. Filled(heap, o)  BY <2>1 DEF Whole, Empty
    <3>2. o.pbyAnalContent # NULL => heap[o.pbyAnalContent] # Free
      BY <1>1, <2>1 DEF HeapInv, Owned, AnalContents, Pointers
    <3> QED  BY <3>1, <3>2 DEF Filled, ContentOf
  <2>2. /\ packet \in AnalContents /\ slot \in AnalContents /\ out \in AnalContents
        /\ Whole(heap, packet) /\ Whole(heap, slot) /\ Whole(heap, out)
    BY <1>1 DEF HeapInv
  <2>3. 2 \in Fields /\ 4 \in Fields /\ 6 \in Fields  BY DEF Fields
  <2> SUFFICES ASSUME NEW i \in 1 .. 3, NEW o, o = Objects[i], o.rest # NULL
               PROVE  /\ o.timeAndId = o.rest
                      /\ heap[o.pbySrcContent] = Bytes(o.rest, 0, o.dwSrcContLen)
                      /\ o.dwSrcContLen = Length(o.rest)
                      /\ IF ContentOf(o) = Free THEN o.dwAnalContentLen = 0
                         ELSE /\ ContentOf(o).frame = o.rest
                              /\ ContentOf(o).len = o.dwAnalContentLen
    BY <1>2 DEF OfOneFrame
  <2>4. CASE i = 1  BY <1>2, <2>1, <2>2, <2>3, <2>4, LayoutFields
  <2>5. CASE i = 2  BY <1>2, <2>1, <2>2, <2>3, <2>5, LayoutFields
  <2>6. CASE i = 3  BY <1>2, <2>1, <2>2, <2>3, <2>6, LayoutFields
  <2> QED  BY <2>4, <2>5, <2>6
<1> QED  BY <1>3, <1>4

(* The invariant holds on every path of packets. *)
LEMMA PathInvariant == PathSpec => []PathInv
<1> QED  BY PathInitInv, PathStep, PTL DEF PathSpec

(* The content the analysis copies is inside the packet, and a length wraps for
   no packet that has its headers. *)
THEOREM AnalysisInside == PathSpec => []ContentInside
<1>1. PathInv => ContentInside  BY AnalCorrect DEF PathInv
<1> QED  BY <1>1, PathInvariant, PTL

(* No user data is cut off, whatever options and padding there are, but for as
   many bytes of a later fragment as the header it has not would be long. *)
THEOREM AnalysisKeepsUserData == PathSpec => []UserDataKept
<1>1. PathInv => UserDataKept  BY AnalCorrect DEF PathInv
<1> QED  BY <1>1, PathInvariant, PTL

(* Without options and padding the content is the user data. *)
THEOREM AnalysisExact == PathSpec => []PlainContentExact
<1>1. PathInv => PlainContentExact  BY AnalCorrect DEF PathInv
<1> QED  BY <1>1, PathInvariant, PTL

(* The worker forwards every TCP and UDP packet with user data, a later fragment
   if it has more than a header would be long. *)
THEOREM FilterForwardsUserData == PathSpec => []UserDataForwarded
<1>1. PathInv => UserDataForwarded  BY AnalCorrect DEF PathInv
<1> QED  BY <1>1, PathInvariant, PTL

(* No buffer of an AnalContent is leaked, shared or used after it is freed by
   the copies and deletions on the way of a packet. *)
THEOREM BuffersOwned == PathSpec => []OneOwnerPerBuffer
<1>1. PathInv => OneOwnerPerBuffer  BY PathCorrect
<1> QED  BY <1>1, PathInvariant, PTL

(* No AnalContent ever mixes the buffers of two packets. *)
THEOREM PacketsUnmixed == PathSpec => []OfOneFrame
<1>1. PathInv => OfOneFrame  BY PathCorrect
<1> QED  BY <1>1, PathInvariant, PTL
=============================================================================
