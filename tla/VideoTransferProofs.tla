------------------------ MODULE VideoTransferProofs ------------------------
(***************************************************************************)
(* Proofs about VideoTransfer.  VideoInv, which holds for all constants,   *)
(* says who may touch the pool; PictureInv, for frames that end with a     *)
(* node of their own, says what is in it.                                  *)
(***************************************************************************)
EXTENDS VideoTransfer, SequenceTheorems, TLAPS

PieceSet == [frame : 0..(FrameMod - 1), n : 1..(MaxNodes + 1), eof : BOOLEAN]
BufSet == [frame_id : 0..(FrameMod - 1), status : {"START", "COPY", "DONE"},
           len : 0..PoolLen, used : BOOLEAN, request : BOOLEAN]

\* The shell's two calls: the pool is there, if it could be had, and the handlers do
\* their work in the phases that the order of their steps gives; nobody asks while the transfer closes.
ShellOK ==
    /\ mapped => shell \in {"opening", "running"}
    /\ camera <=> shell \in {"running", "closing"}
    /\ shell # "running" => ~vbuf.used
    /\ shell = "opening" => vbuf.status = "START"
    /\ shell = "closing" => user = "idle"
    /\ camera /\ node > 0 => vbuf.frame_id = frame_id

\* A request is turned into the use of the pool once, and the user is told once:
\* the event is pending or the user holds the picture exactly while it is kept.
HandOver ==
    /\ user = "idle" => ~vbuf.used /\ ~vbuf.request /\ ~event
    /\ vbuf.used => ~vbuf.request
    /\ event => user = "wait" /\ vbuf.used /\ vbuf.status = "DONE"
    /\ user = "hold" => vbuf.used /\ vbuf.status = "DONE" /\ ~event
    /\ vbuf.used /\ vbuf.status = "DONE" => event \/ user = "hold"

\* The inductive invariant, for all constants.
VideoInv == VideoTypeOK /\ pool \in Seq(PieceSet) /\ ShellOK /\ HandOver

\* The types, gathered.
LEMMA VideoFacts ==
    ASSUME VideoInv
    PROVE  /\ camera \in BOOLEAN /\ node \in 0..MaxNodes /\ frame_id \in 0..(FrameMod - 1)
           /\ vbuf \in BufSet /\ pool \in Seq(PieceSet)
           /\ mapped \in BOOLEAN /\ wild \in BOOLEAN /\ event \in BOOLEAN
           /\ user \in {"idle", "wait", "hold"}
           /\ shell \in {"stopped", "opening", "running", "closing"}
  BY DEF VideoInv, VideoTypeOK, BufSet

\* VideoInv from its parts.
LEMMA VideoParts ==
    ASSUME camera' \in BOOLEAN, node' \in 0..MaxNodes, frame_id' \in 0..(FrameMod - 1),
           vbuf' \in BufSet, pool' \in Seq(PieceSet),
           mapped' \in BOOLEAN, wild' \in BOOLEAN, event' \in BOOLEAN,
           user' \in {"idle", "wait", "hold"},
           shell' \in {"stopped", "opening", "running", "closing"},
           ShellOK', HandOver'
    PROVE  VideoInv'
<1>1. \A i \in DOMAIN pool' : pool'[i].n \in 1..(MaxNodes + 1)
  <2>1. \A i \in DOMAIN pool' : pool'[i] \in PieceSet
    OBVIOUS
  <2> QED BY <2>1 DEF PieceSet
<1>2. VideoTypeOK'
  BY <1>1 DEF VideoTypeOK, BufSet
<1> QED BY <1>2 DEF VideoInv

\* What Claim does to a buffer state.
LEMMA ClaimFields ==
    ASSUME VideoInv, NEW L \in 0..PoolLen, NEW s \in {"START", "COPY", "DONE"},
           vbuf' = Claim([Seen EXCEPT !.len = L, !.status = s])
    PROVE  /\ vbuf' \in BufSet /\ vbuf'.frame_id = frame_id /\ vbuf'.len = L /\ vbuf'.status = s
           /\ vbuf'.used <=> vbuf.used \/ vbuf.request
           /\ vbuf'.request <=> vbuf.request /\ vbuf.used
<1> DEFINE b == [Seen EXCEPT !.len = L, !.status = s]
<1>1. vbuf \in BufSet /\ frame_id \in 0..(FrameMod - 1)
  BY VideoFacts
<1>2. /\ b \in BufSet /\ b.frame_id = frame_id /\ b.len = L /\ b.status = s
      /\ b.used = vbuf.used /\ b.request = vbuf.request
  BY <1>1 DEF BufSet, Seen
<1>3. vbuf' = [b EXCEPT !.used = b.used \/ b.request, !.request = b.request /\ b.used]
  BY DEF Claim
<1> HIDE DEF b
<1>4. /\ vbuf' \in BufSet /\ vbuf'.frame_id = b.frame_id /\ vbuf'.len = b.len
      /\ vbuf'.status = b.status /\ vbuf'.used = (b.used \/ b.request)
      /\ vbuf'.request = (b.request /\ b.used)
  BY <1>2, <1>3 DEF BufSet
<1> QED BY <1>1, <1>2, <1>4 DEF BufSet

\* tvideo_rx_handler keeps the types, takes over the frame number, and hands the
\* pool over once.
LEMMA RxHandlerFacts ==
    ASSUME VideoInv, NEW piece \in PieceSet, NEW newlen \in Nat, NEW eof \in BOOLEAN,
           RxHandler(piece, newlen, eof)
    PROVE  /\ vbuf' \in BufSet /\ vbuf'.frame_id = frame_id /\ pool' \in Seq(PieceSet)
           /\ wild' \in BOOLEAN /\ event' \in BOOLEAN /\ mapped' = mapped
           /\ wild' # wild => ~mapped
           /\ vbuf'.used => vbuf.used \/ vbuf.request
           /\ UNCHANGED user => HandOver'
           /\ event \/ user = "hold" => pool' = pool
<1>0. vbuf \in BufSet /\ frame_id \in 0..(FrameMod - 1) /\ pool \in Seq(PieceSet)
      /\ wild \in BOOLEAN /\ event \in BOOLEAN /\ mapped \in BOOLEAN /\ PoolLen \in Nat
      /\ user \in {"idle", "wait", "hold"} /\ HandOver
  BY VideoFacts, VideoAssumption DEF VideoInv
<1>1. vbuf.len \in 0..PoolLen /\ vbuf.used \in BOOLEAN /\ vbuf.request \in BOOLEAN
  BY <1>0 DEF BufSet
<1>2. \A L \in 0..PoolLen : LenAfter(L, newlen) \in 0..PoolLen
  BY <1>0 DEF LenAfter, RoomFor
<1>3. ASSUME NEW held \in Seq(PieceSet), NEW L, Store(held, L, piece, newlen)
      PROVE  pool' \in Seq(PieceSet) /\ wild' \in BOOLEAN /\ (wild' # wild => ~mapped)
  <2>1. CASE RoomFor(L, newlen)
    <3>1. pool' = Append(held, piece) /\ wild' = (wild \/ ~mapped)
      BY <1>3, <2>1 DEF Store
    <3>2. pool' \in Seq(PieceSet)
      BY <3>1
    <3>3. wild' \in BOOLEAN /\ (wild' # wild => ~mapped)
      BY <1>0, <3>1, Zenon
    <3> QED BY <3>2, <3>3
  <2>2. CASE ~RoomFor(L, newlen)
    BY <1>0, <1>3, <2>2 DEF Store
  <2> QED BY <2>1, <2>2
<1>4. mapped' = mapped
  BY DEF RxHandler
<1>5. CASE RxFirst(piece, newlen)
  <2> DEFINE s == IF vbuf.used /\ ~RoomFor(0, newlen) THEN "START" ELSE "COPY"
  <2>1. /\ vbuf.status = "START" /\ Store(<<>>, 0, piece, newlen) /\ UNCHANGED event
        /\ vbuf' = Claim([Seen EXCEPT !.len = LenAfter(0, newlen), !.status = s])
    BY <1>5 DEF RxFirst
  <2>2. LenAfter(0, newlen) \in 0..PoolLen /\ s \in {"START", "COPY"} /\ <<>> \in Seq(PieceSet)
    BY <1>0, <1>2
  <2> HIDE DEF s
  <2>3. /\ vbuf' \in BufSet /\ vbuf'.frame_id = frame_id /\ vbuf'.status = s
        /\ vbuf'.used <=> vbuf.used \/ vbuf.request
        /\ vbuf'.request <=> vbuf.request /\ vbuf.used
    BY <2>1, <2>2, ClaimFields
  <2>4. pool' \in Seq(PieceSet) /\ wild' \in BOOLEAN /\ (wild' # wild => ~mapped)
    BY <1>3, <2>1, <2>2
  <2>5. ~event /\ user # "hold"
    BY <1>0, <2>1 DEF HandOver
  <2>6. UNCHANGED user => HandOver'
    BY <1>0, <2>1, <2>2, <2>3, <2>5 DEF HandOver
  <2> QED BY <1>0, <1>4, <2>1, <2>3, <2>4, <2>5, <2>6
<1>6. CASE RxMissed
  <2>1. /\ vbuf.status = "START" /\ vbuf' = [Seen EXCEPT !.len = 0] /\ pool' = <<>>
        /\ UNCHANGED <<wild, event>>
    BY <1>6 DEF RxMissed
  <2>2. /\ vbuf' \in BufSet /\ vbuf'.frame_id = frame_id /\ vbuf'.status = "START"
        /\ vbuf'.used = vbuf.used /\ vbuf'.request = vbuf.request
    <3> DEFINE b == Seen
    <3>1. /\ b \in BufSet /\ b.frame_id = frame_id /\ b.status = "START"
          /\ b.used = vbuf.used /\ b.request = vbuf.request /\ vbuf' = [b EXCEPT !.len = 0]
      BY <1>0, <2>1 DEF BufSet, Seen
    <3>2. 0 \in 0..PoolLen
      BY <1>0
    <3> HIDE DEF b
    <3> QED BY <3>1, <3>2 DEF BufSet
  <2>3. ~event /\ user # "hold"
    BY <1>0, <2>1 DEF HandOver
  <2>4. UNCHANGED user => HandOver'
    BY <1>0, <2>1, <2>2, <2>3 DEF HandOver
  <2> QED BY <1>0, <1>4, <2>1, <2>2, <2>3, <2>4
<1>7. CASE RxNext(piece, newlen, eof)
  <2> DEFINE s == StatusAfter(eof)
  <2>1. /\ vbuf.status = "COPY" /\ Store(pool, vbuf.len, piece, newlen)
        /\ vbuf' = Claim([Seen EXCEPT !.len = LenAfter(vbuf.len, newlen), !.status = s])
        /\ event' = (event \/ (eof /\ vbuf.used))
    BY <1>7 DEF RxNext, SendsPicture
  <2>2. /\ LenAfter(vbuf.len, newlen) \in 0..PoolLen /\ s \in {"START", "COPY", "DONE"}
        /\ s = "DONE" <=> eof /\ vbuf.used
    BY <1>1, <1>2 DEF StatusAfter
  <2> HIDE DEF s
  <2>3. /\ vbuf' \in BufSet /\ vbuf'.frame_id = frame_id /\ vbuf'.status = s
        /\ vbuf'.used <=> vbuf.used \/ vbuf.request
        /\ vbuf'.request <=> vbuf.request /\ vbuf.used
    BY <2>1, <2>2, ClaimFields
  <2>4. pool' \in Seq(PieceSet) /\ wild' \in BOOLEAN /\ (wild' # wild => ~mapped)
    BY <1>0, <1>3, <2>1
  <2>5. ~event /\ user # "hold" /\ event' \in BOOLEAN
    BY <1>0, <2>1 DEF HandOver
  <2>6. UNCHANGED user => HandOver'
    BY <1>0, <2>1, <2>2, <2>3, <2>5 DEF HandOver
  <2> QED BY <1>0, <1>4, <2>1, <2>3, <2>4, <2>5, <2>6
<1>8. CASE RxDone
  <2> DEFINE s == IF vbuf.used THEN "DONE" ELSE "START"
  <2>1. /\ vbuf.status = "DONE" /\ vbuf' = [Seen EXCEPT !.status = s]
        /\ UNCHANGED <<pool, wild, event>>
    BY <1>8 DEF RxDone, DoneStatus
  <2>2. /\ vbuf' \in BufSet /\ vbuf'.frame_id = frame_id /\ vbuf'.status = s
        /\ vbuf'.used = vbuf.used /\ vbuf'.request = vbuf.request
    BY <1>0, <2>1 DEF BufSet, Seen
  <2>3. UNCHANGED user => HandOver'
    BY <1>0, <2>1, <2>2 DEF HandOver
  <2> QED BY <1>0, <1>4, <2>1, <2>2, <2>3
<1> QED BY <1>5, <1>6, <1>7, <1>8 DEF RxHandler

\* The two interrupt handlers of the camera.
LEMMA CameraInv ==
    ASSUME VideoInv, Camera
    PROVE  /\ VideoInv'
           /\ event \/ user = "hold" => pool' = pool /\ mapped' = mapped
           /\ wild' # wild => shell = "closing" \/ (shell' \in {"opening", "running"} /\ ~mapped')
<1>0. /\ node \in 0..MaxNodes /\ frame_id \in 0..(FrameMod - 1) /\ ShellOK /\ HandOver
      /\ MaxNodes \in Nat /\ NodeLen \in Nat /\ FrameMod \in Nat \ {0, 1}
      /\ Tails \subseteq 0..(NodeLen - 1)
  BY VideoFacts, VideoAssumption DEF VideoInv
<1>1. camera /\ UNCHANGED <<camera, user, shell>>
  BY DEF Camera, DmaNode, EndFrame
<1>2. ASSUME NEW eof \in BOOLEAN, NEW newlen \in Nat,
             RxHandler(Piece(frame_id, node + 1, eof), newlen, eof),
             node' \in 0..MaxNodes, frame_id' \in 0..(FrameMod - 1),
             node' = 0 \/ frame_id' = frame_id
      PROVE  /\ VideoInv'
             /\ event \/ user = "hold" => pool' = pool /\ mapped' = mapped
             /\ wild' # wild => shell = "closing" \/ (shell' \in {"opening", "running"} /\ ~mapped')
  <2>1. Piece(frame_id, node + 1, eof) \in PieceSet
    BY <1>0 DEF Piece, PieceSet
  <2>2. /\ vbuf' \in BufSet /\ vbuf'.frame_id = frame_id /\ pool' \in Seq(PieceSet)
        /\ wild' \in BOOLEAN /\ event' \in BOOLEAN /\ mapped' = mapped
        /\ wild' # wild => ~mapped
        /\ vbuf'.used => vbuf.used \/ vbuf.request
        /\ HandOver' /\ (event \/ user = "hold" => pool' = pool)
    BY <1>1, <1>2, <2>1, RxHandlerFacts
  <2>3. ShellOK'
    <3>1. shell # "running" => ~vbuf.used /\ ~vbuf.request
      BY <1>0, <1>1 DEF ShellOK, HandOver
    <3>2. shell # "opening"
      BY <1>0, <1>1 DEF ShellOK
    <3> QED BY <1>0, <1>1, <1>2, <2>2, <3>1, <3>2 DEF ShellOK
  <2>4. wild' # wild => shell = "closing" \/ (shell' \in {"opening", "running"} /\ ~mapped')
    BY <1>0, <1>1, <2>2 DEF ShellOK
  <2> QED BY <1>1, <1>2, <2>2, <2>3, <2>4, VideoFacts, VideoParts
<1>3. CASE DmaNode
  <2>1. /\ node < MaxNodes /\ RxHandler(Piece(frame_id, node + 1, FALSE), NodeLen, FALSE)
        /\ node' = node + 1 /\ frame_id' = frame_id
    BY <1>3 DEF DmaNode
  <2>2. node' \in 0..MaxNodes /\ frame_id' \in 0..(FrameMod - 1)
    BY <1>0, <2>1
  <2> QED BY <1>0, <1>2, <2>1, <2>2
<1>4. ASSUME NEW rec_len \in Tails, EndFrame(rec_len)
      PROVE  /\ VideoInv'
             /\ event \/ user = "hold" => pool' = pool /\ mapped' = mapped
             /\ wild' # wild => shell = "closing" \/ (shell' \in {"opening", "running"} /\ ~mapped')
  <2>0. rec_len \in Nat
    BY <1>0
  <2>1. /\ frame_id' = (frame_id + 1) % FrameMod /\ node' = 0
        /\ IF rec_len > 0 THEN RxHandler(Piece(frame_id, node + 1, TRUE), rec_len, TRUE)
           ELSE UNCHANGED <<mem, event>>
    BY <1>4 DEF EndFrame
  <2>2. node' \in 0..MaxNodes /\ frame_id' \in 0..(FrameMod - 1)
    BY <1>0, <2>1
  <2>3. CASE rec_len > 0
    BY <1>2, <2>0, <2>1, <2>2, <2>3
  <2>4. CASE ~(rec_len > 0)
    <3>1. UNCHANGED <<vbuf, pool, mapped, wild, event>>
      BY <2>1, <2>4 DEF mem
    <3>2. ShellOK' /\ HandOver'
      BY <1>0, <1>1, <2>1, <3>1 DEF ShellOK, HandOver
    <3> QED BY <1>1, <2>2, <3>1, <3>2, VideoFacts, VideoParts
  <2> QED BY <2>3, <2>4
<1> QED BY <1>3, <1>4 DEF Camera

\* tvideo_capture and the user's wait.
LEMMA UserInv ==
    ASSUME VideoInv, User
    PROVE  VideoInv' /\ UNCHANGED <<pool, mapped, wild>>
<1>0. vbuf \in BufSet /\ ShellOK /\ HandOver /\ user \in {"idle", "wait", "hold"} /\ event \in BOOLEAN
  BY VideoFacts DEF VideoInv
<1>1. UNCHANGED <<camera, node, frame_id, pool, mapped, wild, shell>>
  BY DEF User, Capture, Receive, GiveBack, cam, mem
<1>2. CASE Capture
  <2>1. /\ user = "idle" /\ shell # "closing" /\ vbuf' = [vbuf EXCEPT !.request = TRUE]
        /\ user' = "wait" /\ UNCHANGED event
    BY <1>2 DEF Capture
  <2>2. /\ vbuf' \in BufSet /\ vbuf'.frame_id = vbuf.frame_id /\ vbuf'.status = vbuf.status
        /\ vbuf'.used = vbuf.used /\ vbuf'.request
    BY <1>0, <2>1 DEF BufSet
  <2>3. ShellOK' /\ HandOver'
    BY <1>0, <1>1, <2>1, <2>2 DEF ShellOK, HandOver
  <2> QED BY <1>1, <2>1, <2>2, <2>3, VideoFacts, VideoParts
<1>3. CASE Receive
  <2>1. user = "wait" /\ event /\ user' = "hold" /\ event' = FALSE /\ UNCHANGED vbuf
    BY <1>3 DEF Receive, mem
  <2>2. ShellOK' /\ HandOver'
    BY <1>0, <1>1, <2>1 DEF ShellOK, HandOver
  <2> QED BY <1>1, <2>1, <2>2, VideoFacts, VideoParts
<1>4. CASE GiveBack
  <2>1. user = "hold" /\ vbuf' = [vbuf EXCEPT !.used = FALSE] /\ user' = "idle" /\ UNCHANGED event
    BY <1>4 DEF GiveBack
  <2>2. /\ vbuf' \in BufSet /\ vbuf'.frame_id = vbuf.frame_id /\ vbuf'.status = vbuf.status
        /\ ~vbuf'.used /\ vbuf'.request = vbuf.request
    BY <1>0, <2>1 DEF BufSet
  <2>3. ShellOK' /\ HandOver'
    BY <1>0, <1>1, <2>1, <2>2 DEF ShellOK, HandOver
  <2> QED BY <1>1, <2>1, <2>2, <2>3, VideoFacts, VideoParts
<1> QED BY <1>1, <1>2, <1>3, <1>4 DEF User

\* video_transfer_init and video_transfer_deinit.
LEMMA ShellInv ==
    ASSUME VideoInv, Shell
    PROVE  /\ VideoInv' /\ (event \/ user = "hold" => UNCHANGED <<pool, mapped>>)
           /\ wild' # wild => shell = "closing" \/ (shell' \in {"opening", "running"} /\ ~mapped')
<1>0. /\ vbuf \in BufSet /\ ShellOK /\ HandOver /\ UNCHANGED <<event, user>> /\ wild \in BOOLEAN
      /\ PoolLen \in Nat /\ FrameMod \in Nat \ {0, 1} /\ MaxNodes \in Nat
      /\ <<>> \in Seq(PieceSet)
  BY VideoFacts, VideoAssumption DEF VideoInv, Shell, InitPool, OpenCamera, FreePool, CloseCamera, mem
<1>1. CASE InitPool
  <2>1. /\ shell = "stopped" /\ pool' = <<>> /\ vbuf' = BufReset /\ frame_id' = 0
        /\ shell' = "opening" /\ UNCHANGED <<camera, node>>
        /\ \E ok \in BOOLEAN : mapped' = ok /\ wild' = (wild \/ ~ok)
    BY <1>1 DEF InitPool
  <2>2. /\ vbuf' \in BufSet /\ vbuf'.status = "START" /\ ~vbuf'.used /\ ~vbuf'.request
        /\ 0 \in 0..(FrameMod - 1)
    BY <1>0, <2>1 DEF BufSet, BufReset
  <2>3. ~event /\ user # "hold"
    BY <1>0, <2>1 DEF ShellOK, HandOver
  <2>4. ShellOK' /\ HandOver'
    BY <1>0, <2>1, <2>2, <2>3 DEF ShellOK, HandOver
  <2> QED BY <1>0, <2>1, <2>2, <2>3, <2>4, VideoFacts, VideoParts
<1>2. CASE OpenCamera
  <2>1. /\ shell = "opening" /\ camera' = TRUE /\ node' = 0 /\ shell' = "running"
        /\ UNCHANGED <<frame_id, vbuf, pool, mapped, wild>>
    BY <1>2 DEF OpenCamera, mem
  <2>2. ShellOK' /\ HandOver' /\ 0 \in 0..MaxNodes
    BY <1>0, <2>1 DEF ShellOK, HandOver
  <2> QED BY <1>0, <2>1, <2>2, VideoFacts, VideoParts
<1>3. CASE FreePool
  <2>1. /\ shell = "running" /\ user = "idle" /\ mapped' = FALSE /\ pool' = <<>>
        /\ shell' = "closing" /\ UNCHANGED <<camera, node, frame_id, vbuf, wild>>
    BY <1>3 DEF FreePool, cam
  <2>2. ShellOK' /\ HandOver' /\ ~event
    BY <1>0, <2>1 DEF ShellOK, HandOver
  <2> QED BY <1>0, <2>1, <2>2, VideoFacts, VideoParts
<1>4. CASE CloseCamera
  <2>1. /\ shell = "closing" /\ camera' = FALSE /\ shell' = "stopped"
        /\ UNCHANGED <<node, frame_id, vbuf, pool, mapped, wild>>
    BY <1>4 DEF CloseCamera, HandleInvalid, mem
  <2>2. ShellOK' /\ HandOver'
    BY <1>0, <2>1 DEF ShellOK, HandOver
  <2> QED BY <1>0, <2>1, <2>2, VideoFacts, VideoParts
<1> QED BY <1>1, <1>2, <1>3, <1>4 DEF Shell

\* Every step keeps the invariant.
LEMMA VideoNextInv ==
    ASSUME VideoInv, [VideoNext]_vars
    PROVE  VideoInv'
<1>1. CASE UNCHANGED vars
  BY <1>1 DEF vars, cam, mem, VideoInv, VideoTypeOK, ShellOK, HandOver
<1> QED BY <1>1, CameraInv, UserInv, ShellInv DEF VideoNext

\* The initial state: the transfer is stopped and nobody has asked.
LEMMA VideoInitInv == VideoInit => VideoInv
<1> SUFFICES ASSUME VideoInit PROVE VideoInv
  OBVIOUS
<1>1. /\ 0 \in 0..MaxNodes /\ 0 \in 0..(FrameMod - 1) /\ 0 \in 0..PoolLen /\ <<>> \in Seq(PieceSet)
      /\ DOMAIN <<>> = {}
  BY VideoAssumption
<1>2. VideoTypeOK
  BY <1>1 DEF VideoInit, VideoTypeOK, BufReset
<1>3. ShellOK /\ HandOver
  BY DEF VideoInit, ShellOK, HandOver, BufReset
<1> QED BY <1>1, <1>2, <1>3 DEF VideoInv, VideoInit

\* The inductive invariant holds in every reachable state.
THEOREM VideoInvariant == VideoSpec => []VideoInv
<1>1. VideoInit => VideoInv
  BY VideoInitInv
<1>2. VideoInv /\ [VideoNext]_vars => VideoInv'
  BY VideoNextInv
<1> QED BY <1>1, <1>2, PTL DEF VideoSpec

\* buf_len never passes the end of the pool and the frame number stays in range,
\* whatever the frames, the user and the shell do.
THEOREM VideoTypeCorrect == VideoSpec => []VideoTypeOK
<1>1. VideoInv => VideoTypeOK
  BY DEF VideoInv
<1> QED BY <1>1, VideoInvariant, PTL

\* From the callback to tvideo_capture(0) no interrupt and no call of the shell
\* touches the pool.
THEOREM PoolStable == VideoSpec => PictureStable
<1>1. VideoInv /\ [VideoNext]_vars => [event \/ user = "hold" => UNCHANGED <<pool, mapped>>]_vars
  <2> SUFFICES ASSUME VideoInv, VideoNext, event \/ user = "hold" PROVE UNCHANGED <<pool, mapped>>
    OBVIOUS
  <2> QED BY CameraInv, UserInv, ShellInv DEF VideoNext
<1> QED BY <1>1, VideoInvariant, PTL DEF VideoSpec, PictureStable

\* A pool that is freed or NULL is written to only between the two halves of
\* video_transfer_deinit and by a transfer whose own rt_malloc has failed.
THEOREM WildWindow == VideoSpec => WildOnlyKnown
<1>1. VideoInv /\ [VideoNext]_vars =>
        [wild' # wild => shell = "closing" \/ (shell' \in {"opening", "running"} /\ ~mapped')]_vars
  <2> SUFFICES ASSUME VideoInv, VideoNext, wild' # wild
               PROVE  shell = "closing" \/ (shell' \in {"opening", "running"} /\ ~mapped')
    OBVIOUS
  <2> QED BY CameraInv, UserInv, ShellInv DEF VideoNext
<1> QED BY <1>1, VideoInvariant, PTL DEF VideoSpec, WildOnlyKnown
-----------------------------------------------------------------------------
(* What is in the pool.                                                     *)

\* Every frame has a full node and ends with a shorter one of its own, and the
\* pool has room for the first.  Otherwise the end of a frame goes unnoticed.
OwnEnd == MinNodes >= 1 /\ 0 \notin Tails /\ NodeLen < PoolLen

\* While a frame is gathered, the pool holds its first full nodes in order; one is
\* missing only when it had no room.
Gathered ==
    shell = "running" /\ vbuf.status = "COPY" =>
        /\ Len(pool) \in 1..node /\ vbuf.len = Len(pool) * NodeLen
        /\ \A i \in 1..Len(pool) : pool[i] = Piece(frame_id, i, FALSE)
        /\ Len(pool) = node \/ (Len(pool) + 1) * NodeLen >= PoolLen

WholePicture(s) ==
    /\ s # <<>>
    /\ \A i \in DOMAIN s : s[i].frame = s[1].frame
    /\ \A i \in 1..FullNodes(s) : s[i].n = i
    /\ Complete(s) \/ (FullNodes(s) + 1) * NodeLen >= PoolLen

\* The picture that is kept for the user is one frame.
Kept == shell = "running" /\ vbuf.status = "DONE" /\ vbuf.used => WholePicture(pool)

PictureInv == VideoInv /\ Gathered /\ Kept

\* The first full nodes of a frame without its end: a picture if the next node
\* has no room.
LEMMA CutPicture ==
    ASSUME NEW s \in Seq(PieceSet), Len(s) >= 1, NEW f,
           \A i \in 1..Len(s) : s[i] = Piece(f, i, FALSE),
           (Len(s) + 1) * NodeLen >= PoolLen
    PROVE  WholePicture(s)
<1>1. Len(s) \in Nat /\ DOMAIN s = 1..Len(s) /\ s # <<>>
  OBVIOUS
<1>2. \A i \in 1..Len(s) : s[i].frame = f /\ s[i].n = i /\ s[i].eof = FALSE
  <2> TAKE i \in 1..Len(s)
  <2>1. s[i] = Piece(f, i, FALSE)
    OBVIOUS
  <2> QED BY ONLY <2>1 DEF Piece
<1>3. Last(s).eof = FALSE
  BY <1>1, <1>2 DEF Last
<1>4. FullNodes(s) = Len(s)
  BY <1>3 DEF FullNodes
<1> QED BY <1>1, <1>2, <1>4 DEF WholePicture

\* The first full nodes of a frame and its end: a picture if no node is missing or
\* the next one has no room.
LEMMA EndPicture ==
    ASSUME NEW s \in Seq(PieceSet), Len(s) >= 1, NEW f, NEW k \in Nat,
           \A i \in 1..Len(s) : s[i] = Piece(f, i, FALSE),
           Len(s) = k \/ (Len(s) + 1) * NodeLen >= PoolLen,
           Piece(f, k + 1, TRUE) \in PieceSet
    PROVE  WholePicture(Append(s, Piece(f, k + 1, TRUE)))
<1> DEFINE e == Piece(f, k + 1, TRUE)
           r == Append(s, e)
<1>1. e.frame = f /\ e.n = k + 1 /\ e.eof = TRUE
  BY ONLY TRUE DEF Piece, e
<1>2. e \in PieceSet /\ Len(s) \in Nat
  <2>1. Piece(f, k + 1, TRUE) \in PieceSet
    OBVIOUS
  <2>2. Len(s) \in Nat
    OBVIOUS
  <2> QED BY <2>1, <2>2 DEF e
<1> HIDE DEF e
<1>3. /\ r \in Seq(PieceSet) /\ r # <<>> /\ Len(r) = Len(s) + 1 /\ DOMAIN r = 1..(Len(s) + 1)
      /\ \A i \in 1..Len(s) : r[i] = s[i]
      /\ r[Len(s) + 1] = e
  BY <1>2, AppendProperties
<1> HIDE DEF r
<1>4. \A i \in 1..Len(s) : r[i].frame = f /\ r[i].n = i
  <2> TAKE i \in 1..Len(s)
  <2>1. r[i] = Piece(f, i, FALSE)
    BY <1>3
  <2> QED BY ONLY <2>1 DEF Piece
<1>5. Last(r) = e
  BY <1>2, <1>3 DEF Last
<1>6. FullNodes(r) = Len(s)
  BY <1>1, <1>2, <1>3, <1>5 DEF FullNodes
<1>7. \A i \in 1..(Len(s) + 1) : r[i].frame = f
  BY <1>1, <1>2, <1>3, <1>4
<1>8. Complete(r) <=> k + 1 = Len(s) + 1
  BY <1>1, <1>3, <1>5 DEF Complete
<1>9. WholePicture(r)
  <2>1. 1 \in 1..(Len(s) + 1)
    BY <1>2
  <2>2. Complete(r) \/ (FullNodes(r) + 1) * NodeLen >= PoolLen
    BY <1>2, <1>6, <1>8
  <2> QED BY <1>3, <1>4, <1>6, <1>7, <2>1, <2>2 DEF WholePicture
<1> QED BY <1>9 DEF r, e

\* A node of a running transfer.
LEMMA RxPicture ==
    ASSUME OwnEnd, PictureInv, shell = "running", camera,
           NEW eof \in BOOLEAN, NEW newlen \in 1..NodeLen,
           newlen = NodeLen \/ eof, eof => node >= 1 /\ newlen < NodeLen, node + 1 \in 1..(MaxNodes + 1),
           RxHandler(Piece(frame_id, node + 1, eof), newlen, eof)
    PROVE  /\ vbuf'.status = "COPY" => ~eof /\ (node' = node + 1 /\ frame_id' = frame_id /\ UNCHANGED shell
                                                 => Gathered')
           /\ vbuf'.status = "DONE" /\ vbuf'.used => WholePicture(pool')
<1> DEFINE piece == Piece(frame_id, node + 1, eof)
<1>0. /\ VideoInv /\ Gathered /\ Kept /\ ShellOK
      /\ vbuf \in BufSet /\ frame_id \in 0..(FrameMod - 1) /\ pool \in Seq(PieceSet) /\ node \in Nat
      /\ NodeLen \in Nat \ {0} /\ PoolLen \in Nat /\ NodeLen < PoolLen /\ newlen \in Nat
  BY VideoFacts, VideoAssumption DEF PictureInv, VideoInv, OwnEnd
<1>1. vbuf.len \in 0..PoolLen /\ vbuf.used \in BOOLEAN /\ vbuf.request \in BOOLEAN
  BY <1>0 DEF BufSet
<1>2. piece \in PieceSet
  BY <1>0 DEF Piece, PieceSet
<1>3. \A L \in 0..PoolLen : LenAfter(L, newlen) \in 0..PoolLen
  BY <1>0 DEF LenAfter, RoomFor
<1>4. CASE RxFirst(piece, newlen)
  <2>1. node = 0 /\ ~eof /\ newlen = NodeLen
    BY <1>0, <1>4 DEF RxFirst, IsSof, ShellOK
  <2>2. RoomFor(0, newlen) /\ LenAfter(0, newlen) = NodeLen
    BY <1>0, <2>1 DEF RoomFor, LenAfter
  <2>3. /\ vbuf' = Claim([Seen EXCEPT !.len = LenAfter(0, newlen), !.status = "COPY"])
        /\ pool' = Append(<<>>, piece)
    BY <1>4, <2>2 DEF RxFirst, Store
  <2>4. vbuf'.status = "COPY" /\ vbuf'.len = NodeLen
    <3>1. LenAfter(0, newlen) \in 0..PoolLen
      BY <1>0, <1>3
    <3> QED BY <1>0, <2>2, <2>3, <3>1, ClaimFields
  <2>5. Len(pool') = 1 /\ pool'[1] = Piece(frame_id, 1, FALSE)
    <3>1. piece = Piece(frame_id, 1, FALSE)
      <4>1. node + 1 = 1 /\ eof = FALSE
        BY <1>0, <2>1
      <4> QED BY <4>1
    <3> HIDE DEF piece
    <3>2. Len(pool') = 1 /\ pool'[1] = piece
      BY <2>3
    <3> QED BY <3>1, <3>2
  <2>6. node' = node + 1 /\ frame_id' = frame_id => Gathered'
    <3> SUFFICES ASSUME node' = node + 1, frame_id' = frame_id PROVE Gathered'
      OBVIOUS
    <3>1. node' = 1 /\ 1 \in 1..1 /\ NodeLen = 1 * NodeLen
      BY <1>0, <2>1
    <3>2. \A i \in 1..1 : i = 1
      OBVIOUS
    <3> QED BY <2>4, <2>5, <3>1, <3>2 DEF Gathered
  <2> QED BY <2>1, <2>4, <2>6
<1>5. CASE RxMissed
  <2>1. vbuf'.status = "START"
    BY <1>0, <1>5 DEF RxMissed, Seen, BufSet
  <2> QED BY <2>1
<1>6. CASE RxNext(piece, newlen, eof)
  <2> DEFINE s == StatusAfter(eof)
             n == Len(pool)
  <2>1. /\ vbuf.status = "COPY" /\ Store(pool, vbuf.len, piece, newlen)
        /\ vbuf' = Claim([Seen EXCEPT !.len = LenAfter(vbuf.len, newlen), !.status = s])
    BY <1>6 DEF RxNext
  <2>2. LenAfter(vbuf.len, newlen) \in 0..PoolLen /\ s \in {"START", "COPY", "DONE"}
    BY <1>1, <1>3 DEF StatusAfter
  <2>3. vbuf'.status = s /\ vbuf'.len = LenAfter(vbuf.len, newlen)
    <3> HIDE DEF s
    <3> QED BY <1>0, <2>1, <2>2, ClaimFields
  <2>4. /\ n \in 1..node /\ vbuf.len = n * NodeLen
        /\ \A i \in 1..n : pool[i] = Piece(frame_id, i, FALSE)
        /\ n = node \/ (n + 1) * NodeLen >= PoolLen
    BY <1>0, <2>1 DEF Gathered
  <2>5. n \in Nat /\ n * NodeLen \in Nat /\ (n + 1) * NodeLen = n * NodeLen + NodeLen
    BY <1>0, <2>4
  <2>6. CASE ~eof
    <3>1. s = "COPY" /\ newlen = NodeLen
      BY <2>6 DEF StatusAfter
    <3>2. ASSUME node' = node + 1, frame_id' = frame_id, UNCHANGED shell PROVE Gathered'
      <4>1. CASE RoomFor(vbuf.len, newlen)
        <5>1. n = node /\ n + 1 = node + 1
          BY <1>0, <2>4, <2>5, <3>1, <4>1 DEF RoomFor
        <5>2. pool' = Append(pool, piece) /\ vbuf'.len = n * NodeLen + NodeLen
          BY <2>1, <2>3, <2>4, <3>1, <4>1 DEF Store, LenAfter
        <5>3. piece = Piece(frame_id, n + 1, FALSE)
          BY <2>6, <5>1
        <5> HIDE DEF piece
        <5>4. /\ Len(pool') = n + 1
              /\ \A i \in 1..n : pool'[i] = pool[i]
              /\ pool'[n + 1] = piece
          BY <1>0, <1>2, <5>2, AppendProperties
        <5> HIDE DEF n
        <5>5. \A i \in 1..(n + 1) : pool'[i] = Piece(frame_id, i, FALSE)
          <6> TAKE i \in 1..(n + 1)
          <6>1. i \in 1..n \/ i = n + 1
            BY <2>5
          <6> QED BY <2>4, <5>3, <5>4, <6>1
        <5>6. n + 1 \in 1..node' /\ vbuf'.len = (n + 1) * NodeLen /\ n + 1 = node'
          BY <2>5, <3>2, <5>1, <5>2
        <5> QED BY <3>2, <5>4, <5>5, <5>6 DEF Gathered
      <4>2. CASE ~RoomFor(vbuf.len, newlen)
        <5>1. pool' = pool /\ vbuf'.len = vbuf.len
          BY <2>1, <2>3, <4>2 DEF Store, LenAfter
        <5>2. (n + 1) * NodeLen >= PoolLen /\ n \in 1..(node + 1)
          BY <1>0, <2>4, <2>5, <3>1, <4>2 DEF RoomFor
        <5> QED BY <2>4, <3>2, <5>1, <5>2 DEF Gathered
      <4> QED BY <4>1, <4>2
    <3> QED BY <2>3, <2>6, <3>1, <3>2
  <2>7. CASE eof
    <3>1. s # "COPY" /\ piece = Piece(frame_id, node + 1, TRUE) /\ newlen < NodeLen
      BY <2>7 DEF StatusAfter
    <3>2. CASE RoomFor(vbuf.len, newlen)
      <4>1. pool' = Append(pool, Piece(frame_id, node + 1, TRUE))
        BY <2>1, <3>1, <3>2 DEF Store
      <4>2. WholePicture(Append(pool, Piece(frame_id, node + 1, TRUE)))
        <5>1. /\ pool \in Seq(PieceSet) /\ Len(pool) >= 1 /\ node \in Nat
              /\ Len(pool) = node \/ (Len(pool) + 1) * NodeLen >= PoolLen
          BY <1>0, <2>4
        <5>2. \A i \in 1..Len(pool) : pool[i] = Piece(frame_id, i, FALSE)
          BY <2>4
        <5>3. Piece(frame_id, node + 1, TRUE) \in PieceSet
          BY <1>2, <3>1
        <5> QED BY ONLY <5>1, <5>2, <5>3, EndPicture
      <4> QED BY <2>3, <3>1, <4>1, <4>2
    <3>3. CASE ~RoomFor(vbuf.len, newlen)
      <4>1. pool' = pool
        BY <2>1, <3>3 DEF Store
      <4>2. (n + 1) * NodeLen >= PoolLen
        BY <1>0, <2>4, <2>5, <3>1, <3>3 DEF RoomFor
      <4>3. WholePicture(pool)
        <5>1. pool \in Seq(PieceSet) /\ Len(pool) >= 1 /\ (Len(pool) + 1) * NodeLen >= PoolLen
          BY <1>0, <2>4, <4>2
        <5>2. \A i \in 1..Len(pool) : pool[i] = Piece(frame_id, i, FALSE)
          BY <2>4
        <5> QED BY ONLY <5>1, <5>2, CutPicture
      <4> QED BY <2>3, <3>1, <4>1, <4>3
    <3> QED BY <3>2, <3>3
  <2> QED BY <2>6, <2>7
<1>7. CASE RxDone
  <2>1. vbuf'.status # "COPY" /\ vbuf'.used = vbuf.used /\ pool' = pool /\ vbuf.status = "DONE"
    BY <1>0, <1>7 DEF RxDone, DoneStatus, Seen, BufSet
  <2> QED BY <1>0, <2>1 DEF Kept
<1> QED BY <1>4, <1>5, <1>6, <1>7 DEF RxHandler

\* Every step keeps what is known of the pool.
LEMMA PictureNextInv ==
    ASSUME OwnEnd, PictureInv, [VideoNext]_vars
    PROVE  PictureInv'
<1>0. /\ VideoInv /\ Gathered /\ Kept /\ ShellOK /\ HandOver /\ vbuf \in BufSet /\ VideoInv'
      /\ node \in 0..MaxNodes /\ MaxNodes \in Nat /\ MinNodes \in Nat /\ NodeLen \in Nat \ {0}
      /\ Tails \subseteq 0..(NodeLen - 1)
  BY VideoFacts, VideoAssumption, VideoNextInv DEF PictureInv, VideoInv
<1>1. CASE UNCHANGED vars
  BY <1>0, <1>1 DEF vars, cam, mem, PictureInv, Gathered, Kept
<1>2. CASE Camera /\ shell = "running"
  <2>1. CASE DmaNode
    <3>1. /\ camera /\ node < MaxNodes /\ RxHandler(Piece(frame_id, node + 1, FALSE), NodeLen, FALSE)
          /\ node' = node + 1 /\ frame_id' = frame_id /\ UNCHANGED shell
      BY <2>1 DEF DmaNode
    <3>2. NodeLen \in 1..NodeLen /\ node + 1 \in 1..(MaxNodes + 1)
      BY <1>0
    <3>3. /\ vbuf'.status = "COPY" => Gathered'
          /\ vbuf'.status = "DONE" /\ vbuf'.used => WholePicture(pool')
      BY <1>2, <3>1, <3>2, RxPicture
    <3>4. Gathered' /\ Kept'
      BY <3>3 DEF Gathered, Kept
    <3> QED BY <1>0, <3>4 DEF PictureInv
  <2>2. ASSUME NEW rec_len \in Tails, EndFrame(rec_len) PROVE PictureInv'
    <3>1. rec_len \in 1..NodeLen /\ rec_len < NodeLen /\ rec_len > 0
      BY <1>0 DEF OwnEnd
    <3>2. camera /\ node >= 1 /\ RxHandler(Piece(frame_id, node + 1, TRUE), rec_len, TRUE)
      <4>1. /\ camera /\ node >= MinNodes
            /\ rec_len > 0 => RxHandler(Piece(frame_id, node + 1, TRUE), rec_len, TRUE)
        BY <2>2 DEF EndFrame
      <4>2. node >= 1
        BY <1>0, <4>1 DEF OwnEnd
      <4> QED BY <3>1, <4>1, <4>2
    <3>3. node + 1 \in 1..(MaxNodes + 1)
      BY <1>0
    <3>4. /\ vbuf'.status # "COPY"
          /\ vbuf'.status = "DONE" /\ vbuf'.used => WholePicture(pool')
      BY <1>2, <3>1, <3>2, <3>3, RxPicture
    <3>5. Gathered' /\ Kept'
      BY <3>4 DEF Gathered, Kept
    <3> QED BY <1>0, <3>5 DEF PictureInv
  <2> QED BY <1>2, <2>1, <2>2 DEF Camera
<1>3. CASE Camera /\ shell # "running"
  <2>1. shell' # "running"
    BY <1>3 DEF Camera, DmaNode, EndFrame
  <2> QED BY <1>0, <2>1 DEF PictureInv, Gathered, Kept
<1>4. CASE User
  <2>1. /\ UNCHANGED <<node, frame_id, pool, shell>> /\ vbuf'.status = vbuf.status /\ vbuf'.len = vbuf.len
        /\ vbuf'.used => vbuf.used
    BY <1>0, <1>4 DEF User, Capture, Receive, GiveBack, cam, mem, BufSet
  <2>2. Gathered' /\ Kept'
    BY <1>0, <2>1 DEF Gathered, Kept
  <2> QED BY <1>0, <2>2 DEF PictureInv
<1>5. CASE Shell
  <2>1. shell' # "running" \/ vbuf'.status = "START"
    BY <1>0, <1>5 DEF Shell, InitPool, OpenCamera, FreePool, CloseCamera, mem, ShellOK
  <2> QED BY <1>0, <2>1 DEF PictureInv, Gathered, Kept
<1> QED BY <1>1, <1>2, <1>3, <1>4, <1>5 DEF VideoNext

\* The picture a user holds is one frame, whole or cut where the pool was full,
\* for every length of node, pool and frame, and for every interleaving of the
\* camera, the user and the shell.
THEOREM PictureIsWhole == ASSUME OwnEnd PROVE VideoSpec => []PictureWhole
<1>1. VideoInit => PictureInv
  BY VideoInitInv DEF VideoInit, PictureInv, Gathered, Kept
<1>2. PictureInv /\ [VideoNext]_vars => PictureInv'
  BY PictureNextInv
<1>3. PictureInv => PictureWhole
  <2> SUFFICES ASSUME PictureInv, user = "hold"
               PROVE  WholePicture(pool)
    BY DEF PictureWhole, WholePicture
  <2>1. vbuf.used /\ vbuf.status = "DONE" /\ shell = "running"
    BY VideoFacts DEF PictureInv, VideoInv, HandOver, ShellOK
  <2> QED BY <2>1 DEF PictureInv, Kept
<1> QED BY <1>1, <1>2, <1>3, PTL DEF VideoSpec
=============================================================================
