--------------------------- MODULE VideoTransfer ---------------------------
(***************************************************************************)
(* The picture buffer of beken378/func/video_transfer/video_transfer.c:    *)
(* the camera's interrupts cut every JPEG frame into nodes and hand them   *)
(* to tvideo_rx_handler, which gathers one frame in tvideo_pool for a      *)
(* thread that asked for it with tvideo_capture(1), is told by send_func   *)
(* and gives the pool back with tvideo_capture(0).                         *)
(*                                                                         *)
(* Three actors interleave: the camera (two interrupt handlers of          *)
(* camera_intf.c, which do not nest), the thread that uses the pictures    *)
(* (the loop of test/mjpeg.c and test/show_photo_test.c), and the shell,   *)
(* which starts and stops the transfer.                                    *)
(***************************************************************************)
EXTENDS Integers, Sequences, SequencesExt

CONSTANTS
    NodeLen,    \* tvideo_st.node_len: length of a full node
    PoolLen,    \* TVIDEO_POOL_LEN
    FrameMod,   \* modulus of tvideo_pool.frame_id (2^16)
    MinNodes,   \* fewest full nodes of a frame
    MaxNodes,   \* most full nodes of a frame (bound)
    Tails       \* what a frame may have left behind its full nodes

ASSUME VideoAssumption ==
    /\ NodeLen \in Nat \ {0} /\ PoolLen \in Nat \ {0} /\ FrameMod \in Nat \ {0, 1}
    /\ MinNodes \in Nat /\ MaxNodes \in Nat /\ MinNodes <= MaxNodes
    /\ Tails \subseteq 0..(NodeLen - 1)

VARIABLES
    camera,    \* ejpeg_hdl is valid, so the interrupt handlers do their work
    node,      \* full nodes the camera has delivered of the present frame
    frame_id,  \* tvideo_pool.frame_id
    vbuf,      \* video_buf: frame_id, buf_status, buf_len, mempool_is_used, is_request_data
    pool,      \* the nodes in the first buf_len bytes of tvideo_pool.pool, if mapped
    mapped,    \* tvideo_pool.pool is allocated
    wild,      \* something has been written to a pool that is freed or NULL
    event,     \* SEND_FRAME_EVENT of the user's event set
    user,      \* where the using thread is: idle, waiting for the event, holding the pool
    shell      \* where the shell is in video_transfer_init and video_transfer_deinit

cam  == <<camera, node, frame_id>>
mem  == <<vbuf, pool, mapped, wild>>
vars == <<cam, mem, event, user, shell>>

BufReset == [frame_id |-> 0, status |-> "START", len |-> 0, used |-> FALSE, request |-> FALSE]

\* One piece of a frame: the n-th node of frame f, the last one if eof.
Piece(f, n, eof) == [frame |-> f, n |-> n, eof |-> eof]

VideoInit ==
    /\ camera = FALSE /\ node = 0 /\ frame_id = 0
    /\ vbuf = BufReset /\ pool = <<>> /\ mapped = FALSE /\ wild = FALSE
    /\ event = FALSE /\ user = "idle" /\ shell = "stopped"

-----------------------------------------------------------------------------
(***************************************************************************)
(* tvideo_rx_handler.                                                      *)
(***************************************************************************)


\* There is room for a node behind the first len bytes of the pool.
RoomUnchecked(len, newlen) == TRUE
RoomFor(len, newlen) == len + newlen < PoolLen

\* The memcpy and the new buf_len, when there is room.
Store(held, len, piece, newlen) ==
    IF RoomFor(len, newlen)
    THEN /\ pool' = Append(held, piece)
         /\ wild' = (wild \/ ~mapped)
    ELSE pool' = held /\ wild' = wild
LenAfter(len, newlen) == IF RoomFor(len, newlen) THEN len + newlen ELSE len

\* A request that is on is served by the frame that is being gathered.
Claim(b) == [b EXCEPT !.used = b.used \/ b.request, !.request = b.request /\ b.used]

\* is_sof: the frame number has changed, and is taken over.
SofAlways == TRUE
IsSof == vbuf.frame_id # frame_id
Seen  == [vbuf EXCEPT !.frame_id = frame_id]

\* The first node of a frame, while no frame is being gathered.
RxFirst(piece, newlen) ==
    /\ vbuf.status = "START" /\ IsSof
    /\ Store(<<>>, 0, piece, newlen)
    /\ vbuf' = Claim([Seen EXCEPT !.len = LenAfter(0, newlen),
                                  !.status = IF vbuf.used /\ ~RoomFor(0, newlen)
                                             THEN "START" ELSE "COPY"])
    /\ UNCHANGED event

\* A node of a frame whose start was missed.
RxMissed ==
    /\ vbuf.status = "START" /\ ~IsSof
    /\ vbuf' = [Seen EXCEPT !.len = 0]
    /\ pool' = <<>>
    /\ UNCHANGED <<wild, event>>

\* A node of the frame being gathered. The last one ends it: the picture is
\* handed to send_func, or forgotten if nobody had asked for it before.
SendsNever(eof)   == FALSE
SendsPicture(eof) == eof /\ vbuf.used
StatusAfter(eof)  == IF ~eof THEN "COPY" ELSE IF vbuf.used THEN "DONE" ELSE "START"
RxNext(piece, newlen, eof) ==
    /\ vbuf.status = "COPY"
    /\ Store(pool, vbuf.len, piece, newlen)
    /\ vbuf' = Claim([Seen EXCEPT !.len = LenAfter(vbuf.len, newlen),
                                  !.status = StatusAfter(eof)])
    /\ event' = (event \/ SendsPicture(eof))

\* The picture in the pool is left alone until it is given back.
RestartAtOnce == "START"
DoneStatus == IF vbuf.used THEN "DONE" ELSE "START"
RxDone ==
    /\ vbuf.status = "DONE"
    /\ vbuf' = [Seen EXCEPT !.status = DoneStatus]
    /\ UNCHANGED <<pool, wild, event>>

\* tvideo_rx_handler, called by the camera's handlers with a node.
RxHandler(piece, newlen, eof) ==
    /\ \/ RxFirst(piece, newlen)
       \/ RxMissed
       \/ RxNext(piece, newlen, eof)
       \/ RxDone
    /\ UNCHANGED mapped

-----------------------------------------------------------------------------
(***************************************************************************)
(* The camera's interrupts, the user's loop and the shell.                 *)
(***************************************************************************)

\* camera_intf_ejpeg_rx_handler: the DMA has filled a node. Like the next
\* handler it does nothing unless ejpeg_hdl is valid.
DmaNode ==
    /\ camera /\ node < MaxNodes
    /\ RxHandler(Piece(frame_id, node + 1, FALSE), NodeLen, FALSE)
    /\ node' = node + 1
    /\ UNCHANGED <<camera, frame_id, user, shell>>

\* camera_intf_delay_timer_hdl, some time after the end of a frame: the rest
\* of the last node, if there is one, then tvideo_end_frame_handler.
EndFrame(rec_len) ==
    /\ camera /\ node >= MinNodes
    /\ IF rec_len > 0
       THEN RxHandler(Piece(frame_id, node + 1, TRUE), rec_len, TRUE)
       ELSE UNCHANGED <<mem, event>>
    /\ frame_id' = (frame_id + 1) % FrameMod
    /\ node' = 0
    /\ UNCHANGED <<camera, user, shell>>

\* tvideo_capture(1), and the wait for the event. Nothing keeps a user from
\* asking before video_transfer_init, which forgets the request.
Capture ==
    /\ user = "idle" /\ shell # "closing"
    /\ vbuf' = [vbuf EXCEPT !.request = TRUE]
    /\ user' = "wait"
    /\ UNCHANGED <<cam, pool, mapped, wild, event, shell>>

\* rt_event_recv with RT_EVENT_FLAG_CLEAR returns: the user has the picture.
Receive ==
    /\ user = "wait" /\ event
    /\ user' = "hold" /\ event' = FALSE
    /\ UNCHANGED <<cam, mem, shell>>

\* tvideo_capture(0): the user has done with the picture.
GiveBack ==
    /\ user = "hold"
    /\ vbuf' = [vbuf EXCEPT !.used = FALSE]
    /\ user' = "idle"
    /\ UNCHANGED <<cam, pool, mapped, wild, event, shell>>

\* video_transfer_init with is_start = 0: tvideo_pool_init, whose rt_malloc may
\* fail.  The failure is logged and nothing else: the pool is cleared and the
\* transfer goes on as if it were there ...
InitPool ==
    /\ shell = "stopped"
    /\ \E ok \in BOOLEAN : mapped' = ok /\ wild' = (wild \/ ~ok)
    /\ pool' = <<>> /\ vbuf' = BufReset /\ frame_id' = 0
    /\ shell' = "opening"
    /\ UNCHANGED <<camera, node, event, user>>

\* ... then camera_intfer_init, from where the interrupts come, and is_start = 1.
OpenCamera ==
    /\ shell = "opening"
    /\ camera' = TRUE /\ node' = 0 /\ shell' = "running"
    /\ UNCHANGED <<frame_id, mem, event, user>>

\* video_transfer_deinit: the pool is freed first. Nobody may be using it.
FreePool ==
    /\ shell = "running" /\ user = "idle"
    /\ mapped' = FALSE /\ pool' = <<>> /\ shell' = "closing"
    /\ UNCHANGED <<cam, vbuf, wild, event, user>>

\* ... then camera_intfer_deinit takes ejpeg_hdl away from the handlers.
HandleKept    == TRUE
HandleInvalid == FALSE
CloseCamera ==
    /\ shell = "closing"
    /\ camera' = HandleInvalid /\ shell' = "stopped"
    /\ UNCHANGED <<node, frame_id, mem, event, user>>

Camera    == DmaNode \/ \E rec_len \in Tails : EndFrame(rec_len)
User      == Capture \/ Receive \/ GiveBack
Shell     == InitPool \/ OpenCamera \/ FreePool \/ CloseCamera
VideoNext == Camera \/ User \/ Shell

\* The camera goes on delivering frames, a thread whose event has come is
\* scheduled in the end.
VideoSpec == VideoInit /\ [][VideoNext]_vars /\ WF_vars(Camera) /\ WF_vars(Receive)

-----------------------------------------------------------------------------
(***************************************************************************)
(* Properties.                                                             *)
(***************************************************************************)

\* Every variable has its type; in particular buf_len never passes the end of
\* the pool, whatever the length of the frames.
VideoTypeOK ==
    /\ camera \in BOOLEAN /\ node \in 0..MaxNodes /\ frame_id \in 0..(FrameMod - 1)
    /\ vbuf \in [frame_id : 0..(FrameMod - 1), status : {"START", "COPY", "DONE"},
                 len : 0..PoolLen, used : BOOLEAN, request : BOOLEAN]
    /\ \A i \in DOMAIN pool : pool[i].n \in 1..(MaxNodes + 1)
    /\ mapped \in BOOLEAN /\ wild \in BOOLEAN /\ event \in BOOLEAN
    /\ user \in {"idle", "wait", "hold"}
    /\ shell \in {"stopped", "opening", "running", "closing"}

\* The full nodes of a picture, and whether it has the end of the frame too.
FullNodes(s) == IF Last(s).eof THEN Len(s) - 1 ELSE Len(s)
Complete(s)  == Last(s).eof /\ Last(s).n = Len(s)

\* The picture a user has been told of is one frame: all of its nodes are of
\* the same frame, its full nodes are there from the first on without a gap,
\* and if something is missing then a full node more had no room in the pool.
\* Without a pool there is no picture, though the user is told of one.
PictureWhole ==
    user = "hold" /\ mapped =>
        /\ pool # <<>>
        /\ \A i \in DOMAIN pool : pool[i].frame = pool[1].frame
        /\ \A i \in 1..FullNodes(pool) : pool[i].n = i
        /\ Complete(pool) \/ (FullNodes(pool) + 1) * NodeLen >= PoolLen

\* From the callback to tvideo_capture(0) nothing writes to the pool, although
\* the camera goes on: the user may read it with interrupts enabled.
PictureStable == [][event \/ user = "hold" => UNCHANGED <<pool, mapped>>]_vars

\* A freed or NULL pool is written to in two ways only: by a handler between the
\* two halves of video_transfer_deinit, and by a transfer whose own rt_malloc has
\* failed.  Never once video_transfer_deinit has returned, and never by a transfer
\* that got its pool.
WildOnlyKnown ==
    [][wild' # wild => shell = "closing" \/ (shell' \in {"opening", "running"} /\ ~mapped')]_vars

\* A thread that waits for a picture gets one if the running transfer knows of
\* its request: the handler loses none, whichever node of a frame it meets.
PictureServed ==
    user = "wait" /\ shell = "running" /\ (vbuf.request \/ vbuf.used) ~> user = "hold"
=============================================================================
