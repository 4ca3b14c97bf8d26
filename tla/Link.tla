-------------------------------- MODULE Link --------------------------------
(***************************************************************************)
(* A master and a slave in a build for a preemptive system (mb_os.c from   *)
(* line 222), each on a channel of its own, and the line between them.     *)
(*                                                                         *)
(* The thread that calls an MBM_.. function sends a request, sleeps on the *)
(* semaphore of the channel and compares what is in RxData with what it    *)
(* asked for.  At the slave the receiver copies a frame to RxData and      *)
(* posts the channel to a mailbox; the slave's thread fetches it and runs  *)
(* MBS_RxTask, the step of module Slave, on what RxData holds by then, and *)
(* sends its reply with the identifier that T_Id holds when it is sent.    *)
(*                                                                         *)
(* The ports of the OSAL differ in what os_sem_wait and os_mbox_fetch      *)
(* return and in whether os_mbox_post waits while the mailbox is full.     *)
(***************************************************************************)
EXTENDS Integers, Sequences

CONSTANTS
  Application,   \* sets of requests: what an application asks for, frames of module Slave
  Port,          \* the ports of the OSAL
  Mode,          \* "RTU" or "TCP": how the channels may be configured
  MboxSize,      \* 10
  PointRange,    \* 2^8: nbr_points and byte_cnt of the .._Resp functions are u8
  CoilsPerByte, IxRange, Layout, DiscreteInput, InputReg,
  NoFrame, NoReply,
  Value,         \* what damage may put into a response
  MaxCalls,      \* bound: the calls of a behaviour
  MaxDamaged     \* bound: the responses that the line damages

ASSUME LinkAssumption ==
  /\ Port \subseteq {"rt_thread", "ucos", "free_rtos", "linux", "windows"}
  /\ Mode \subseteq {"RTU", "TCP"}
  /\ {MboxSize, PointRange} \subseteq Nat \ {0}
  /\ {MaxCalls, MaxDamaged} \cup Value \subseteq Nat

NONE         == 0
TIME_OUT     == 3000
SLAVE_ADDR   == 5002
FC           == 5003
BYTE_COUNT   == 5004
COIL_ADDR    == 5000
COIL_QTY     == 5005
REG_ADDR     == 5006
NBR_REG      == 5007
SUB_FNCT     == 5008
DIAG         == 5009
NoError      == -1   \* no call has returned

VARIABLES
  port, mode, application,
  master,     \* the calling thread: what it does, its request, the error in *perr
  T_Id,       \* of the master's channel
  Master_Sem, \* its semaphore
  RxData,     \* its last response, with the identifier it came with
  toSlave,    \* frames on the line
  toMaster,
  slaveRx,    \* RxData and T_Id of the slave's channel
  posting,    \* the slave's receiver is in os_mbox_post
  Slave_Mbox, \* how many times the channel is in the mailbox
  serving,    \* the slave's thread has fetched it and is not done with it
  answering,  \* the call whose reply is in TxData, 0 when there is none
  coil, reg, file, stat, rx, reply, answered, silentClear,  \* of module Slave
  call,       \* history: the number of the call
  result,     \* history: what the last call returned, and the response it took
  late,       \* history: a call has timed out
  fresh,      \* history: this call began with no token in Master_Sem
  overrun,    \* history: a frame came before the slave was done with the last one
  served,     \* history: how often the slave ran each call's request
  damaged     \* history: responses damaged on the line

Request == UNION Application

Sl == INSTANCE Slave WITH NodeAddr <- 1, Checked <- TRUE, StatRange <- 1, Frame <- Request

(* The requests are those of the functions of mb_master.c, and more points fit *)
(* a byte's count than fit a byte.                                             *)
ASSUME RequestAssumption ==
  /\ Sl!SlaveAssumption
  /\ Sl!DataAssumption
  /\ \A f \in Request :
       f.fc \in {Sl!RD_COIL, Sl!RD_DI, Sl!RD_HOLDING, Sl!RD_INPUT, Sl!WR_COIL, Sl!WR_REG,
                Sl!LOOPBACK, Sl!WR_COILS, Sl!WR_REGS}
  /\ CoilsPerByte < PointRange

masterVars == <<master, T_Id, Master_Sem, RxData>>
handler    == <<coil, reg, file, stat, rx, reply, answered, silentClear>>
slaveVars  == <<slaveRx, posting, Slave_Mbox, serving, answering, handler>>
line       == <<toSlave, toMaster, damaged>>
callVars   == <<call, result, late, fresh>>
config     == <<port, mode, application>>
vars == <<config, masterVars, slaveVars, line, callVars, overrun, served>>

(* What os_sem_wait returns for a token, os_mbox_fetch for a message.  On    *)
(* rt_thread the result passes through a variable that all waits write: it   *)
(* stays the caller's own here, where no other thread of a machine waits.    *)
SemTrue  == port \in {"rt_thread", "ucos", "free_rtos"}
MboxTrue == port \in {"rt_thread", "ucos"}
(* os_mbox_post waits while the mailbox is full; that of free_rtos does not in *)
(* an interrupt.                                                               *)
PostWaits == port \in {"linux", "windows"}

(* RxData before the first response: zeroes. *)
Blank == [tid |-> 0, call |-> 0, ok |-> TRUE,
          r |-> [addr |-> 0, fc |-> 0, err |-> NONE, body |-> <<>>]]

Init ==
  /\ port \in Port
  /\ mode \in Mode
  /\ application \in Application
  /\ master = [pc |-> "idle", req |-> NoFrame, err |-> NoError]
  /\ T_Id = 0
  /\ Master_Sem = 0
  /\ RxData = Blank
  /\ toSlave = <<>>
  /\ toMaster = <<>>
  /\ slaveRx = [tid |-> 0, call |-> 0, f |-> NoFrame]
  /\ posting = FALSE
  /\ Slave_Mbox = 0
  /\ serving = FALSE
  /\ answering = 0
  /\ Sl!Init
  /\ call = 0
  /\ result = [err |-> NoError, took |-> Blank]
  /\ late = FALSE
  /\ fresh = TRUE
  /\ overrun = FALSE
  /\ served = [c \in 1 .. MaxCalls |-> 0]
  /\ damaged = 0

-----------------------------------------------------------------------------
(* The master. *)

MBM_Request(f) ==
  /\ master.pc = "idle"
  /\ call < MaxCalls
  /\ call' = call + 1
  /\ T_Id' = IF mode = "TCP" THEN T_Id + 1 ELSE T_Id
  /\ master' = [pc |-> "waiting", req |-> f, err |-> NoError]
  /\ toSlave' = Append(toSlave, [tid |-> T_Id', call |-> call', f |-> f])
  /\ fresh' = (Master_Sem = 0)
  /\ UNCHANGED <<config, Master_Sem, RxData, toMaster, damaged, slaveVars, result, late,
                 overrun, served>>

(* MBM_OS_RxWait sleeps until there is a token or RespTimeout is over. *)
Woken ==
  /\ master.pc = "waiting"
  /\ Master_Sem > 0
  /\ Master_Sem' = Master_Sem - 1
  /\ master' = [master EXCEPT !.pc = "parsing", !.err = IF SemTrue THEN NONE ELSE TIME_OUT]
  /\ UNCHANGED <<config, T_Id, RxData, line, slaveVars, callVars, overrun, served>>

(* Mutant of TimedOut: RespTimeout is not passed on, the thread waits for ever. *)
TimedOut_Never == master.pc = "waiting" /\ Master_Sem > 0 /\ UNCHANGED vars

(* On some ports a token that comes as the time is over is left; on ucos it *)
(* also makes a success of the wait, since os_sem_signal writes the sem_err *)
(* that os_sem_wait is about to test.                                       *)
TimedOut ==
  /\ master.pc = "waiting"
  /\ Master_Sem = 0 \/ port \in {"linux", "windows", "ucos"}
  /\ master' = [master EXCEPT !.pc = "parsing",
                              !.err = IF SemTrue /\ Master_Sem = 0 THEN TIME_OUT ELSE NONE]
  /\ late' = TRUE
  /\ UNCHANGED <<config, T_Id, Master_Sem, RxData, line, slaveVars, call, result, fresh,
                 overrun, served>>

(* The .._Resp functions: the data of a write is not repeated, or not looked at, *)
(* and of a read only the length is known.                                       *)

CoilBytes(points) == IF points = 0 THEN 1 ELSE Sl!BytesOf(points)

MBM_ReadCoil_Resp(t, r) ==
  IF Sl!BytesOf(Len(r.body)) # CoilBytes(t.qty % PointRange) THEN BYTE_COUNT ELSE NONE

(* Two bytes a register; nbr_points, byte_cnt and the count in the response are bytes. *)
MBM_ReadReg_Resp(t, r) ==
  IF (2 * Len(r.body)) % PointRange # (2 * (t.qty % PointRange)) % PointRange
  THEN BYTE_COUNT ELSE NONE

MBM_WriteSingleCoil_Resp(t, r) == IF r.body[1] # t.start THEN COIL_ADDR ELSE NONE

MBM_WriteSingleReg_Resp(t, r) == IF r.body[1] # t.start THEN REG_ADDR ELSE NONE

MBM_WriteMultipleCoils_Resp(t, r) ==
  IF r.body[1] # t.start THEN COIL_ADDR ELSE IF r.body[2] # t.qty THEN COIL_QTY ELSE NONE

MBM_WriteMultipleReg_Resp(t, r) ==
  IF r.body[1] # t.start THEN REG_ADDR ELSE IF r.body[2] # t.qty THEN NBR_REG ELSE NONE

MBM_Diag_Resp(t, r) ==
  IF r.body[1] # t.start THEN SUB_FNCT
  ELSE IF \/ t.start \in {Sl!QUERY, Sl!CLR_CTR} /\ r.body[2] # t.qty
          \/ t.start \notin {Sl!QUERY} \cup 10 .. 15 THEN DIAG
  ELSE NONE

Compared(t, r) ==
  CASE t.fc \in {Sl!RD_COIL, Sl!RD_DI}          -> MBM_ReadCoil_Resp(t, r)
    [] t.fc \in {Sl!RD_HOLDING, Sl!RD_INPUT}    -> MBM_ReadReg_Resp(t, r)
    [] t.fc = Sl!WR_COIL                        -> MBM_WriteSingleCoil_Resp(t, r)
    [] t.fc = Sl!WR_REG                         -> MBM_WriteSingleReg_Resp(t, r)
    [] t.fc = Sl!LOOPBACK                       -> MBM_Diag_Resp(t, r)
    [] t.fc = Sl!WR_COILS                       -> MBM_WriteMultipleCoils_Resp(t, r)
    [] t.fc = Sl!WR_REGS                        -> MBM_WriteMultipleReg_Resp(t, r)

(* Mutant of Parsed: the flag of an exception is masked out of the function *)
(* code, and the rest of a short response is as an earlier one left it.     *)
Parsed_Masked(t, r) ==
  IF r.addr # t.addr THEN SLAVE_ADDR
  ELSE IF r.fc % 128 # t.fc THEN FC
  ELSE IF r.err # NONE THEN NONE
  ELSE Compared(t, r)

Parsed(t, r) ==
  IF r.addr # t.addr THEN SLAVE_ADDR
  ELSE IF r.fc # t.fc THEN FC
  ELSE Compared(t, r)

(* The call returns. *)
MBM_ParseResp ==
  /\ master.pc = "parsing"
  /\ result' = [err  |-> IF master.err # NONE THEN master.err ELSE Parsed(master.req, RxData.r),
                took |-> RxData]
  /\ master' = [master EXCEPT !.pc = "idle", !.err = NoError]
  /\ UNCHANGED <<config, T_Id, Master_Sem, RxData, line, slaveVars, call, late, fresh,
                 overrun, served>>

(* Mutant of Accepts: the transaction identifier is not compared. *)
Accepts_Any(p) == TRUE

Accepts(p) == mode = "TCP" => p.tid = T_Id

(* The receiver of the master: MB_UART_RxTimeout, MB_ASCII_RxByte or MB_TCP_Rx *)
(* with MB_OS_RxSignal.  The sum of a response is not looked at.               *)
MasterReceives ==
  /\ toMaster # <<>>
  /\ toMaster' = Tail(toMaster)
  /\ IF Accepts(Head(toMaster))
     THEN RxData' = Head(toMaster) /\ Master_Sem' = Master_Sem + 1
     ELSE UNCHANGED <<RxData, Master_Sem>>
  /\ UNCHANGED <<config, master, T_Id, toSlave, damaged, slaveVars, callVars, overrun, served>>

-----------------------------------------------------------------------------
(* The slave. *)

(* The receiver overwrites RxData and T_Id whether or not they have been read. *)
SlaveReceives ==
  /\ ~ posting
  /\ toSlave # <<>>
  /\ toSlave' = Tail(toSlave)
  /\ slaveRx' = Head(toSlave)
  /\ posting' = TRUE
  /\ overrun' = (overrun \/ Slave_Mbox > 0 \/ serving)
  /\ UNCHANGED <<config, masterVars, toMaster, damaged, Slave_Mbox, serving, answering, handler,
                 callVars, served>>

(* Mutant of Post: the mailbox is taken to have room. *)
Post_Unbounded ==
  /\ posting
  /\ posting' = FALSE
  /\ Slave_Mbox' = Slave_Mbox + 1
  /\ UNCHANGED <<config, masterVars, line, slaveRx, serving, answering, handler, callVars,
                 overrun, served>>

(* On ucos a post that fails writes the mbox_err that os_mbox_fetch may be *)
(* about to test: then what it has fetched is dropped.                     *)
FetchFails == port = "ucos" /\ serving /\ answering = 0 /\ Slave_Mbox = MboxSize

(* os_mbox_post; when the mailbox is full it waits, or leaves the frame unannounced. *)
Post ==
  /\ posting
  /\ Slave_Mbox < MboxSize \/ ~ PostWaits
  /\ posting' = FALSE
  /\ Slave_Mbox' = IF Slave_Mbox < MboxSize THEN Slave_Mbox + 1 ELSE Slave_Mbox
  /\ serving' \in {serving, serving /\ ~ FetchFails}
  /\ UNCHANGED <<config, masterVars, line, slaveRx, answering, handler, callVars, overrun,
                 served>>

(* Mutant of Fetch: the message stays in the mailbox. *)
Fetch_Peeks ==
  /\ ~ serving
  /\ Slave_Mbox > 0
  /\ serving' = MboxTrue
  /\ UNCHANGED <<config, masterVars, line, slaveRx, posting, Slave_Mbox, answering, handler,
                 callVars, overrun, served>>

(* Slave_Task serves the channel if os_mbox_fetch returns true. *)
Fetch ==
  /\ ~ serving
  /\ Slave_Mbox > 0
  /\ Slave_Mbox' = Slave_Mbox - 1
  /\ serving' = MboxTrue
  /\ UNCHANGED <<config, masterVars, line, slaveRx, posting, answering, handler, callVars,
                 overrun, served>>

(* MBS_RTU_Task or MBS_TCP_Task: the handler runs the request in RxData.  Frames *)
(* may come before its reply, if there is one, is sent.                          *)
Serve ==
  /\ serving
  /\ answering = 0
  /\ Sl!MBS_RxTask(slaveRx.f)
  /\ serving' = (reply' # NoReply)
  /\ answering' = IF reply' = NoReply THEN 0 ELSE slaveRx.call
  /\ served' = [served EXCEPT ![slaveRx.call] = @ + 1]
  /\ UNCHANGED <<config, masterVars, line, slaveRx, posting, Slave_Mbox, callVars, overrun>>

(* MB_RTU_Tx or MB_TCP_Tx: the reply goes out with T_Id as it is by now. *)
SendReply ==
  /\ answering # 0
  /\ serving' = FALSE
  /\ answering' = 0
  /\ toMaster' =
       Append(toMaster, [tid |-> slaveRx.tid, call |-> answering, ok |-> TRUE, r |-> reply])
  /\ UNCHANGED <<config, masterVars, toSlave, damaged, slaveRx, posting, Slave_Mbox, handler,
                 callVars, overrun, served>>

-----------------------------------------------------------------------------
(* The line loses frames and, if it is serial, damages them; a damaged request *)
(* is one that the slave drops (module Slave), so it counts as lost here.      *)

Lose ==
  /\ \/ toSlave # <<>> /\ toSlave' = Tail(toSlave) /\ UNCHANGED toMaster
     \/ toMaster # <<>> /\ toMaster' = Tail(toMaster) /\ UNCHANGED toSlave
  /\ UNCHANGED <<config, masterVars, damaged, slaveVars, callVars, overrun, served>>

Damage ==
  /\ mode = "RTU"
  /\ damaged < MaxDamaged
  /\ damaged' = damaged + 1
  /\ toMaster # <<>>
  /\ \E v \in Value :
       toMaster' = [toMaster EXCEPT ![1].ok = FALSE,
                                    ![1].r.body = [i \in 1 .. Len(@) |-> v]]
  /\ UNCHANGED <<config, masterVars, toSlave, slaveVars, callVars, overrun, served>>

-----------------------------------------------------------------------------
Master == Woken \/ TimedOut \/ MBM_ParseResp

Slave_Task == Fetch \/ Serve \/ SendReply

Next ==
  \/ \E f \in application : MBM_Request(f)
  \/ Woken
  \/ TimedOut
  \/ MBM_ParseResp
  \/ MasterReceives
  \/ SlaveReceives
  \/ Post
  \/ Fetch
  \/ Serve
  \/ SendReply
  \/ Lose
  \/ Damage

(* The threads run: the master's is woken by the semaphore or by the system's *)
(* clock, the slave's by the mailbox, the receiver's when the mailbox has     *)
(* room.  Of the line and of the application nothing is assumed.              *)
FairSpec ==
  Init /\ [][Next]_vars /\ WF_vars(Master) /\ WF_vars(Slave_Task) /\ WF_vars(Post)

-----------------------------------------------------------------------------
(* Properties. *)

Packet(p) == p.tid \in 0 .. MaxCalls /\ p.call \in 0 .. MaxCalls

(* Every variable keeps its type, those of the slave too. *)
TypeOK ==
  /\ port \in Port
  /\ mode \in Mode
  /\ application \in Application
  /\ master \in [pc : {"idle", "waiting", "parsing"}, req : Request \cup {NoFrame},
                 err : {NoError, NONE, TIME_OUT}]
  /\ T_Id \in 0 .. MaxCalls
  /\ Master_Sem \in Nat
  /\ Packet(RxData) /\ RxData.r \in Sl!Reply
  /\ \A i \in DOMAIN toSlave : Packet(toSlave[i]) /\ toSlave[i].f \in Request
  /\ \A i \in DOMAIN toMaster : Packet(toMaster[i]) /\ toMaster[i].r \in Sl!Reply
  /\ Packet(slaveRx) /\ slaveRx.f \in Request \cup {NoFrame}
  /\ posting \in BOOLEAN
  /\ Slave_Mbox \in 0 .. MboxSize
  /\ serving \in BOOLEAN
  /\ answering \in 0 .. MaxCalls
  /\ Sl!TypeOK
  /\ call \in 0 .. MaxCalls
  /\ Packet(result.took)
  /\ {late, fresh, overrun} \subseteq BOOLEAN
  /\ served \in [1 .. MaxCalls -> 0 .. MaxCalls]
  /\ damaged \in 0 .. MaxDamaged

Returned(errors) == call > 0 /\ master.pc = "idle" /\ result.err \in errors

(* A call that returns without an error has taken the response to its own     *)
(* request (mb_master.c:23), whatever the line lost, as long as no call before *)
(* it has given up.  With transaction identifiers also after that, if no token *)
(* was left in the semaphore and no frame came before the slave was done with  *)
(* the last: the slave would answer that one under the identifier of the next. *)
(* Where os_sem_wait returns true for a timeout nothing of the kind holds.     *)
NoneMeansAnswered ==
  (Returned({NONE}) /\ SemTrue /\ (~ late \/ (mode = "TCP" /\ fresh /\ ~ overrun)))
    => result.took.call = call /\ served[call] > 0

(* As long as no call has timed out and the response is as it was sent, the *)
(* registers and coils of the slave are what a call without error says.     *)
(* Left out are the last bytes of a WR_COILS that data_ix cannot count.     *)
DoneAsTold ==
  (Returned({NONE}) /\ SemTrue /\ ~ late /\ result.took.ok) =>
    LET f == master.req IN
    CASE f.fc = Sl!RD_HOLDING -> result.took.r.body = Sl!Slice(reg, f)
      [] f.fc = Sl!RD_COIL    -> result.took.r.body = Sl!Slice(coil, f)
      [] f.fc = Sl!WR_REG     -> reg[f.start] = f.qty
      [] f.fc = Sl!WR_COIL    -> coil[f.start] = Sl!Bit(f.qty)
      [] f.fc = Sl!WR_COILS /\ Sl!BytesOf(f.qty) <= IxRange - 7
                              -> Sl!Slice(coil, f) = SubSeq(f.data, 1, f.qty)
      [] OTHER                -> TRUE

(* The master takes a response to its request for what the slave meant: an  *)
(* error for an exception and none for a normal reply, but for a read of as *)
(* many points as do not fit a byte.                                        *)
NoneIffNormal ==
  (Returned(Nat \ {TIME_OUT}) /\ SemTrue /\ result.took.call = call /\ result.took.ok) =>
    LET tooMany == master.req.fc \in {Sl!RD_COIL, Sl!RD_DI} /\ master.req.qty >= PointRange
    IN  result.err = NONE <=> (result.took.r.err = NONE /\ ~ tooMany)

(* The slave runs a request twice only if a frame came before its thread had *)
(* read the last one: the mailbox counts frames, RxData holds one.           *)
ServedOnce == ~ overrun => \A c \in 1 .. MaxCalls : served[c] <= 1

(* Nobody sleeps for ever: an MBM_.. call comes back, on every port and      *)
(* whatever the line does, and the slave's receiver gets out of os_mbox_post. *)
NobodySleepsForEver ==
  /\ master.pc = "waiting" ~> master.pc = "idle"
  /\ posting ~> ~ posting
=============================================================================
