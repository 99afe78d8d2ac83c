------------------------------- MODULE Input -------------------------------
(***************************************************************************)
(* From a key to a read(): the keyboard and serial interrupts, the kernel  *)
(* input thread and the stdin stream, with blocking readers of it          *)
(* (kernel/arch/x86/src/dev/keyb/input.c, .../io/serial.c,                 *)
(* kernel/src/proc/ktask/kinput.c, kernel/src/fs/stream.c, procfs.c).      *)
(*                                                                         *)
(* Interrupt handlers and system calls run with interrupts disabled and    *)
(* are one step each.  kinput_task runs with interrupts enabled until its  *)
(* first delay() and with interrupts disabled (`masked`) from then on, and *)
(* takes one step per access to memory that others change as well.         *)
(***************************************************************************)
EXTENDS CBuff, FiniteSets, Integers

CONSTANTS
    Idevs,          \* the input devices, in the order of idevs
    Keyboard,       \* the one that is the keyboard; the others are serial
    EventLen,       \* sizeof(struct input_event)
    EventCount,     \* KEYB_BUFF_CNT, SERIAL_BUFF_CNT
    StreamLen,      \* INIT_STREAM_LEN
    Readers,        \* processes that share stdin
    MaxRead,        \* bound: bytes asked for in one read
    MaxTyped,       \* bound: interrupts
    FirstScan       \* does the model start in kinput's first scan, unmasked?

Devices == ToSet(Idevs)

ASSUME InputAssumption ==
    /\ Idevs \in Seq(Devices) /\ Idevs # <<>> /\ IsInjective(Idevs) /\ Keyboard \in Devices
    /\ EventLen \in Nat \ {0} /\ EventCount \in Nat \ {0} /\ StreamLen \in Nat \ {0}
    /\ MaxRead \in Nat /\ MaxTyped \in Nat
    /\ FirstScan \in BOOLEAN

\* What a device sends: the keyboard its codes, the others bytes.
Codes(d) == IF d = Keyboard THEN {"shift", "unshift", "letter"} ELSE {"byte", "delete"}

\* What a serial interrupt makes of a byte.
FromSerial(code) == IF code = "delete" THEN "backspace" ELSE code

\* The n-th interrupt's event is stored as EventLen bytes.
Events == [n : 1..MaxTyped, data : Codes(Keyboard) \cup {"byte", "backspace"}]
EventBytes(e) == [i \in 1..EventLen |-> [event |-> e, part |-> i]]
Zero == [event |-> [n |-> 0, data |-> "zero"], part |-> 0]
Bytes == [event : Events, part : 1..EventLen] \cup {Zero}

\* The characters kinput sends, told apart by the interrupt they come from.
Chars == [n : 0..MaxTyped, c : {"nul", "lower", "upper", "byte", "backspace"}]
NoChar == [n |-> 0, c |-> "nul"]

VARIABLES
    iev_buff,   \* input_dev_t.iev_buff of each device
    shift,      \* keyb_dev.state & KEYB_STATE_SHIFT
    typed,      \* interrupts so far
    kinput_dest,\* is it set?
    stdin,      \* the stream's buffer
    length,     \* the stream's kfile_t.length
    pc,         \* where kinput_task is
    dev,        \* index of the device it looks at
    iev,        \* the bytes of the event it has read
    seen,       \* cbuff_t.count as cbuff_get loaded it
    char,       \* the character it sends
    masked,     \* has it disabled interrupts?
    want        \* bytes each reader still waits for; 0 if it is in user mode

vars == <<iev_buff, shift, typed, kinput_dest, stdin, length, pc, dev, iev, seen,
          char, masked, want>>
kvars == <<pc, dev, iev, seen, char, masked>>

\* Looking for an event, cbuff_get (load, store begin, store count), send (store
\* the byte, store count, add to the length), in delay().
PCs == {"scan", "load", "begin", "count", "send", "sent", "length", "asleep"}

\* keyb_init, serial_init: each device has a buffer.
InitBuffers == [d \in Devices |-> EmptyCbuff(EventLen * EventCount, Zero)]

Init ==
    /\ iev_buff = InitBuffers
    /\ shift = FALSE /\ typed = 0
    /\ kinput_dest = FALSE
    /\ stdin = EmptyCbuff(StreamLen, NoChar) /\ length = 0
    /\ pc = "scan" /\ dev = 1 /\ iev = <<>> /\ seen = 0 /\ char = NoChar
    /\ masked = ~FirstScan
    /\ want = [r \in Readers |-> 0]

-----------------------------------------------------------------------------
\* Somebody else than kinput_task can run.
Preempts == pc = "asleep" \/ ~masked

\* The handler of a device puts an event into its buffer; it is dropped if it does not fit.
Handle(d, data) ==
    /\ Preempts /\ typed < MaxTyped
    /\ typed' = typed + 1
    /\ iev_buff' = [iev_buff EXCEPT ![d] = Write(@, EventBytes([n |-> typed + 1, data |-> data]))]
    /\ UNCHANGED <<kinput_dest, stdin, length, kvars, want>>

_keyb_int(code) ==
    /\ Handle(Keyboard, code)
    /\ shift' = (code = "shift" \/ (code # "unshift" /\ shift))

_serial_int_handle(d, code) ==
    /\ Handle(d, FromSerial(code))
    /\ UNCHANGED shift

\* _spawn_init routes the input to init.
SetDest ==
    /\ Preempts /\ ~kinput_dest
    /\ kinput_dest' = TRUE
    /\ UNCHANGED <<iev_buff, shift, typed, stdin, length, kvars, want>>

-----------------------------------------------------------------------------
(* kinput_task                                                               *)

buff == iev_buff[Idevs[dev]]

\* cbuff_read: there is an event ...
ScanRead ==
    /\ pc = "scan" /\ CanRead(buff, EventLen)
    /\ pc' = "load"
    /\ UNCHANGED <<iev_buff, shift, typed, kinput_dest, stdin, length, dev, iev, seen, char,
                   masked, want>>

\* Mutant: only the first device is looked at.
ScanFirst ==
    /\ pc = "scan" /\ ~CanRead(buff, EventLen)
    /\ pc' = "asleep" /\ masked' = TRUE /\ dev' = 1
    /\ UNCHANGED <<iev_buff, shift, typed, kinput_dest, stdin, length, iev, seen, char, want>>

\* ... or there is none: the next device, and delay() after the last.
ScanNext ==
    /\ pc = "scan" /\ ~CanRead(buff, EventLen)
    /\ IF dev < Len(Idevs)
       THEN dev' = dev + 1 /\ UNCHANGED <<pc, masked>>
       ELSE dev' = 1 /\ pc' = "asleep" /\ masked' = TRUE
    /\ UNCHANGED <<iev_buff, shift, typed, kinput_dest, stdin, length, iev, seen, char, want>>

\* cbuff_get loads the count and the byte, ...
GetLoad ==
    /\ pc = "load"
    /\ seen' = buff.count
    /\ iev' = Append(iev, GetByte(buff))
    /\ pc' = "begin"
    /\ UNCHANGED <<iev_buff, shift, typed, kinput_dest, stdin, length, dev, char, masked, want>>

\* Mutant: begin stays.
GetBeginStays ==
    /\ pc = "begin"
    /\ pc' = "count"
    /\ UNCHANGED <<iev_buff, shift, typed, kinput_dest, stdin, length, dev, iev, seen, char,
                   masked, want>>

\* ... stores begin ...
GetBegin ==
    /\ pc = "begin"
    /\ iev_buff' = [iev_buff EXCEPT ![Idevs[dev]].begin = WRAP(@ + 1, buff.size)]
    /\ pc' = "count"
    /\ UNCHANGED <<shift, typed, kinput_dest, stdin, length, dev, iev, seen, char, masked, want>>

\* keycode_to_char takes the shift state of now, not of when the key was pressed.
keycode_to_char(e) ==
    [n |-> e.n,
     c |-> IF e.data = "letter" THEN (IF shift THEN "upper" ELSE "lower")
           ELSE IF e.data \in {"shift", "unshift"} THEN "nul"
           ELSE e.data]

\* ... and count, from the load or from memory.  After the last byte of the
\* event, which data is in, the character is sent.
GetCount ==
    /\ pc = "count"
    /\ \E n \in {seen - 1, buff.count - 1} :
          iev_buff' = [iev_buff EXCEPT ![Idevs[dev]].count = n]
    /\ IF Len(iev) < EventLen
       THEN pc' = "load" /\ UNCHANGED <<iev, char>>
       ELSE /\ iev' = <<>>
            /\ IF kinput_dest
               THEN pc' = "send" /\ char' = keycode_to_char(iev[EventLen].event)
               ELSE pc' = "scan" /\ UNCHANGED char
    /\ seen' = 0
    /\ UNCHANGED <<shift, typed, kinput_dest, stdin, length, dev, masked, want>>

\* Mutant: a full stream is not noticed.
SendOver ==
    /\ pc = "send"
    /\ stdin' = [stdin EXCEPT !.buff[WRAP(stdin.begin + stdin.count, stdin.size) % stdin.size] = char]
    /\ pc' = "sent" /\ char' = NoChar
    /\ UNCHANGED <<iev_buff, shift, typed, kinput_dest, length, dev, iev, seen, masked, want>>

\* _write of the stream: cbuff_put stores the byte if there is room, ...
Send ==
    /\ pc = "send"
    /\ IF CanPut(stdin)
       THEN /\ stdin' = [stdin EXCEPT
                             !.buff[WRAP(stdin.begin + stdin.count, stdin.size)] = char]
            /\ pc' = "sent"
       ELSE pc' = "scan" /\ UNCHANGED stdin
    /\ char' = NoChar
    /\ UNCHANGED <<iev_buff, shift, typed, kinput_dest, length, dev, iev, seen, masked, want>>

\* ... and counts it.
SendCount ==
    /\ pc = "sent"
    /\ stdin' = [stdin EXCEPT !.count = @ + 1]
    /\ pc' = "length"
    /\ UNCHANGED <<iev_buff, shift, typed, kinput_dest, length, dev, iev, seen, char, masked, want>>

SendLength ==
    /\ pc = "length"
    /\ length' = length + 1
    /\ pc' = "scan"
    /\ UNCHANGED <<iev_buff, shift, typed, kinput_dest, stdin, dev, iev, seen, char, masked, want>>

\* delay() returns.
Wake ==
    /\ pc = "asleep"
    /\ pc' = "scan"
    /\ UNCHANGED <<iev_buff, shift, typed, kinput_dest, stdin, length, dev, iev, seen, char,
                   masked, want>>

Kinput ==
    \/ ScanRead \/ ScanNext \/ GetLoad \/ GetBegin \/ GetCount
    \/ Send \/ SendCount \/ SendLength \/ Wake

-----------------------------------------------------------------------------
(* The readers.                                                              *)

\* Mutant: the length is reduced by what was asked for.
StreamReadAsked(n) ==
    /\ stdin' = GetUpTo(stdin, n)
    /\ length' = length - n

\* _read of the stream: the bytes there are, up to n.
StreamRead(n) ==
    LET got == IF n <= stdin.count THEN n ELSE stdin.count IN
    /\ stdin' = GetUpTo(stdin, n)
    /\ length' = length - got

\* proc_fs_read_blk is called for n bytes.
ReadBlk(r, n) ==
    /\ Preempts /\ want[r] = 0 /\ kinput_dest
    /\ want' = [want EXCEPT ![r] = n]
    /\ UNCHANGED <<iev_buff, shift, typed, kinput_dest, stdin, length, kvars>>

\* Mutant: the reader waits until all it asked for is there.
ReadSomeWhole(r) ==
    /\ Preempts /\ want[r] > 0 /\ stdin.count >= want[r]
    /\ StreamRead(want[r])
    /\ want' = [want EXCEPT ![r] = 0]
    /\ UNCHANGED <<iev_buff, shift, typed, kinput_dest, kvars>>

\* A pass of its loop, up to run_sched().
ReadSome(r) ==
    /\ Preempts /\ want[r] > 0
    /\ StreamRead(want[r])
    /\ want' = [want EXCEPT ![r] = IF stdin.count >= @ THEN 0 ELSE @ - stdin.count]
    /\ UNCHANGED <<iev_buff, shift, typed, kinput_dest, kvars>>

\* proc_fs_read takes what there is.
Read(r, n) ==
    /\ Preempts /\ want[r] = 0 /\ kinput_dest /\ stdin.count > 0
    /\ StreamRead(n)
    /\ UNCHANGED <<iev_buff, shift, typed, kinput_dest, kvars, want>>

Next ==
    \/ \E code \in Codes(Keyboard) : _keyb_int(code)
    \/ \E d \in Devices \ {Keyboard} : \E code \in Codes(d) : _serial_int_handle(d, code)
    \/ SetDest
    \/ Kinput
    \/ \E r \in Readers : ReadSome(r)
    \/ \E r \in Readers, n \in 1..MaxRead : ReadBlk(r, n) \/ Read(r, n)

Spec == Init /\ [][Next]_vars

\* kinput_task is woken by the timer (Delay, DelayReturns), and runnable threads
\* run (Sched, RunnableRuns).
FairSpec == Spec /\ WF_vars(Kinput) /\ \A r \in Readers : SF_vars(ReadSome(r))
-----------------------------------------------------------------------------
(* kinput never sees the beginning of one event with the end of another:     *)
(* events are dropped and read whole, also where the buffer is full or wraps.*)
EventsWhole ==
    \A i \in DOMAIN iev : iev[i].part = i /\ iev[i].event = iev[1].event

(* Types; events are whole; and the length that stat() reports for stdin is  *)
(* the number of bytes to read in it, although kinput and the readers each   *)
(* adjust both.                                                              *)
InputInv ==
    /\ iev_buff \in [Devices -> Cbuff(EventLen * EventCount, Bytes)]
    /\ stdin \in Cbuff(StreamLen, Chars)
    /\ shift \in BOOLEAN /\ kinput_dest \in BOOLEAN /\ masked \in BOOLEAN
    /\ typed \in 0..MaxTyped
    /\ pc \in PCs /\ dev \in DOMAIN Idevs
    /\ want \in [Readers -> 0..MaxRead]
    /\ EventsWhole
    /\ length = stdin.count - (IF pc = "length" THEN 1 ELSE 0)

\* A device's buffer with a cbuff_get that has stored begin seen as finished.
Settled(d) ==
    IF pc = "count" /\ d = Idevs[dev]
    THEN [iev_buff[d] EXCEPT !.count = @ - 1] ELSE iev_buff[d]

KeyFifo(d) == INSTANCE Fifo WITH q <- Contents(Settled(d)), Cap <- EventLen * EventCount
StdinFifo == INSTANCE Fifo WITH q <- Contents(stdin), Cap <- StreamLen

(* The event buffers are bounded queues: what the interrupts write is what   *)
(* kinput reads, in that order.                                              *)
EventsAreFifo ==
    /\ \A d \in Devices : KeyFifo(d)!Init
    /\ [][\A d \in Devices : [KeyFifo(d)!Next]_(Contents(Settled(d)))]_vars

(* So is stdin, between kinput and several readers.                          *)
StdinIsFifo == StdinFifo!Spec

(* An event that was accepted reaches kinput, whichever device it is from.   *)
EventsAreTaken ==
    \A d \in Devices : iev_buff[d].count > 0 ~> iev_buff[d].count = 0

(* A reader does not sleep on while there is input: either it returns, or    *)
(* what there was has been read.                                             *)
ReadersServed ==
    \A r \in Readers : (want[r] > 0 /\ stdin.count > 0) ~> (want[r] = 0 \/ stdin.count = 0)
=============================================================================
