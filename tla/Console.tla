------------------------------ MODULE Console -------------------------------
(***************************************************************************)
(* Console input: the devices, the circular buffer of kern/cons/console.c  *)
(* and processes that read lines with readline and atomic_readline of      *)
(* lib/readline.c.                                                         *)
(*                                                                         *)
(* In this build (LCK_INT) a system call runs with interrupts on, spins    *)
(* for a character and can be preempted at every instruction; cons_lock    *)
(* turns interrupts off in the processor and in the saved flags of the     *)
(* caller, so that it stays alone, in user mode too, and its reads poll    *)
(* the devices.  The processor's flag is that of the process that runs.    *)
(*                                                                         *)
(* Characters are numbered as they come into the buffer.                   *)
(***************************************************************************)
EXTENDS Integers, SequencesExt, FiniteSetsExt

CONSTANTS
  Procs,
  BufSize,   \* CONSBUFSIZE
  MaxBytes   \* bound on the bytes that the devices send

ASSUME ConsoleConstants ==
  IsFiniteSet(Procs) /\ Procs # {} /\ BufSize \in Nat \ {0, 1} /\ MaxBytes \in Nat

VARIABLES
  device,   \* bytes that wait in the serial port and in the keyboard
  sent,     \* bytes sent so far
  cons,     \* buf, rpos and wpos, and the number of characters put there
  cur,      \* the process that has the CPU
  pc,       \* where each process is
  saved,    \* FL_IF in its trap frame
  lock,     \* none, held, or held while it has given up the CPU
  reg,      \* cons.rpos in a register, between load and store
  last,     \* history: the character read last
  raced     \* history: a process began to read inside the read of another

vars == <<device, sent, cons, cur, pc, saved, lock, reg, last, raced>>

Sources == {"serial", "keyboard"}
Bytes == {"key", "silent"}    \* kbd_proc_data completes a character, or not
Garbage == 0                  \* what lies behind the buffer
Beyond == BufSize + 1         \* rpos has left the buffer
Inc(r) == Min({r + 1, Beyond})

TypeOK ==
  /\ device \in [Sources -> Seq(Bytes)] /\ sent \in 0..MaxBytes
  /\ cons.buf \in [0..(BufSize - 1) -> 0..MaxBytes] /\ cons.arrived \in 0..MaxBytes
  /\ cons.wpos \in 0..(BufSize - 1) /\ cons.rpos \in 0..Beyond
  /\ cur \in Procs /\ saved \in [Procs -> BOOLEAN]
  /\ pc \in [Procs -> {"user", "getchar", "test", "load", "store", "wrap", "unlock", "gone"}]
  /\ lock \in [Procs -> {"none", "held", "away"}]
  /\ reg \in [Procs -> 0..Beyond] /\ last \in 0..MaxBytes /\ raced \in BOOLEAN

Init ==
  /\ device = [s \in Sources |-> <<>>] /\ sent = 0
  /\ cons = [buf |-> [i \in 0..(BufSize - 1) |-> Garbage], rpos |-> 0, wpos |-> 0, arrived |-> 0]
  /\ cur \in Procs /\ pc = [p \in Procs |-> "user"]
  /\ saved = [p \in Procs |-> TRUE] /\ lock = [p \in Procs |-> "none"]
  /\ reg = [p \in Procs |-> 0] /\ last = 0 /\ raced = FALSE

-----------------------------------------------------------------------------
(* The devices and the buffer.                                             *)

(* Somebody strikes a key; only the keyboard sends bytes that complete no  *)
(* character.                                                              *)
Strike(s, b) ==
  /\ sent < MaxBytes /\ (b = "silent" => s = "keyboard")
  /\ sent' = sent + 1 /\ device' = [device EXCEPT ![s] = Append(@, b)]
  /\ UNCHANGED <<cons, cur, pc, saved, lock, reg, last, raced>>

(* Fault: the index is moved first.                                        *)
Put_MovedFirst(c) ==
  LET at == (c.wpos + 1) % BufSize
  IN  [c EXCEPT !.arrived = @ + 1, !.buf[at] = c.arrived + 1, !.wpos = at]

(* The body of the loop of cons_intr.  It does not look for a full buffer. *)
Put(c) ==
  [c EXCEPT !.arrived = @ + 1, !.buf[c.wpos] = c.arrived + 1, !.wpos = (@ + 1) % BufSize]

(* cons_intr: all that a device has.                                       *)
ConsIntr(c, s) == FoldLeft(LAMBDA d, b : IF b = "key" THEN Put(d) ELSE d, c, device[s])

(* keyboard_interrupt_handler, serial_interrupt_handler                    *)
DeviceInterrupt(s) ==
  /\ saved[cur] /\ pc[cur] # "gone" /\ device[s] # <<>>
  /\ cons' = ConsIntr(cons, s) /\ device' = [device EXCEPT ![s] = <<>>]
  /\ UNCHANGED <<sent, cur, pc, saved, lock, reg, last, raced>>

Empty(c) == c.rpos = c.wpos
At(i) == IF i < BufSize THEN cons.buf[i] ELSE Garbage

Others(p) == Procs \ {p}
Inside(p) == pc[p] \in {"load", "store", "wrap"}
Races(p) == raced \/ \E q \in Others(p) : Inside(q)

-----------------------------------------------------------------------------
(* A process.                                                              *)

Goes(p, from, to) == cur = p /\ pc[p] = from /\ pc' = [pc EXCEPT ![p] = to]

(* readline                                                                *)
CallReadline(p) ==
  /\ Goes(p, "user", "getchar")
  /\ UNCHANGED <<device, sent, cons, cur, saved, lock, reg, last, raced>>

(* Fault: interrupts are off in the processor only, until the call returns.*)
ConsLock_ProcessorOnly(p) == lock' = [lock EXCEPT ![p] = "held"] /\ UNCHANGED saved

(* cons_lock, as the first thing that atomic_readline does.                *)
ConsLock(p) ==
  lock' = [lock EXCEPT ![p] = "held"] /\ saved' = [saved EXCEPT ![p] = FALSE]

CallAtomicReadline(p) ==
  /\ Goes(p, "user", "getchar") /\ ConsLock(p)
  /\ UNCHANGED <<device, sent, cons, cur, reg, last, raced>>

(* After a character: the next one, or the end of the line.                *)
NextOrEnd(p) ==
  pc' = [pc EXCEPT ![p] = "getchar"] \/
  pc' = [pc EXCEPT ![p] = IF lock[p] = "none" THEN "user" ELSE "unlock"]

(* sys_cgetc with interrupts on.                                           *)
Cgetc(p) ==
  /\ saved[p] /\ Goes(p, "getchar", "test")
  /\ UNCHANGED <<device, sent, cons, cur, saved, lock, reg, last, raced>>

(* cons_getc2, instruction by instruction: the test, ...                   *)
Test(p) ==
  /\ Goes(p, "test", "load") /\ ~Empty(cons) /\ raced' = Races(p)
  /\ UNCHANGED <<device, sent, cons, cur, saved, lock, reg, last>>

Load(p) ==
  /\ Goes(p, "load", "store") /\ reg' = [reg EXCEPT ![p] = cons.rpos]
  /\ UNCHANGED <<device, sent, cons, cur, saved, lock, last, raced>>

(* ... cons.rpos++ and the character, ...                                  *)
Store(p) ==
  /\ Goes(p, "store", "wrap")
  /\ cons' = [cons EXCEPT !.rpos = Inc(reg[p])] /\ last' = At(reg[p])
  /\ reg' = [reg EXCEPT ![p] = 0]
  /\ UNCHANGED <<device, sent, cur, saved, lock, raced>>

(* Fault: an index that has left the buffer is set back one too late.      *)
Wrapped_Late(r) == IF r = Beyond THEN 0 ELSE r

Wrapped(r) == IF r = BufSize THEN 0 ELSE r

(* ... and the end of the buffer.                                          *)
Wrap(p) ==
  /\ cur = p /\ pc[p] = "wrap" /\ NextOrEnd(p)
  /\ cons' = [cons EXCEPT !.rpos = Wrapped(@)]
  /\ UNCHANGED <<device, sent, cur, saved, lock, reg, last, raced>>

(* Fault: without a look at the devices.                                   *)
Polled_BufferOnly == [c |-> cons, device |-> device]

(* The look at both devices at the start of cons_getc.                     *)
Polled ==
  [c |-> ConsIntr(ConsIntr(cons, "serial"), "keyboard"), device |-> [s \in Sources |-> <<>>]]

(* sys_cgetc with interrupts off: cons_getc until there is a character.    *)
Poll(p) ==
  LET c == Polled.c
      char == IF c.rpos < BufSize THEN c.buf[c.rpos] ELSE Garbage
  IN  /\ cur = p /\ pc[p] = "getchar" /\ ~saved[p]
      /\ device' = Polled.device
      /\ IF Empty(c) THEN cons' = c /\ UNCHANGED <<pc, last, raced>>
         ELSE /\ cons' = [c EXCEPT !.rpos = Wrapped(Inc(@))]
              /\ last' = char /\ raced' = Races(p) /\ NextOrEnd(p)
      /\ UNCHANGED <<sent, cur, saved, lock, reg>>

(* cons_unlock, as the last thing that atomic_readline does.               *)
CallUnlock(p) ==
  /\ Goes(p, "unlock", "user")
  /\ saved' = [saved EXCEPT ![p] = TRUE] /\ lock' = [lock EXCEPT ![p] = "none"]
  /\ UNCHANGED <<device, sent, cons, cur, reg, last, raced>>

(* The clock takes the CPU from a process, in user mode or in the kernel,  *)
(* and the scheduler gives it to another.                                  *)
Preempt(q) ==
  /\ saved[cur] /\ q # cur /\ pc[q] # "gone" /\ cur' = q
  /\ UNCHANGED <<device, sent, cons, pc, saved, lock, reg, last, raced>>

(* With the console locked a process makes a call that blocks it, once.    *)
GiveUp(p, q) ==
  /\ cur = p /\ pc[p] = "getchar" /\ lock[p] = "held" /\ q # p /\ pc[q] # "gone"
  /\ cur' = q /\ lock' = [lock EXCEPT ![p] = "away"]
  /\ UNCHANGED <<device, sent, cons, pc, saved, reg, last, raced>>

(* It ends, also with the console locked.                                  *)
Exit(p) ==
  /\ cur = p /\ (pc[p] = "user" \/ (pc[p] = "getchar" /\ lock[p] # "none"))
  /\ pc' = [pc EXCEPT ![p] = "gone"]
  /\ LET left == {q \in Others(p) : pc[q] # "gone"}
     IN  IF left = {} THEN UNCHANGED cur ELSE cur' \in left
  /\ UNCHANGED <<device, sent, cons, saved, lock, reg, last, raced>>

Reads(p) == Cgetc(p) \/ Test(p) \/ Load(p) \/ Store(p) \/ Wrap(p) \/ Poll(p) \/ CallUnlock(p)

Next ==
  \/ \E s \in Sources : DeviceInterrupt(s) \/ \E b \in Bytes : Strike(s, b)
  \/ \E p \in Procs : \/ CallReadline(p) \/ CallAtomicReadline(p) \/ Reads(p)
                      \/ Preempt(p) \/ Exit(p) \/ \E q \in Procs : GiveUp(p, q)

(* The scheduler serves every process (see Scheduler), for an instruction  *)
(* at least; a pending interrupt is taken.                                 *)
Fairness ==
  /\ \A p \in Procs : SF_vars(Reads(p)) /\ SF_vars(Preempt(p))
  /\ \A s \in Sources : WF_vars(DeviceInterrupt(s))

Spec == Init /\ [][Next]_vars /\ Fairness
-----------------------------------------------------------------------------
(* Properties.                                                             *)

(* As long as no two processes read at once without the lock, the unread   *)
(* characters are the latest that came, in their order; cons_intr and      *)
(* cons_getc2 are interleaved at every instruction.                        *)
BufferSound ==
  LET unread == (cons.wpos - cons.rpos) % BufSize
  IN  /\ TypeOK
      /\ ~raced => /\ cons.rpos <= BufSize
                   /\ \A i \in 0..(unread - 1) :
                        cons.buf[(cons.rpos + i) % BufSize] = cons.arrived - unread + 1 + i

(* Under the same condition a process that reads gets the next character,  *)
(* whoever read the one before.  What is lost, for want of a test for a    *)
(* full buffer, is as many characters as the buffer has, or several times  *)
(* that.                                                                   *)
NextCharacter ==
  [][last' # last /\ ~raced' => last' > last /\ (last' - last - 1) % BufSize = 0]_vars

(* A process that has the console, and has not given up the CPU itself,    *)
(* runs alone with interrupts off, in user mode too: nobody reads or       *)
(* prints in between.  Without the console, interrupts are on.             *)
LockHolds ==
  \A p \in Procs : pc[p] # "gone" =>
    /\ lock[p] = "held" => cur = p
    /\ saved[p] <=> lock[p] = "none"

Waiting(p) == pc[p] \in {"getchar", "test", "load", "store", "wrap"}
Unread == ~Empty(cons) \/ \E s \in Sources : device[s] # <<>>

(* When characters have come and a process waits for one, they are read,   *)
(* whether interrupts are on or off, unless nobody goes on waiting.        *)
KeysAreRead == Unread /\ (\E p \in Procs : Waiting(p))
                 ~> (raced \/ ~Unread \/ \A p \in Procs : ~Waiting(p))
==============================================================================
