------------------------------ MODULE Spinlock ------------------------------
(***************************************************************************)
(* The spinlock of libos, instruction by instruction: SpinlockAcquire,     *)
(* SpinlockTryAcquire and SpinlockRelease (synchronization/spinlock.c) and *)
(* the i386 code they call (arch/i386/_spinlock.asm).  Only the accesses   *)
(* to the lock word are steps of their own; the word is shared, eax is the *)
(* register of each CPU.  Stores of a release become visible at once: a    *)
(* delayed one only lets the others spin for longer.                       *)
(***************************************************************************)
EXTENDS Integers

CONSTANTS CPUs, Nobody

ASSUME NobodyIsNoCPU == Nobody \notin CPUs

VARIABLES
    lock,       \* the lock word: 0 free, 1 taken
    at,         \* where each CPU is: "out" of the code; before the "xchg" of
                \* acquire; in its busy-wait "loop"; or "in", between acquire
                \* and release
    eax         \* the register exchanged with the lock word

lockvars == <<lock, at, eax>>

(* SpinlockReset *)
LockInit ==
    /\ lock = 0
    /\ at = [c \in CPUs |-> "out"]
    /\ eax = [c \in CPUs |-> 0]

(* mov eax, 1 *)
Acquire(c) ==
    /\ at[c] = "out"
    /\ at' = [at EXCEPT ![c] = "xchg"]
    /\ eax' = [eax EXCEPT ![c] = 1]
    /\ UNCHANGED lock

(* xchg [ebx], eax; test eax, eax; je .gotlock                              *)
Xchg(c) ==
    /\ at[c] = "xchg"
    /\ lock' = eax[c]
    /\ eax' = [eax EXCEPT ![c] = lock]
    /\ at' = [at EXCEPT ![c] = IF lock = 0 THEN "in" ELSE "loop"]

(* A variant: eax is used for the test, and not loaded again.               *)
LoopClearsEax(c) ==
    /\ at[c] = "loop" /\ lock = 0
    /\ at' = [at EXCEPT ![c] = "xchg"]
    /\ eax' = [eax EXCEPT ![c] = 0]
    /\ UNCHANGED lock

(* cmp [ebx], 0; jne .lockloop; jmp .trylock.  eax is not loaded again: it  *)
(* still holds the 1 the failed xchg has given back.                        *)
Loop(c) ==
    /\ at[c] = "loop" /\ lock = 0
    /\ at' = [at EXCEPT ![c] = "xchg"]
    /\ UNCHANGED <<lock, eax>>

(* _spinlock_test: one xchg, and no waiting *)
TryAcquire(c) ==
    /\ at[c] = "out"
    /\ lock' = 1
    /\ eax' = [eax EXCEPT ![c] = lock]
    /\ at' = [at EXCEPT ![c] = IF lock = 0 THEN "in" ELSE "out"]

(* mov [ebx], 0 *)
Release(c) ==
    /\ at[c] = "in"
    /\ lock' = 0
    /\ at' = [at EXCEPT ![c] = "out"]
    /\ UNCHANGED eax

LockNext == \E c \in CPUs :
    Acquire(c) \/ Xchg(c) \/ Loop(c) \/ TryAcquire(c) \/ Release(c)

LockSpec == LockInit /\ [][LockNext]_lockvars

---------------------------------------------------------------------------
Inside == {c \in CPUs : at[c] = "in"}

LockTypeOK ==
    /\ lock \in {0, 1}
    /\ at \in [CPUs -> {"out", "xchg", "loop", "in"}]
    /\ eax \in [CPUs -> {0, 1}]

(* At most one CPU is inside; the lock word is 1 exactly while one is; and a *)
(* CPU about to exchange, for the first time or after waiting, has the 1 in  *)
(* its register: with a 0 there it would open the lock it takes.             *)
LockInv ==
    /\ \A c, d \in Inside : c = d
    /\ lock = IF Inside = {} THEN 0 ELSE 1
    /\ \A c \in CPUs : at[c] \in {"xchg", "loop"} => eax[c] = 1

MutualExclusion == \A c, d \in CPUs : at[c] = "in" /\ at[d] = "in" => c = d

M == INSTANCE Mutex WITH
        owner <- IF Inside = {} THEN Nobody ELSE CHOOSE c \in Inside : TRUE

(* To its callers the spinlock is a mutex. *)
ImplementsMutex == M!Spec
=============================================================================
