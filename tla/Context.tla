------------------------------ MODULE Context ------------------------------
(***************************************************************************)
(* libcontext: jump_fcontext and make_fcontext, for each platform.  A jump *)
(* pushes the callee-saved registers on the stack of the context it        *)
(* leaves, stores the stack pointer, takes the other context's and pops    *)
(* that one's registers in its own order; make_fcontext lays out a stack   *)
(* as if its context had jumped away just before its function.             *)
(*                                                                         *)
(* Offsets count from the stored stack pointer: first an area for the      *)
(* floating point state, kept only if the jump is told to, then the        *)
(* registers, then the address to go on at.  mcast itself asks for 64 bits *)
(* (a static_assert in ServiceContext.cpp).                                *)
(***************************************************************************)
EXTENDS Integers, Sequences

CONSTANTS
    Contexts,   \* the thread's own context and those of services
    MainContext \* the context that runs first

ASSUME ContextsAssumption == MainContext \in Contexts

NotInArea == -1

\* The registers as they are pushed and as they are popped; the bytes below
\* them, what fresh contexts have more below, and where the floating point
\* state is.
JumpWindowsI386 ==
    [word |-> 4, area |-> 8, fresh |-> 0, fpu |-> 0,
     push |-> <<"ebp", "ebx", "esi", "edi", "tib0", "tib4", "tib8", "tibe0c", "tib10">>,
     pop |-> <<"tib10", "tibe0c", "tib8", "tib4", "tib0", "edi", "esi", "ebx", "ebp">>]

MakeWindowsI386 ==
    [o \in {0, 12, 16, 20, 24, 44, 48} |->
        CASE o = 0 -> "fpu" [] o \in {12, 16} -> "limit" [] o = 20 -> "base"
          [] o = 24 -> "handler" [] o = 44 -> "fn" [] o = 48 -> "finish"]

JumpWindowsX64 ==
    [word |-> 8, area |-> 8 + 168, fresh |-> 8, fpu |-> 168,
     push |-> <<"rbp", "rbx", "rsi", "rdi", "r15", "r14", "r13", "r12",
                "tib8", "tib10", "tib1478", "tib18">>,
     pop |-> <<"tib18", "tib1478", "tib10", "tib8",
               "r12", "r13", "r14", "r15", "rdi", "rsi", "rbx", "rbp">>]

MakeWindowsX64 ==
    [o \in {168, 192, 200, 208, 280, 288} |->
        CASE o = 168 -> "fpu" [] o \in {192, 200} -> "limit"
          [] o = 208 -> "base" [] o = 280 -> "fn" [] o = 288 -> "finish"]

JumpLinuxI386 ==
    [word |-> 4, area |-> 8, fresh |-> 0, fpu |-> 0,
     push |-> <<"ebp", "ebx", "esi", "edi">>,
     pop |-> <<"edi", "esi", "ebx", "ebp">>]

MakeLinuxI386 ==
    [o \in {0, 24, 28} |->
        CASE o = 0 -> "fpu" [] o = 24 -> "fn" [] o = 28 -> "finish"]

JumpLinuxX64 ==
    [word |-> 8, area |-> 8, fresh |-> 0, fpu |-> 0,
     push |-> <<"rbp", "rbx", "r15", "r14", "r13", "r12">>,
     pop |-> <<"r12", "r13", "r14", "r15", "rbx", "rbp">>]

MakeLinuxX64 ==
    [o \in {0, 56, 64} |->
        CASE o = 0 -> "fpu" [] o = 56 -> "fn" [] o = 64 -> "finish"]

JumpAppleX64 ==
    [word |-> 8, area |-> 8, fresh |-> 0, fpu |-> 0,
     push |-> <<"rbp", "rbx", "r15", "r14", "r13", "r12">>,
     pop |-> <<"r12", "r13", "r14", "r15", "rbx", "rbp">>]

MakeAppleX64 ==
    [o \in {0, 56, 64} |->
        CASE o = 0 -> "fpu" [] o = 56 -> "fn" [] o = 64 -> "finish"]

JumpAppleI386 ==
    [word |-> 4, area |-> 8, fresh |-> 0, fpu |-> 0,
     push |-> <<"ebp", "ebx", "esi", "edi">>,
     pop |-> <<"edi", "esi", "ebx", "ebp">>]

MakeAppleI386 ==
    [o \in {0, 24, 28} |->
        CASE o = 0 -> "fpu" [] o = 24 -> "fn" [] o = 28 -> "finish"]

\* push {lr} for the program counter, then push {v1-v8,lr}, which stores the
\* last register of the list first.
JumpLinuxArm32 ==
    [word |-> 4, area |-> 64, fresh |-> 0, fpu |-> 0,
     push |-> <<"lr", "v8", "v7", "v6", "v5", "v4", "v3", "v2", "v1">>,
     pop |-> <<"v1", "v2", "v3", "v4", "v5", "v6", "v7", "v8", "lr">>]

\* Mutant: the function and its return address in each other's place.
MakeLinuxArm32Swapped ==
    [o \in {100, 96} |->
        CASE o = 100 -> "finish" [] o = 96 -> "fn"]

MakeLinuxArm32 ==
    [o \in {100, 96} |->
        CASE o = 100 -> "fn" [] o = 96 -> "finish"]

\* Registers are stored by offset; d8 to d15 always are.
JumpLinuxArm64 ==
    [word |-> 8, area |-> 0, fresh |-> 0, fpu |-> NotInArea,
     push |-> <<"lr", "x29", "x28", "x27", "x26", "x25", "x24", "x23", "x22",
                "x21", "x20", "x19", "d15", "d14", "d13", "d12", "d11", "d10",
                "d9", "d8">>,
     pop |-> <<"d8", "d9", "d10", "d11", "d12", "d13", "d14", "d15", "x19",
               "x20", "x21", "x22", "x23", "x24", "x25", "x26", "x27", "x28",
               "x29", "lr">>]

MakeLinuxArm64 ==
    [o \in {160, 152} |->
        CASE o = 160 -> "fn" [] o = 152 -> "finish"]

\* LIBCONTEXT_PLATFORM_...
Platforms ==
    [windows_i386 |-> [jump |-> JumpWindowsI386, make |-> MakeWindowsI386],
     windows_x86_64 |-> [jump |-> JumpWindowsX64, make |-> MakeWindowsX64],
     linux_i386 |-> [jump |-> JumpLinuxI386, make |-> MakeLinuxI386],
     linux_x86_64 |-> [jump |-> JumpLinuxX64, make |-> MakeLinuxX64],
     apple_x86_64 |-> [jump |-> JumpAppleX64, make |-> MakeAppleX64],
     apple_i386 |-> [jump |-> JumpAppleI386, make |-> MakeAppleI386],
     linux_arm32 |-> [jump |-> JumpLinuxArm32, make |-> MakeLinuxArm32],
     linux_arm64 |-> [jump |-> JumpLinuxArm64, make |-> MakeLinuxArm64]]

-----------------------------------------------------------------------------
VARIABLES
    platform,
    cpu,       \* the registers a call must preserve
    onCpu,     \* the context that runs
    frame,     \* what is on the stack of each other context, by offset
    begun,     \* contexts whose function was entered
    goesTo,    \* the address the last jump went to
    ended,     \* has the thread gone back to its own context for good?
    kept       \* history: the registers each context has set

contextVars == <<platform, cpu, onCpu, frame, begun, goesTo, ended, kept>>

Jump == Platforms[platform].jump
Pushable == {Jump.push[i] : i \in DOMAIN Jump.push}
Registers == Pushable \cup {"fpu"}
\* Words on a stack or in a register are tuples.
Made(layout) == [o \in DOMAIN layout |-> <<layout[o]>>]
SetBy(c, n) == [r \in Registers |-> <<c, r, n>>]

ContextInit ==
    /\ platform \in DOMAIN Platforms
    /\ onCpu = MainContext
    /\ begun = {MainContext}
    /\ cpu = SetBy(MainContext, 0)
    /\ frame = [c \in Contexts |-> Made(Platforms[platform].make)]
    /\ goesTo = <<MainContext, "after jump">>
    /\ ended = FALSE
    /\ kept = [c \in Contexts |-> SetBy(c, 0)]

\* The running context uses its registers.
Compute ==
    \E n \in {0, 1} :
        /\ ~ ended
        /\ cpu' = SetBy(onCpu, n)
        /\ kept' = [kept EXCEPT ![onCpu] = SetBy(onCpu, n)]
        /\ UNCHANGED <<platform, onCpu, frame, begun, goesTo, ended>>

\* What the pushes leave on the stack; the call pushed where to go on.
Pushed(c, preserve) ==
    LET n == Len(Jump.push)
        words == {Jump.area + i * Jump.word : i \in 0 .. n}
        slot(o) == n - (o - Jump.area) \div Jump.word
    IN  [o \in words \cup (IF preserve THEN {Jump.fpu} ELSE {}) |->
            IF o \notin words THEN cpu["fpu"]
            ELSE IF slot(o) = 0 THEN <<c, "after jump">> ELSE cpu[Jump.push[slot(o)]]]

Content(f, o) == IF o \in DOMAIN f THEN f[o] ELSE <<"garbage">>

\* Where the i-th pop reads; a fresh context of Windows starts one word up.
PopOffset(i, isFresh) ==
    Jump.area + (i - 1) * Jump.word + (IF isFresh THEN Jump.fresh ELSE 0)

LoadsFpu(preserve) == preserve

jump_fcontext(d, preserve) ==
    LET isFresh == d \notin begun
        f == frame[d]
        n == Len(Jump.pop)
        popped(r) == CHOOSE i \in 1 .. n : Jump.pop[i] = r
        fpu == IF LoadsFpu(preserve) /\ Jump.fpu # NotInArea
               THEN Content(f, Jump.fpu) ELSE cpu["fpu"]
    IN  /\ ~ ended
        /\ d # onCpu
        /\ frame' = [frame EXCEPT ![onCpu] = Pushed(onCpu, preserve)]
        /\ cpu' = [r \in Registers |->
                     IF r = "fpu" THEN fpu
                     ELSE Content(f, PopOffset(popped(r), isFresh))]
        /\ goesTo' = Content(f, PopOffset(n + 1, isFresh))
        /\ begun' = begun \cup {d}
        /\ onCpu' = d
        /\ kept' = IF isFresh THEN [kept EXCEPT ![d] = cpu'] ELSE kept
        /\ UNCHANGED platform

\* System::SwitchTo and ThreadMain jump with the floating point state.
SwitchContext(d) == jump_fcontext(d, TRUE) /\ UNCHANGED ended

\* The last service of a worker goes back to its thread, without it.
LeaveThread ==
    /\ onCpu # MainContext
    /\ jump_fcontext(MainContext, FALSE)
    /\ ended' = TRUE

ContextNext ==
    \/ Compute
    \/ \E d \in Contexts : SwitchContext(d)
    \/ LeaveThread

ContextSpec == ContextInit /\ [][ContextNext]_contextVars

-----------------------------------------------------------------------------
\* The address a function returns to is the word above it, or in lr.
ReturnAddress(f, r) ==
    IF "lr" \in DOMAIN r THEN r["lr"]
    ELSE Content(f, PopOffset(Len(Jump.pop) + 2, TRUE))

\* A context that is jumped to goes on where it jumped away with the
\* registers it had, whatever the others did in between.
ContextKeepsRegisters ==
    /\ \A r \in Pushable \cup (IF ended \/ Jump.fpu = NotInArea THEN {} ELSE {"fpu"}) :
         cpu[r] = kept[onCpu][r]
    /\ goesTo \in {<<onCpu, "after jump">>, <<"fn">>}

\* Every jump arrives: in a context that has run, where it left off with its
\* registers; in a fresh one, in its function, which returns to finish and on
\* Windows finds the bounds of its own stack in the thread block.
JumpsArrive ==
    [][/\ ContextKeepsRegisters'
       /\ (onCpu' # onCpu /\ onCpu' \notin begun) =>
            /\ goesTo' = <<"fn">>
            /\ ReturnAddress(frame[onCpu'], cpu') = <<"finish">>
            /\ \A r \in {"tib4", "tib8"} \cap Registers :
                 cpu'[r] \in {<<"base">>, <<"limit">>}]_contextVars
=============================================================================
