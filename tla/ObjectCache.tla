---------------------------- MODULE ObjectCache ----------------------------
(***************************************************************************)
(* MemCache and ObjectCache: memory for objects of one size, kept in a     *)
(* cache per thread that spills full caches into a shared list and takes   *)
(* them back from there, and carved from a buffer per thread when there is *)
(* nothing to reuse.  An object is named by its buffer and its place in    *)
(* it.  Objects may be put back by another thread than the one that got    *)
(* them.                                                                   *)
(*                                                                         *)
(* A step is a critical section of a mutex or a stretch of thread-local    *)
(* code.                                                                   *)
(***************************************************************************)
EXTENDS Integers, Sequences

CONSTANTS
    CacheThreads,      \* threads that use the cache
    NumCacheObjects,   \* objects in a Cache
    NumBufferObjects,  \* objects in a Buffer
    MaxBuffers,        \* bound on the buffers that are allocated
    ObjectSizes,       \* the sizes of types
    NoCache            \* the null pointer

Objects == (1 .. MaxBuffers) \X (0 .. NumBufferObjects - 1)

ASSUME CacheAssumption ==
    /\ NumCacheObjects \in Nat \ {0}
    /\ NumBufferObjects \in Nat \ {0}
    /\ MaxBuffers \in Nat
    /\ ObjectSizes \subseteq Nat \ {0}
    /\ NoCache \notin Seq(Objects)

kPageSize == 4096
kWordSize == 8

\* (objsize + mask) & ~mask, for an alignment that is a power of two.
AlignedObjectSize(objsize, alignment) ==
    ((objsize + alignment - 1) \div alignment) * alignment

\* Whole pages, for at least sixteen objects.
EstimateBufferSize(size) ==
    LET fit == IF size < kPageSize THEN kPageSize \div size ELSE 16
        num == IF fit < 16 THEN 16 ELSE fit
    IN  ((num * size + kPageSize - 1) \div kPageSize) * kPageSize

EstimateNumOfBufferObjects(bufsize, size) == bufsize \div size

\* Buffer::get, from the beginning of the Buffer: its bytes follow its size.
BufferGet(i, size) == kWordSize + i * size

\* The memory of an object holds it and is aligned as the Buffer is, and a
\* buffer has sixteen of them or more.
SizesFit(objsize, alignment) ==
    LET size == AlignedObjectSize(objsize, alignment)
        bufsize == EstimateBufferSize(size)
        num == EstimateNumOfBufferObjects(bufsize, size)
    IN  /\ size >= objsize /\ size % alignment = 0 /\ size < objsize + alignment
        /\ num >= 16 /\ num * size <= bufsize /\ bufsize % kPageSize = 0
        /\ \A i \in 0 .. num - 1 : BufferGet(i, size) % alignment = 0

-----------------------------------------------------------------------------
VARIABLES
    singletons,   \* how often the MemCache was constructed
    cacheOf,      \* this_thread_data_.cache, a stack of objects
    bufferOf,     \* this_thread_data_.buffer: its name and size
    cacheList,    \* cache_list_
    bufferList,   \* buffer_list_
    buffers,      \* how many buffers were allocated
    held,         \* objects in the hands of users
    cacheAt,      \* where each thread is
    putArg,       \* the object it puts back
    atExit        \* is OnThreadExit among its exit callbacks?

cacheVars == <<singletons, cacheOf, bufferOf, cacheList, bufferList, buffers,
               held, cacheAt, putArg, atExit>>

NoBuffer == [id |-> 0, size |-> 0]
NoObject == <<0, 0>>

CacheInit ==
    /\ singletons = 0
    /\ cacheOf = [t \in CacheThreads |-> NoCache]
    /\ bufferOf = [t \in CacheThreads |-> NoBuffer]
    /\ cacheList = <<>>
    /\ bufferList = {}
    /\ buffers = 0
    /\ held = {}
    /\ cacheAt = [t \in CacheThreads |-> "user"]
    /\ putArg = [t \in CacheThreads |-> NoObject]
    /\ atExit = [t \in CacheThreads |-> FALSE]

CacheStep(t, here, there) ==
    /\ cacheAt[t] = here
    /\ cacheAt' = [cacheAt EXCEPT ![t] = there]

\* The thread's cache, made on first use; then AtExit gets its callback.
ThisThreadCache(t) == IF cacheOf[t] = NoCache THEN <<>> ELSE cacheOf[t]

\* The user wants an object, or hands one back.  If the first load of
\* singleton() finds no MemCache the thread will lock the mutex.
CacheBegin(t, obj) ==
    /\ CacheStep(t, "user", CASE singletons = 0 -> "create"
                              [] obj = NoObject -> "get"
                              [] OTHER -> "put")
    /\ putArg' = [putArg EXCEPT ![t] = obj]
    /\ obj # NoObject => obj \in held
    /\ held' = held \ {obj}
    /\ UNCHANGED <<singletons, cacheOf, bufferOf, cacheList, bufferList, buffers, atExit>>

\* Under the mutex it looks again before it constructs one.
CreatedUnderLock == IF singletons = 0 THEN 1 ELSE singletons

SingletonCreate(t) ==
    /\ CacheStep(t, "create", IF putArg[t] = NoObject THEN "get" ELSE "put")
    /\ singletons' = CreatedUnderLock
    /\ UNCHANGED <<cacheOf, bufferOf, cacheList, bufferList, buffers, held, putArg, atExit>>

\* get, up to path 1: the thread's own cache.
GetLocal(t) ==
    LET cache == ThisThreadCache(t)
    IN  /\ CacheStep(t, "get", IF cache = <<>> THEN "peek" ELSE "user")
        /\ atExit' = [atExit EXCEPT ![t] = TRUE]
        /\ IF cache = <<>>
           THEN /\ cacheOf' = [cacheOf EXCEPT ![t] = cache]
                /\ UNCHANGED held
           ELSE /\ cacheOf' = [cacheOf EXCEPT ![t] = SubSeq(cache, 1, Len(cache) - 1)]
                /\ held' = held \cup {cache[Len(cache)]}
        /\ UNCHANGED <<singletons, bufferOf, cacheList, bufferList, buffers, putArg>>

\* IsCacheListEmpty_Unsyn reads the list without its mutex: it may return
\* either answer.
PeekCacheList(t, empty) ==
    /\ CacheStep(t, "peek", IF empty THEN "buffer" ELSE "list")
    /\ UNCHANGED <<singletons, cacheOf, bufferOf, cacheList, bufferList, buffers,
                   held, putArg, atExit>>

RestOfList == SubSeq(cacheList, 1, Len(cacheList) - 1)

\* get, path 2: a full cache from the list takes the place of the empty one.
GetFromList(t) ==
    LET taken == cacheList[Len(cacheList)]
    IN  /\ CacheStep(t, "list", IF cacheList = <<>> THEN "buffer" ELSE "user")
        /\ IF cacheList = <<>>
           THEN UNCHANGED <<cacheOf, cacheList, held>>
           ELSE /\ cacheList' = RestOfList
                /\ cacheOf' = [cacheOf EXCEPT ![t] = SubSeq(taken, 1, Len(taken) - 1)]
                /\ held' = held \cup {taken[Len(taken)]}
        /\ UNCHANGED <<singletons, bufferOf, bufferList, buffers, putArg, atExit>>

BufferHasRoom(buf) == buf.size < NumBufferObjects

\* get, paths 3 and 4: the next object of the thread's buffer, or the first
\* one of a new buffer, the full one being listed for the destructor.
GetFromBuffer(t) ==
    LET old == bufferOf[t]
        fresh == old = NoBuffer \/ ~ BufferHasRoom(old)
        buf == IF fresh THEN [id |-> buffers + 1, size |-> 0] ELSE old
    IN  /\ CacheStep(t, "buffer", "user")
        /\ fresh => buffers < MaxBuffers
        /\ buffers' = IF fresh THEN buffers + 1 ELSE buffers
        /\ bufferList' = IF fresh /\ old # NoBuffer THEN bufferList \cup {old.id} ELSE bufferList
        /\ bufferOf' = [bufferOf EXCEPT ![t] = [buf EXCEPT !.size = @ + 1]]
        /\ held' = held \cup {<<buf.id, buf.size>>}
        /\ UNCHANGED <<singletons, cacheOf, cacheList, putArg, atExit>>

CacheHasRoom(cache) == Len(cache) < NumCacheObjects

\* put, path 1: into the thread's own cache, if that has room.
PutLocal(t) ==
    LET cache == ThisThreadCache(t)
        room == CacheHasRoom(cache)
    IN  /\ CacheStep(t, "put", IF room THEN "user" ELSE "spill")
        /\ atExit' = [atExit EXCEPT ![t] = TRUE]
        /\ IF room
           THEN /\ cacheOf' = [cacheOf EXCEPT ![t] = Append(cache, putArg[t])]
                /\ putArg' = [putArg EXCEPT ![t] = NoObject]
           ELSE UNCHANGED <<cacheOf, putArg>>
        /\ UNCHANGED <<singletons, bufferOf, cacheList, bufferList, buffers, held>>

\* Mutant: the object that did not fit goes nowhere.
SpilledCacheEmpty(t) == <<>>

SpilledCache(t) == <<putArg[t]>>

\* put, path 2: the full cache goes to the list, a new one gets the object.
PutSpill(t) ==
    /\ CacheStep(t, "spill", "user")
    /\ cacheList' = Append(cacheList, cacheOf[t])
    /\ cacheOf' = [cacheOf EXCEPT ![t] = SpilledCache(t)]
    /\ putArg' = [putArg EXCEPT ![t] = NoObject]
    /\ UNCHANGED <<singletons, bufferOf, bufferList, buffers, held, atExit>>

\* The thread ends.  OnThreadExit deletes its cache and, where the buffer is
\* meant, the null pointer in its place.  The name t is then another thread.
ThreadExits(t) ==
    /\ cacheAt[t] = "user"
    /\ atExit[t]
    /\ cacheOf' = [cacheOf EXCEPT ![t] = NoCache]
    /\ bufferOf' = [bufferOf EXCEPT ![t] = NoBuffer]
    /\ atExit' = [atExit EXCEPT ![t] = FALSE]
    /\ UNCHANGED <<singletons, cacheList, bufferList, buffers, held, cacheAt, putArg>>

CacheNext ==
    \E t \in CacheThreads :
        \/ \E obj \in held \cup {NoObject} : CacheBegin(t, obj)
        \/ SingletonCreate(t)
        \/ GetLocal(t)
        \/ \E empty \in BOOLEAN : PeekCacheList(t, empty)
        \/ GetFromList(t)
        \/ GetFromBuffer(t)
        \/ PutLocal(t)
        \/ PutSpill(t)
        \/ ThreadExits(t)

CacheSpec == CacheInit /\ [][CacheNext]_cacheVars

-----------------------------------------------------------------------------
\* For types of any size and of alignments up to a word, the default, a pointer
\* that Buffer::get returns is aligned, the object fits before the next one, and
\* none reaches past the buffer's pages.  (A larger alignment is not kept: the
\* bytes of a Buffer begin a word behind its own address.)
BuffersFit ==
    \A objsize \in ObjectSizes, alignment \in {1, 2, 4, kWordSize} :
        SizesFit(objsize, alignment)

\* Where an object is: in a user's hands, being put back by a thread, in a
\* thread's cache, in a listed cache.
Sites(obj) ==
    {p \in {<<"hands", 0, 0>>} : obj \in held}
    \cup {p \in {"put"} \X CacheThreads \X {0} : putArg[p[2]] = obj}
    \cup {p \in {"own"} \X CacheThreads \X (1 .. NumCacheObjects) :
            LET cache == ThisThreadCache(p[2])
            IN  p[3] <= Len(cache) /\ cache[p[3]] = obj}
    \cup {p \in {"listed"} \X (1 .. Len(cacheList)) \X (1 .. NumCacheObjects) :
            LET cache == cacheList[p[2]]
            IN  p[3] <= Len(cache) /\ cache[p[3]] = obj}

\* Has a buffer handed the object out yet?  A buffer of no thread is full or
\* was left by a thread that ended.
Uncarved(obj) ==
    \/ obj[1] > buffers
    \/ \E t \in CacheThreads : bufferOf[t].id = obj[1] /\ obj[2] >= bufferOf[t].size

\* Memory has one owner: no object is handed out twice, whichever threads get
\* and put and however their steps on the shared lists interleave; what a
\* buffer has not handed out yet is nowhere; and no object lies outside of
\* its buffer or over another, whatever the size of its type.
OneOwner ==
    /\ BuffersFit
    /\ held \subseteq Objects
    /\ \A obj \in Objects :
         /\ \A p, q \in Sites(obj) : p = q
         /\ Uncarved(obj) => Sites(obj) = {}

\* The assertion of get's path 2: a cache in the list is full.
ListedCachesAreFull ==
    \A n \in DOMAIN cacheList : Len(cacheList[n]) = NumCacheObjects

\* The racing first users of the cache construct one.
OneSingleton == singletons <= 1

\* The whole of it: the racing first users construct one cache; through every
\* step memory keeps its one owner and listed caches stay full; and memory is
\* lost only with the thread whose cache or buffer had it.
MemoryIsAccounted ==
    [][/\ OneSingleton' /\ OneOwner' /\ ListedCachesAreFull'
       /\ \A obj \in Objects : (Sites(obj) # {} /\ Sites(obj)' = {}) =>
             \E t \in CacheThreads : atExit[t] /\ ~ atExit'[t]]_cacheVars
=============================================================================
