# TLA+ models of cquery's index core and its Windows platform layer

This directory holds TLA+ models of the sources under `src/`. Each model comes
with TLC configurations that check it, and TLAPS proofs about it.

- `src/src/indexer.h` declares the in-memory index of one file:
  - `Id<T>` handles;
  - the `IndexType`, `IndexFunc` and `IndexVar` entities;
  - the `IdCache`;
  - the `IndexFile` and its language;
  - the `IndexFuncRef` text codec.
- `src/src/platform_win.cc` implements the named mutex, the scoped lock and the
  shared memory that worker processes use to coordinate on Windows.
- `src/unnamed/part_000` declares the cache-file API and contains nothing else.

## The system and how its parts interact

1. **Handles.** An `Id<T>` wraps a `RawId`, which is a `uint32_t`.
   - `Id()` is `Id(-1)`, the all-ones value.
   - `HasValue()` is false only for that value.
2. **Populating one IndexFile.** The parser fills one `IndexFile`, on one
   thread, through `ToTypeId` / `ToFuncId` / `ToVarId`. Each call is a
   get-or-create:
   - it looks the usr up in `IdCache::usr_to_*_id`;
   - otherwise it allocates `Id(vector.size())`, pushes the new entity, and
     fills both map directions.

   `Resolve(id)` is `&vector[id.id]`. Each declaration also promotes the file's
   `LanguageId` (`Unknown < C < Cpp < ObjC`).
3. **Serialization.** A finished file is serialized. Most fields go through
   the generated reflection. `IndexFuncRef` has a hand-written text form,
   `"[~]<id>@<range>"`:
   - the reader skips `~`;
   - it parses the id with `atol`;
   - it finds the range with `strchr(s, '@') + 1`.
4. **Cross-process coordination.** Worker processes hand results over through
   a named mutex and a named file mapping. Every Win32 call is followed by
   `CheckForError(allow)`. It reads `GetLastError()` and calls `exit(1)` unless
   the value is `ERROR_SUCCESS` or is in `allow`.

The bodies of `ToTypeId`, `Resolve`, the language update, `Range` and the
`Maybe<T>` reader are in files that are not among the sources (`indexer.cc`,
`position.cc`, `serializer.h`). Those definitions are modelled from the spec
and marked `spec_modelled` in `PROJECT.json`.

## Modules

| Module | Models | State | Actions |
|---|---|---|---|
| `IndexId` | `Id<T>`, `RawId`, `HasValue` (indexer.h:40-59) | – | `ToRawId` (unsigned conversion mod 2^RawIdBits), `InvalidId`, `ValidIds` |
| `IndexFile` | `IndexFile`, `IdCache`, `LanguageId` (indexer.h:484-553) | `entities[k]` (the three vectors as sequences of `[usr, id]`), `usrToId[k]`, `idToUsr[k]` (total maps with `NoId` / `NoUsr` for "absent"), `language`, `ret` (the handle the last `ToId` returned) | `ToIdFound`, `ToIdCreate` (together `ToId`, for each kind), `OnIndexDeclaration` |
| `IdentityMap` | the contract of `ToTypeId`/`ToFuncId`/`ToVarId` and of the language (indexer.h:504-553) | `handleOf[k][u]`, `last`, `language` | `Resolve` (bound handle, or any fresh valid one), `Classify` |
| `FuncRefText` | `IndexFuncRef` and its text form (indexer.h:93-156): `Encode`, `Decode`, `atol`, `strchr` | – (constants and operators) | – |
| `FuncRefCodec` | `Reflect(Reader&/Writer&, IndexFuncRef&)` as a cache of one reference | `written` (the reference last serialized), `text` (the cached string), `decoded` (what the reader produced) | `WriteRef`, `Corrupt` (a damaged cache string), `ReadRef` |
| `DefRecords` | `TypeDef`/`FuncDef`/`VarDefDefinitionData` and their `REFLECT_MEMBER` lists (indexer.h:78-85, 158-461); `WriteToCache`/`LoadCachedFile` (part_000) | `kind`, `def` (member name ↦ value), `edits`, `cache` (member name ↦ serialized value), `loaded`, `loadedFrom` | `SetField` (the parser), `Save`, `CorruptId` (a damaged id in the cache), `Load` |
| `PlatformWin` | platform_win.cc:13-109 | per process: `pc`, `handle`, `mapping`, `view`, `lastError`, `locks`, `waitResult`, `exitReason`; per kernel mutex object: `owner`, `abandoned` | `CreateMutex`, `CreateSharedMemory`, `Lock`, `Unlock`, `DestroySharedMemory`, `DestroyMutex`, plus the environment's `OtherCall` (a failed call elsewhere in the process), `Kill` and `Exit` |
| `MC*` | TLC instances | | |
| `IndexFileProofs`, `FuncRefTextProofs`, `FuncRefCodecProofs`, `DefRecordsProofs`, `PlatformWinProofs` | TLAPS proofs | | |

Each action models a whole handler, including what the handler calls.

- `ToIdCreate` does the id allocation, the `push_back` and both map inserts in
  one step.
- Each `PlatformWin` action is a whole constructor or destructor, including its
  `CheckForError` calls. When a check fails, the action ends in `Terminate`. On
  process exit the kernel then closes the process's handles and abandons every
  mutex it owned.

Strings in the codec are sequences of tokens:

- `Tilde` and `At`;
- integers, which stand for decimal numerals;
- members of `Locs`, which stand for serialized ranges.

`atol` is modelled by what it does: it takes the leading numeral, saturates it
to `[LONG_MIN, LONG_MAX]` of a `LongBits`-bit `long`, and returns 0 when there
is no numeral.

In `PlatformWin`, every Win32 call succeeds. What a successful call leaves in
`GetLastError()` is a nondeterministic choice between "unchanged" and "cleared",
because Win32 documents neither. The exception is `CreateMutex` and
`CreateFileMapping` on a named object (`CreateError`): they set
`ERROR_ALREADY_EXISTS` when the object existed and `ERROR_SUCCESS` when they
created it. The build is a constant: `Debug` means `assert` is compiled in.

In `DefRecords` a Def is a function from its `REFLECT_MEMBER` names to
values. Each member type has two values (texts, `int16_t`, enums), a
`Maybe<T>` is `None` or a value, and a vector has at most one element. An Id
is serialized as the number `Writer::Uint64` writes and read back through
`GetUint64` narrowed to a `UintBits`-wide integer and then to `RawId`. An
absent `Maybe<Id>` is written as null. A number read into a `Maybe<Id>` whose
`Id` fails `HasValue()` (the all-ones sentinel) is absent again
(`ReadMaybeId`). A callee goes through the text codec of `FuncRefText`.
The Def `operator==` are not modelled: the code that decides with them
(change detection, de-duplication) is outside the sources. `Save` and `Load` are
`WriteToCache` and `LoadCachedFile` for one entity's Def.

## Runs

| Run | Checks | Result |
|---|---|---|
| `index_file` (`MCIndexFile.cfg`) | `TypeOK`, `IdCacheConsistent`, `IdentityStable`, `ImplementsIdentityMap` | pass, 16,924 states |
| `funcref_codec` (`MCFuncRefCodec.cfg`) | `RoundTrip` | pass, 1,235 states |
| `funcref_codec_llp64` (`MCFuncRefCodecWin.cfg`) | `RoundTrip` | violation |
| `funcref_codec_corrupt` (`MCFuncRefCodecCorrupt.cfg`) | `DecodeNeverCrashes` | violation |
| `platform_win` (`MCPlatformWin.cfg`) | `MutualExclusion`, `OwnershipMatchesScope` | pass, 1,655 states |
| `platform_win_stale_error` (`MCPlatformWinExit.cfg`) | `NoSpuriousExit` | violation |
| `platform_win_abandoned` (`MCPlatformWinAbandon.cfg`) | `NeverAbandoned` | violation |
| `def_records` (`MCDefRecords.cfg`) | `RereadExact` | pass, 28,350 states |
| `def_records_wide_id` (`MCDefRecordsWide.cfg`) | `RereadExact` | violation |

### What the properties say

**`IndexFile`**

- `TypeOK`: beyond the types, every id handed out or cached is valid, i.e.
  allocation never reaches the `Id()` sentinel.
- `IdCacheConsistent` (spec section 3) has three parts:
  - for every kind, the two maps are inverse;
  - the i-th entity carries id i-1;
  - no cached id is out of the vector.
- `IdentityStable`: the handle `ToId` returned is the one cached for the usr,
  `Resolve` of it lands on an entity of that usr, and that entity is the only
  one with this usr.
- `ImplementsIdentityMap` (refinement): `IndexFile` implements `IdentityMap`
  under the mapping `handleOf <- usrToId`, `last <- ret`. Every `ToId` step
  is a `Resolve` step of the contract, and every declaration is a `Classify`
  step or a stutter. The contract includes that a cached usr keeps its
  handle and that the language only rises.

**`DefRecords`**

- `RereadExact`: a Def read back from the cache writes back to exactly the
  text it was read from. A reader that changes a value it accepted, by
  narrowing a number or by losing `is_implicit`, breaks this.

**`FuncRefCodec`**

- `RoundTrip` (spec section 8): a reference read back equals the one written
  under the member `operator==`, so `is_implicit` and the `-1` id are included.
- `DecodeNeverCrashes` (spec section 7): the reader survives any string.

**`PlatformWin`**

- `MutualExclusion`: two processes are never inside a scoped lock at the same
  time.
- `OwnershipMatchesScope`: the kernel owner of a mutex is exactly the process
  inside a scoped lock on it, and an abandoned mutex has no owner.
- `NoSpuriousExit`: `CheckForError` never stops a process whose calls
  succeeded.
- `NeverAbandoned`: the code's `assert(result == WAIT_OBJECT_0)` holds.

Every property of a passing run has a mutant in `PROJECT.json` that TLC finds
violating it. Each mutant is a plausible code bug:

- an id taken after the `push_back`;
- a missing reverse-map insert;
- a skipped cache lookup;
- a decoder that does not skip `~`;
- an unnamed mutex;
- a scoped lock that never releases;
- a Def reader whose callee decoding does not skip `~`.

### Findings

1. **`atol` on LLP64** (indexer.h:136). On Windows `long` has 32 bits, so
   `atol` saturates every id from 2^31 upwards, and such ids do not survive
   the round trip. The instance uses a 3-bit `RawId` and a 3-bit `long`, where
   ids 4..6 read back as 3.
2. **`strchr` without `@`** (indexer.h:137). A cached string with no `@` leads
   to `Range(NULL + 1)`. Corrupt cache data can therefore crash the reader,
   although the spec promises it is never fatal.
3. **Stale `GetLastError`** (platform_win.cc:14). `WaitForSingleObject`,
   `ReleaseMutex`, `MapViewOfFile`, `UnmapViewOfFile` and `CloseHandle` do
   not clear the last error when they succeed. Either of these terminates
   the process with `exit(1)`:
   - a failure code that other code of the process left behind reaches the
     next `CheckForError`. TLC's trace has four steps: create the mutex,
     create the shared memory, a failed call elsewhere, then take the lock.
     The process exits while owning the mutex, which is thereby abandoned;
   - the `ERROR_ALREADY_EXISTS` from opening the existing mapping survives
     `MapViewOfFile` and reaches `~PlatformSharedMemoryWin`'s
     `CheckForError({})`.
4. **Abandoned mutex** (platform_win.cc:56). A worker killed inside its lock
   scope abandons the mutex, and the next `WaitForSingleObject` returns
   `WAIT_ABANDONED`. Debug builds then abort that waiter as well, which
   abandons the mutex again. Release builds carry on with a buffer that may be
   half-written.
5. **Corrupt ids wrap** (indexer.h:80). `Reflect(Reader&, Id)` stores
   `GetUint64()` into the 32-bit `RawId`. A damaged cache whose id does not
   fit is accepted and read as that id modulo 2^32, a different and valid
   handle, while spec section 7 says corrupt data is discarded. The instance
   has a 3-bit `RawId` and a 5-bit `GetUint64`, and reads id 9 as 1.
   A damaged `Maybe<Id>` equal to the all-ones value is not discarded either:
   it reads back as absent (TLC confirms this with damage 7 on the same
   instance). This is why `NarrowCorrupt` below excludes the sentinel.

### Bounds and why they are enough

**`MCIndexFile`**: three usrs (symmetric) and `RawIdBits = 2`.

- Ids run 0..2 and the sentinel is 3, so each kind fills its id space exactly.
  This exercises the boundary where an off-by-one in allocation would hit the
  sentinel.
- Three kinds and four languages cover the cross-kind independence and every
  language promotion.
- `UsrBound` (fewer usrs of a kind than the sentinel) is assumed. So the
  instance shows that allocation fills the id space up to the sentinel, not
  what happens when a file has more than 2^32 - 1 entities of one kind.

**`MCFuncRefCodec`**: `RawIdBits = 3`.

- In the passing run `LongBits = 5`, which is wider than `RawId`.
- In the Windows run `LongBits = 3`, the same width as `RawId`.
- Corrupt strings are all token strings of up to 3 tokens over `~`, `@`, two
  ranges and the numerals {-1, 0, 9, 40}. These include numerals above the
  `RawId` range and above `LONG_MAX`, and strings with no `@`, with several
  `@`, and with `~` in the wrong place.

**`MCPlatformWin`**: two symmetric processes, each entering up to 2 lock
scopes.

- Two processes are enough for every pairwise interleaving of create, lock,
  kill and destroy: opening an existing mutex, abandonment and re-acquisition,
  and the last handle closing while another process reopens the object.
- The passing run has `Debug = TRUE`, so the assert branch is reached. The two
  violation runs have `Debug = FALSE`.

**`MCDefRecords`**: one range, handles {0, 1}, a 3-bit `RawId`, a 5-bit
`long` and `GetUint64`, and up to two parser writes.

- Each of the three Def kinds is an initial state.
- Every member can take its non-default value, and two writes reach Defs
  that differ from the default in two members.
- The damaged id is 5 in the passing run: it is a valid id but not a handle.
  In `def_records_wide_id` it is 9, which is wider than `RawId`.

No run assumes fairness: all the properties checked are safety properties.
Deadlock is checked. `Finished` is the only terminal stutter, reached when
every process has exited.

## Proofs (TLAPS)

`IndexFileProofs` proves these theorems for every `RawIdBits` and every finite
`Usr` with `Cardinality(Usr) <= InvalidId` (`UsrBound`):

- `TypeCorrect`: `Spec => []TypeOK`;
- `CacheConsistency`: `Spec => []IdCacheConsistent`;
- `IdentityStability`: `Spec => []IdentityStable`.

None of the invariants is inductive alone. Allocation needs two facts:

- `Len(entities[k]) < InvalidId`. This comes from the vector holding distinct
  usrs, which is part of `IdCacheConsistent`, together with `UsrBound`, through
  an injection into `Usr` (lemmas `DistinctUsrBound` and `NewIdValid`).
- `RetCached`: the last returned handle is still the cached one.

The inductive invariant is `IInv == TypeOK /\ IdCacheConsistent /\ RetCached`.
There is one lemma per action (`FoundIInv`, `CreateIInv`, `DeclIInv`).
`IdentityStable` follows from `IInv`.

`FuncRefCodecProofs` proves two results:

- `DecodeEncode`: `Decode(Encode(r)) = r` for every reference, when
  `InvalidId - 1 <= LongMax` (`WideLong`). This premise holds for a 32-bit
  `RawId` and a 64-bit `long`, and fails for a 32-bit `long`, which is finding 1.
- `RoundTripHolds`: `Spec => []RoundTrip` under the same premise, from the
  inductive invariant `RTInv`. `RTInv` says the cache holds the writer's text
  for the last reference written, and that anything read since is that
  reference.

Two assumptions, `RawIdBitsAssumption` and `LongBitsAssumption`, state
`2^w \in Nat \ {0, 1}` (respectively `LongMax \in Nat`) next to the widths. The
provers do not reason about `^`. TLC evaluates both assumptions on every run.

`IndexFileProofs` also proves `Refinement`:
`Spec => ImplementsIdentityMap`. The argument follows the refinement proofs
of the TLAPS examples:

- `InitRefines`: the initial state maps to the initial state of
  `IdentityMap`.
- `NextRefines`: under `IInv`, every step maps to a step or a stutter of
  `IdentityMap`:
  - `FoundRefines`: a cache hit is a `Resolve` of a bound usr.
  - `CreateRefines`: an allocation is a `Resolve` of an unbound usr. Its
    handle `NewId(k)` is valid and bound to no other usr of the kind
    (`NewIdFresh`). Freshness holds because every cached id is below
    `Len(entities[k])`.
  - `DeclRefines`: a declaration is a `Classify` step.

`FuncRefTextProofs` holds the codec lemma `DecodeEncode`: `Decode(Encode(r))
= r` when `WideLong` holds. `FuncRefCodecProofs` and `DefRecordsProofs` both
use it. The codec's operators live in `FuncRefText`, which has no
variables, so that `DefRecords` can extend it and share its constants.

`DefRecordsProofs` proves `RereadExactHolds`: `Spec => []RereadExact` for
every id width, under two premises:

- `WideLong`: every valid id fits in a `long`;
- `NarrowCorrupt`: a damaged id is a valid `RawId`, neither wider nor the
  all-ones sentinel.

Finding 5 shows that the second premise is needed, in both of its parts.

`RereadExact` alone is not inductive, because `Load` reads whatever the
cache holds. The inductive invariant `DInv` adds `CacheOK`:

- the cache is a function on the Def's members;
- each member holds what a write or a damage can put there (`CacheField`):
  a `Maybe<Id>` in `ValidIds` or `None`, a sequence of `RawIds`, or a
  sequence of writer texts.

The lemma `FieldRereads` shows that writing a member read from such a
value gives the value back. For ids this is because `ToRawId` is the
identity on `RawIds` and `HasValue` holds on `ValidIds`. For callees it is `DecodeEncode`. `WriteFieldShape`
shows that `Save` only writes such values. TLC also checked `DInv` as an
invariant of the `def_records` instance.

`PlatformWinProofs` proves two theorems for every finite or infinite set
`Proc` of processes, every `MaxLocks` and either value of `Debug`:

- `OwnershipMatchesScopeHolds`: `Spec => []OwnershipMatchesScope`;
- `MutualExclusionHolds`: `Spec => []MutualExclusion`.

`OwnershipMatchesScope` is not inductive alone. `Lock` reads
`owner[handle[p]]`, so the proof also needs to know which object a process's
handle names. `HandleInv` supplies this: a process holds a handle to the
named mutex exactly in the phases between `CreateMutex` and `DestroyMutex`,
and `NoHandle` otherwise. The inductive invariant is
`PInv == TypeOK /\ HandleInv /\ OwnershipMatchesScope`, and TLC also checked
it as an invariant.

The proof is one lemma per action. Every path that ends a process, whether
`Kill`, `Exit`, a failed `CheckForError` or the debug `assert` in `Lock`,
goes through `Terminate`. That case is proved once, in `TerminatePInv`, for
any owner map `own` that differs from `owner` only in the slots of the
process that ends. `MutualExclusion` then follows from `PInv`: two locked
processes both hold the named mutex, so both would be its single owner.

The assumptions are those of `PlatformAssumption`: the sentinels are
distinct from processes and `MaxLocks \in Nat`.

The TLAPS provers cannot reason about `ENABLED` or fairness, and none of the
runs checks liveness. The code justifies no liveness property:

- The index core never blocks and is driven by the parser.
- In `platform_win.cc`, callers outside these sources decide whether a
  process takes the lock at all.
- Windows documents no fairness among the waiters of a mutex.

Under weak fairness of each process's own steps, every process would exit.
That would only be because the model bounds the number of lock scopes, not
because of anything in the code.

Every invariant and temporal property of the passing runs is stated by a
proved theorem. `RoundTrip` and `RereadExact` are proved under their
premises, `WideLong` and `NarrowCorrupt`. The violation runs say which
premise fails on real platforms or for real damage. What stays with TLC
alone is what cannot be a theorem here:

- the counterexamples of the violation runs, which TLAPS cannot exhibit;
- the mutant runs.

The type invariants of `FuncRefCodec`, `DefRecords` and `PlatformWin` are
neither checked nor stated as theorems. What they say follows from the C++
types (a `RawId` field holds a `RawId`) or from a bound of the model
(`MaxLocks`), whatever the code does. `DefRecords.TypeOK` and
`PlatformWin.TypeOK` still serve as conjuncts of the inductive invariants
`DInv` and `PInv`.

## Not modelled, and why

- **`MAKE_REFLECT_STRUCT(IndexFunc::Declaration)` and the `Reflect` of a
  whole `IndexFile`.** Their members are Ranges, strings and vectors that no
  property tells apart from the Def members already modelled.
- **`GetCachedFileName`.** It is pure path formatting, and its body is not
  among the sources.
- **`Parse`, `ParseWithTu`, `NamespaceHelper`.** These are declarations of
  the external parser.
- **The contents of the shared buffer.**
- **`IndexFile::Resolve` pointers.** `IndexFile` resolves a handle to slot
  `id + 1` (`Slot`). The raw pointer and its lifetime across vector
  reallocation are not modelled, because no code in these sources holds one
  across a `ToId`.
- **The Def `operator==`.** Which members they compare is visible in
  indexer.h (193-201, 293-302, 422-428), but their users, change detection
  and de-duplication, are outside these sources, and spec section 9 leaves
  open which members equality must cover.
- **`GetWorkingDirectory`.** It is a stateless query. It returns the
  executable's path (`GetModuleFileName`) rather than the working directory.
- **The leaked file-mapping handle** (platform_win.cc:74). The model keeps
  the leaked handle: `mapping` stays set after `DestroySharedMemory`. No
  property states that a destroyed object releases its handle, because
  neither the spec nor a comment says so. The omission is one missing
  `CloseHandle`.

## Plan for later work

1. A `DefRecords` variant for the spec's first-write-wins and accumulate
   merge rules (spec section 4.3). Their code is in `indexer.cc`, so it
   would be modelled from the spec.
2. Composing `IndexFile` with `DefRecords`, so that a Def's ids are handles
   that `ToId` handed out, and `Load` checks them against the reloaded
   vectors (the spec's section 8 scenario).
