# TLA+ models of go-web3's `abi` package

This directory holds TLA+ models of the ABI codec and the ABI document loader
of `github.com/boolw/go-web3`, with the TLC configurations that check them.
`PROJECT.json` maps every modelled definition to the source lines it
translates. It also lists the runs, their mutants, the findings and the
hazards.

## The system and how its parts interact

| Part | Source | State and operations |
|---|---|---|
| Decoder | `src/abi/decode.go` | `Decode(t, input)`. It is a recursive descent over a `*Type`, and every read goes through `readSlice`, `readOffset` or `readLength`. It has no state of its own. |
| Type model | `type.go` (not in `src`) | `Type` records (`kind`, `size`, `elem`, `tuple`), with `isDynamicType` and `isVariableInput`. |
| Encoder | `encode.go` (not in `src`) | `Encode(v, t)`: the head/tail layout of the ABIv2 encoding. |
| Document loader | `src/unnamed/part_000` (`abi.go`) 38-141 | `NewABIFromReader` → `ABI.UnmarshalJSON`. It fills `Constructor`, `Methods` and `Events`. Overloads are renamed by `overloadedMethodName` and `overloadedEventName`. |
| Selector ids | `abi.go` 143-204, 341-362 | `Method.ID` and `Event.ID` compute lazily and cache their result in the object without a lock. `KeccakHash` and both ID functions take hashers from the shared `keccakPool` (`sync.Pool`). |
| Clone | `src/abi/clone.go` | Copies of `Type`, `Event` and `Method`. `Event.Clone` and `Method.Clone` copy the cached id field with plain loads. |
| JSON-RPC | `src/unnamed/part_001` | One RPC call per method. Pure I/O. |

These parts interact in three ways:

- **Loader and decoder.** The loader produces the `Method`s and `Event`s whose `Inputs`/`Outputs` types drive the decoder.
- **Ids and logs.** An event's id is the first log topic that `Event.Match` compares.
- **Shared hashers.** All hashing shares the pool across goroutines.
- **Clones and ids.** A clone copies the id cache of its original, which another goroutine's `ID` may be writing.

## Modules

- **`ABIType`** models the type records and `isDynamicType` (RECURSIVE). It is modelled from the spec, because `type.go` is not in `src`.
- **`ABIDecode`** models `decode.go`.
  - **Slices.** A Go slice is a view `[off, len]` of the caller's buffer `input`. `GoSlice` is Go's `s[lo:hi]`: it panics past the slice's capacity, and the capacity reaches to the end of `input`.
  - **Results.** Every function of the file is an operator returning a Result: `ok` with a value and a residual slice, `err`, or `panic`.
  - **Error order.** The checks happen in the order the code performs them: the slice, then the residual, then the value.
  - **Recursion.** `decode`, `tupleLoop` and `arrayLoop` are mutually RECURSIVE. `tupleLoop` and `arrayLoop` are the `for` loops of `decodeTuple` and `decodeArraySlice`.
  - **Scaling.** Words are scaled:

    | Quantity | Model | Code |
    |---|---|---|
    | Word | `WordBytes` = 2 | 32 |
    | Offset/length limit | `OffsetBits` = 8 | 63 |
    | Address | `AddrBytes` = 1 | 20 |
    | Function | `FuncBytes` = 1 | 24 |
    | Native integer widths | `{8}` | 8/16/32/64 |

    Every byte computation keeps the code's form: `32*size`, `[12:]`, `[len-1]`, `[24:32]`.
  - **The operation.** `Decode` is one step from `NotCalled` to the Result.
- **`ABIEncode`** is the encoder of spec §4.6. It is used only to produce well-formed inputs.
- **`ABIClone`** translates `Type.Clone` of `clone.go` as the RECURSIVE operator `Clone`. Its action `DecodeClone` is `Decode(t.Clone(), input)`.
- **`ABICodec`** composes the decoder and the encoder. `Init` picks a type and one of two inputs: the encoding of a value, or a raw byte string.
- **`ABIDocument`** models `UnmarshalJSON`.
  - `Step` is one iteration of the loop over `fields`. It has one action for each `case`: `Constructor`, `Function`, `Event`, the ignored types, and the unknown-type error.
  - `Finish` is the `return nil`.
  - `Reload` is `json.Unmarshal(doc, &a)` on a value that has already been loaded, possibly half-filled by an error. If the entries do not unmarshal (`abi.go:60-62`), it returns the error and leaves the value untouched. Otherwise it starts the loop again over fresh `Methods` and `Events` maps. `Constructor` is kept, as the code keeps it. `MaxLoads` bounds the reloads.
  - An entry's inputs and outputs are abstracted to its position `idx`. The stored `Method` or `Event` carries that position, which tells which entry ended up under which key.
- **`SelectorSpec`** is the promise: the digest model `Keccak` and `Expected(c)`, the value a call `c` must return. `SelectorCache` instantiates it for these operators.
- **`SelectorCache`** interleaves goroutines through `Method.ID`, `Event.ID` and `KeccakHash` at the granularity of their shared-memory accesses:
  - **Cache tests.** The event cache test reads the first 8-byte word of `e.id`; the method cache test reads `len(m.id)`.
  - **Pool operations.** `keccakPool.Get` returns a pooled hasher or a `New` one. A GC emptying the pool is the same as Get choosing `New`. `Put` returns a hasher.
  - **Hashing.** The hasher's buffered bytes are `hstate`. `Reset` clears them.
  - **Racy stores.** `copy(e.id[:], dst)` writes the four 8-byte words in any order. `m.id = …` writes the two words of the slice header in any order. The Go memory model lets a racy multiword read observe any mix.
  - **Clones.** `Event.Clone` and `Method.Clone` (`EvClone`, `MClone`) read the id words one per step, in any order, into the clone. `CloneID` is `ID` on the clone. The clone is private to its goroutine, so its cache test and return are one step, and a recomputed id is stored in it at `Release`. A clone's expected id is its original's, because `buildSignature` reads only the name and raw type strings, which `Clone` copies.
- **`EventLog`** models `Event.Match` and `Event.ParseLog` (`abi.go:249-265`).
  - `Type.ParseLog` and the emission of a log are written from spec §4.8, because `type.go` is not in `src`.
  - The decoder reads one buffer, so `input` holds the topic words and then `data`. The indexed topics are one view, decoded as a static tuple, which is the same as decoding each one-word topic in turn. `data` is the view after the last topic.
  - `Init` chooses the event whose `ParseLog` is called and a log emitted by any event (possibly another one). `ParseLog` is the one step.
- **`MC*`** modules define the model values and the finite inputs.

## Runs

Runs marked *violation* check one property and are expected to fail. Each such failure is a finding in `PROJECT.json`.

| Run | Checks | Result |
|---|---|---|
| codec_roundtrip | `TypeOK`, `RoundTrip` over six types: nested tuples, arrays of tuples, a slice of strings, bool/function/address/fixedbytes/int8, and a static tuple before a string. Values have payload lengths 1..3 and slice lengths 0..2. | pass |
| codec_empty_payload | `RoundTrip` with empty strings and bytes allowed | violation: `("","")` decodes its first element as the second length word (`readSlice` length 0 = "to the end") |
| codec_short_input_panic | `NoPanic` for `tuple(uint8,string)` on every raw input of 0..4 bytes | violation: `readOffset` slices `data[0:32]` past the end of a one-word input |
| codec_clone | `CloneRoundTrip`: decoding with `Clone(t)` the encoding made with `t` | violation: `tuple(a uint8, b bytes, int16[])` decodes under keys `0`, `1`, `2`, because `clone.go:16` does not copy names |
| codec_integer | `IntegerOfWord` for int8 and uint8 on every word over the bytes 0, 1, 127, 128, 255 | violation: `readInteger` reads only the last byte, so int8 of `0x0080` is -128, not a Range error for +128 |
| selector_distinct | `TypeOK`, `IDCorrect`. Two goroutines on distinct objects share two hashers. One calls `Event.ID`, `Event.Clone` then the clone's `ID`, and a hash. The other does the same with a method. | pass |
| selector_shared_event | `IDCorrect` with two goroutines on one event; the second may also clone it | violation: torn event id |
| selector_shared_method | `IDCorrect` with two goroutines on one method; the second may also clone it | violation: `len 4` read with a nil pointer |
| abidoc_overload | `OverloadInjective` on every document of ≤4 entries. Entries are functions named `send`/`send0` (view and nonpayable), an unnamed function, an event, a constructor, an error and an unknown type. The loaded value, whether the load succeeded or failed, may then be loaded once more with a document of ≤2 entries. | pass |
| abidoc_reload_constructor | `ConstructorOfDocument` on documents of ≤2 entries, loaded once more into the same value | violation: after a document with a constructor, loading the empty document ends `ok` with the old constructor. With `MaxLoads = 0` the property holds. |
| eventlog_parse | `LogRoundTrip` for ERC-20 `Transfer` and `Approval` (same inputs, different ids, two indexed addresses, a uint8 and a string in data) and an event with no indexed input, on every log any of them emits | pass |
| eventlog_anonymous | `LogRoundTrip` for an anonymous event with an indexed address | violation: `ParseLog` always runs `Match`, which compares the first indexed topic with the event id |

### Bounds

- **Codec words.** Two-byte words are enough: every rule of the layout is a function of the word size (offsets, length prefixes, right padding, the `32*size` check). Payloads of 1..3 bytes cover less than one word, exactly one word, and more than one word.
- **Codec types.** The six types nest a dynamic type inside a tuple inside an array. They also put a static tuple before a dynamic element, which exercises both cursor rules.
- **Documents.** Documents of four entries over two colliding names reach every renaming chain: `send`, `send0`, `send00`, ….
- **Events.** `Transfer` and `Approval` share their inputs, so only the id tells their logs apart. `Ping` has no indexed input, so its log is the id topic alone.
- **Selectors.** Two goroutines and two hashers are the smallest setting in which pool reuse, a shared hasher and a racing reader can all happen. Each goroutine's work has its object's `ID`, its clone and a hash, so a clone is taken both before and after the id is cached.
- **Reloads.** One reload is enough, because `Reload` discards the maps and `Constructor` holds at most one entry. Two entries in the second document let it rename an overload again.

### Fairness

No run checks liveness, so none assumes fairness. `Decode`, `ParseLog` and `UnmarshalJSON` are single calls. The steps of `ID`, `Clone` and `KeccakHash` are straight-line code that never blocks: `sync.Pool.Get` falls back to `New`. A liveness property that every call returns would therefore hold by the shape of the code, and it would say nothing about it.

### Properties considered and dropped

- **`AbstractSpec`**, the refinement of a one-step `SelectorSpec`. Its safety half is `IDCorrect`. Its liveness half holds for the reason above.
- **`OnlyOwnLogs`**: `ParseLog` of a named event succeeds only on that event's logs. For events with distinct ids, this restates `Match`'s `topics[0]` check. Events whose signatures differ only in `indexed` share their id. If their topic counts differ, one of the two decodes runs out of words and fails. If the counts are equal, no code can tell the logs apart. `PROJECT.json` lists this as a hazard without a property.

## Not modelled, and the plan

- **Not modelled now:**
  - `DecodeStruct`, which is the mapstructure conversion.
  - Signature strings. A signature is an opaque object whose digest is `Keccak(<<obj>>)`.
  - The type-string parser. It is character-level and out of scope for a model.
  - The JSON-RPC client, which is pure I/O.
  - Indexed reference-type event inputs. Their topic is a digest, and the spec returns it opaquely.
- **Known defects without a run.** The project is at its limit of twelve runs, and each violation needs a run of its own:
  - A tuple element named `"1"` collides with the positional key of an unnamed element 1 (`decode.go:237`). It is listed as a hazard.
  - The doc comment of `overloadedMethodName` (`abi.go:117`) says that with `send` and `send1` present, `send` becomes `send2`. The code, like spec §3, takes the smallest free suffix, `send0`. It is not checked: its run slot is given to the stale-`Constructor` run, which shows a code defect, not a comment error.
- **Callers.** A caller mutating the slice `Method.ID` returns is caller behaviour; no caller in `src` does it.
