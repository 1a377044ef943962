# Verification of mcp-siyuan

TLA+ models of `mcp_siyuan`, the MCP server in front of a SiYuan kernel: model-checked with TLC on small
instances, and proved with TLAPS where the argument does not depend on the instance. Line numbers refer to
`src/mcp_siyuan/` unless a path says otherwise; `PROJECT.json` maps every definition to the lines it models.

## 1. The system

The server is one asyncio process. A tool is a coroutine; its only preemption points are its awaits, nearly all
of them an HTTP POST to the kernel through the module-level client `sy`. Several tools run at once, and the state
they share is: the client (headers, cookies, login flags), the replay cache, the health verdict and the ring
buffer of recent calls. Everything else lives in the kernel, which other clients edit too, and whose SQL index
follows its block tree asynchronously.

```
 MCP client --> traced_tool --> [confirmation] --> with_idempotency --> _call() --> sy.call --> SiYuan kernel
 /health, siyuan://status --> _probe_upstream -----------------------------------> sy.call --/  (tree, lagging index)
```

| Component | State it keeps | Operations | What is hard | What makes it correct | Modelled by |
|---|---|---|---|---|---|
| Replay cache `idempotency/cache.py` | TTLCache of (tool, key) -> result | `validate_key`, `get`, `put`, `with_idempotency` | overlapping calls, expiry, eviction, failures, restart | only genuine answers are replayed; fresh ones are; the size bound | `Idempotency`, `ReplayCache` |
| Kernel client `client.py` | auth header, session cookie, login flags | `call` (retry loop), `_login`, `close` | lost answers, repeats, racing 401s, cancellation | a write repeats only when excused; one login; bounded POSTs; every call ends | `KernelClient`, `KernelCall` |
| Destructive tools `tools/write.py` | none (kernel, cache) | `delete_block`, `delete_doc`, `remove_notebook`, `_confirm_destructive` | lagging index, faults taken for absence, replayed answers | consent, the right kind, an honest report, `require_empty` | `Deletes` |
| Section tools `tools/write.py` | none (kernel) | `upsert_section`, `append_to_section`, `_find_section` | many requests per call, stale listings, partial failure | the rest of the document is kept; no duplicate section; the section is exact | `Sections`, `Document` |
| Health probe `server.py` | last verdict and its time | `_probe_upstream`, `/health`, `/healthz`, `siyuan://status` | overlapping probes that end out of order | answers catch up with the kernel; bounded load | `UpstreamProbe` |
| Block update `tools/write.py` | none | `update_block`, `_split_blocks`, `_list_items`, `_is_list_item` | a chain of inserts, each anchored at the last, that breaks off anywhere | nothing is lost to the kernel's first-block rule; order; the rest is kept | `UpdateBlock`, `Document` |
| Document tools `tools/write.py` | none | `create_document`, `get_or_create_doc`, `move_doc`, `rename_doc`, `daily_note`, and `capture_task` of `tools/smart.py` | lookup before write over a lagging index; several requests of which a later one fails | one document per path; the result says what was done | `Documents` |
| Bulk tools `tools/write.py` | none | `bulk_create_documents`, `bulk_set_attrs` | items that fail in different ways | each item is reported at its place | `Documents` |
| Export `tools/export.py` | the converter's `skip_depth` and `tag_stack` | Protyle HTML to HTML, `export_*` | chrome nested in anything, elements without an end tag | the visible tags, all and only | `Protyle` |
| Tracing `observability/` | context variables, ring buffer | `traced_tool`, `append`, `snapshot` | overlapping calls, reused contexts, tasks of a group | records and marks are their own call's | `Tracing` |
| Other writes | none | `insert_block`, `append_block`, `move_block`; notebooks, attributes | what they do to a document that others are editing | no block is lost or disordered | the first three in `UpdateBlock`; the rest not modelled |
| Reading tools `tools/read.py`, `tools/smart.py` | none | `get_block`, `get_block_children`, `get_document_outline`, `get_doc_summary`, `search_with_context`; single queries | answers put together from requests of different moments, from the tree and from a lagging index | all that held throughout is in the answer, and nothing that never held | `Reads`; single queries not modelled |
| Config, auth, models, logging, usage, registration | static | read at start | - | - | not modelled: no transitions |

Beyond this table, `PROJECT.json` lists under "hazards" each place in the code where something can go wrong that a test
would hardly reach, and the properties aimed at it.

## 2. The models

### Idempotency and ReplayCache

A call is `idle`, then `calling` (past the lookup, inside `await call()`), `applied` (the kernel has performed its
work), and ends `returned`, `hit`, `failed` or `rejected`. `CallWithoutKey`, `RejectKey`, `Hit` and `Miss` are the
four ways through the lookup; `Return` stores and `Raise` does not. The TTLCache is modelled with both its mechanisms:
an entry is dead once `now >= expires`, and a full cache evicts the first of its order (`older`), which a hit moves to
the end; a hit does not prolong an entry. `Restart` empties it. `ReplayCache` is what a caller may rely on: a memory
of answers, each the answer of a call under that id, which may be forgotten at any time.

* `idempotency_safety`: four calls of two tools over a cache of two, with keys at each edge of `validate_key` (empty, of
  128 and 129 characters, with a space). `ReplayIsGenuine`: a replay is work done under the same tool and key. `FreshRetryIsReplayed`: a
  retry within the TTL and the working set never reaches the kernel. `FreshIsCached`: such an answer is never evicted, so the order
  of the list is right. `CacheIsGenuine`, `Bounded`, and `ImplementsReplayCache`. Three ids over two slots are the least
  for which the eviction order matters; the fourth call reuses an id.
* `idempotency_overlap` (violation): nothing marks a key as in flight, so a retry that overtakes its first call
  writes again. `FreshRetryIsReplayed` is therefore stated for retries that begin after the first call has returned.

### KernelClient

`call` is modelled to the step: `Start` sends a POST, `Serve`, `Refuse` and `Garble` are the ways it is answered,
then `MayLogin`/`Login`/`Repost` for a 401, `BackOff`/`WakeUp` for another attempt, `GiveUp`, `RaiseStatus` and
`ReadBody` for the ways out. A POST whose answer says nothing about its effect goes to `limbo`: the kernel performs it later
(`ApplyLate`), perhaps after the call has ended, or never. `mode` is what the kernel accepts (no auth, the
header, a session without the header, nothing). `Cancel` is an asyncio cancellation at any await.

* `client_all`: two calls of two attempts, every kernel, every fault, under `FairSpec`. `NoRepeatAfterVerdict` (the kernel
  performs a write again only after a POST whose verdict was lost), `ReportIsExact` (a call that lost none reports its effect),
  `LoginOnce`, `PostBudget` (attempts, plus one repost in the whole process), `SessionIsUsed` and `EveryCallEnds`. `ImplementsKernelCall`: all of it together is `KernelCall`. Two calls are
  enough for one to log in and the other to overtake it or come after it; any number of calls and attempts is covered by the
  proofs, except for liveness.
* Fairness: weak fairness of the network's answer and of each call's continuation. It is justified by httpx's 30 s
  timeout, which ends every request one way or the other, and by asyncio, which resumes a coroutine whose future is done
  and whose sleep is over. Late effects and cancellation get none.

`KernelCall` is what a tool may rely on, without network, login or retries: a call that returned has been performed; of one that raised nothing
is known, and the kernel may still perform it, and again; every call ends. The refinement maps a call's place to its status and
`applied` to `performed`. The modules of the tools are written against this contract: a request is done once and answered, or
breaks with or without effect. That a repeated POST is performed twice, or late, they leave to `KernelClient`.

A last attempt that ends with 502, 503 or 504 leaves through `RaiseStatus` as an `httpx.HTTPStatusError` and not as a
retryable `SiYuanError` (client.py:138), result `"http_5xx"`; what its client sees of that is in `Tracing`.

### Deletes

`present` is the kernel's tree, `rows` the ids the index has, `memo` the replay cache as `ReplayCache` promises it
(so this module is composed with that abstraction and not with the detailed cache). The tools are modelled request by
request: `GetBlockInfo`, `CheckType`, `FindRow`, `CountChildren`, `RemoveDoc` for `delete_doc`; `DeleteBlock`,
`RemoveNotebook`; around them `Abort`/`Proceed` for the confirmation, and `Return` for the store. A request may raise
`SiYuanError` with no verdict ("error"), which the tools mostly take for absence, or anything else ("raw"), which
leaves the tool.

* `deletes_safety`: any two calls on a block, its document and their notebook, all faults, a lagging index. `RemovalHasConsent` and
  `RefusalIsForgotten`: a refusal stops the removal and is never replayed. `ToolMatchesKind`: a tool removes only its own kind.
  `AnsweredIsGone`: what is reported deleted or absent is gone, as long as no request failed without a verdict
  (`broken`) and the index did not deny a document the tree has (`misled`). `EmptyIsChecked`: with `require_empty` no block goes with
  the document that the index had when it was asked; the others are in `unseen`. Three targets nested in one another are all the
  relations two removals can have; a third call could only repeat a pair.
* `deletes_cached` (violation): without the first condition not even the cache keeps its own rule.

The second condition is needed because `FindRow` takes a missing row for a missing document (write.py:1002): a document created a
moment ago is reported absent and stays. `require_empty` is no better than the index and the time between `CountChildren` and `RemoveDoc`:
a block not indexed yet, or written in between, goes with the document, and so do documents below it, whose blocks the query does not count
(`Own`). `EmptyIsChecked` says that nothing else does.

### Document and Sections

`Document` has the operators by which the tools see a document: a flat sequence of blocks, headings among them,
with `Section`, `InsertAfter` and `Without` for getChildBlocks, insertBlock and deleteBlock. It also declares what `Sections` and
`UpdateBlock` have in common: the document, the calls and their places. `Sections` runs several
calls over one document. Between `ReadSection` (the blocks are listed once) and the last write the document changes
under a call; `rows` is the index's idea of the headings. `Fail` is a request that raises, with or without effect; a failed
deletion of `upsert_section` is swallowed (`DeleteBlock`).

* `sections_safety`: two calls, overlapping or one after the other, every fault, a lagging index, one heading edited or added by someone else.
  `FrameIsKept`: nothing outside the sections the calls settled on is deleted or moved. `NoDuplicateSection`: as long as calls of one
  name do not overlap (`OneByOne`) and no other client edits a heading, no section is created twice, though the index lags and calls fail halfway. `SectionIsExact`: a call
  beside which no two calls shared blocks (`clash`), and none of whose deletions failed (`botched`), leaves its section just as it
  reports, while the sections around change.

Two calls share blocks (`Shares`) if they name one section, if one section is within the other, or if one that is still to be created
would be: a last section that ranks above `heading_level` reaches to the end of the document (`Encloses`), where upsert_section creates.

The conditions are those of the code: two overlapping upserts of a missing section both find none and both create it (write.py:723),
and a deletion that fails is logged and skipped, with the result still "replaced" (write.py:748).

The document's last section holds two nested ones, the first of them with a block, and a created section is within it (`NewLevel`);
the other call deletes, inserts and creates beside, within and behind it. Headings in containers are left out.

### UpstreamProbe

Checks read the verdict (`Cached`) or probe (`StartProbe`, then `Reachable`, `ProbeFails` or `TimesOut`), and store the
outcome with the time the probe *started*, replacing whatever is there. "Up" means that the kernel answers within the
timeout; `Saw` lets a probe that spans a change see either. `Tick` stops at a probe's deadline, as `wait_for` does. `CancelCheck` is
a check cancelled at its await: a `CancelledError` passes the handlers (server.py:373, 377), nothing is stored, and as `checked_at`
stays old the next check probes at once.

* `probe_safety`: `VerdictCatchesUp` and `LoadIsBounded`, two checks reused over two intervals, from a host that booted less than
  an interval ago, when the initial verdict is served. `LoadIsBounded` bounds what follows a probe that was not cancelled (`ended`);
  with Ttl 4 and Timeout 1 it excludes a gap of 2 seconds. Cancelled probes bound nothing.
  A burst holds one probe per check that overlaps it: nothing marks a probe as under way (server.py:362).

### UpdateBlock

`updateBlock` keeps only the first block of what it is sent, so `update_block` replaces the target with the first part
(`UpdateFirst`) and inserts the others one by one, each after the one before (`InsertNext`). Whether the data are items for
an item, or go to the document as a whole, it asks first (`IsListItem`, `IsRoot`); `UpdateWhole` is the case of one request. A call
ends `ok`, `partial` (the kernel did not say which block it inserted), `unsure` (it could not find out what the target is) or
`failed`. Between two requests others update the same block, a block inserted a moment ago, or replace the whole body;
`insert_block` and `append_block` (`InsertOne`) and `move_block` (`MoveOne`) add and move blocks between them.

The data have one of four shapes: `blocks`, one `list` of several items, `dom`, and `mixed`, several blocks of which the first is a list of several
items. Items are looked for only if the list is all of the markdown (write.py:291). So of `mixed` data for an item the first part is the
whole list, of which the kernel keeps one item (`IsCut`; `cut` has the calls to which this happened).

* `update_safety`: two calls of the four tools, with up to three parts, on either of three blocks or the document, every fault, one edit by another
  client. `OrderIsKept`: what `update_block` has written stands behind its target in the order of its data, unless one of these blocks is moved.
  `RestIsKept`: no other block is lost, moved or changed. `OkIsWhole`: `ok` means every part was taken, once and in order, and whole but for
  a list of `mixed` data, and a partial count is right. Three parts are needed: the second insertion is the first whose anchor is not the target. Three blocks are the least among
  which a move can go past another.

`OkIsWhole` does not say that nothing is lost, because of this code that is false: "- a\n- b", an empty line and "text", sent to an item, is answered
`ok`, and "b" is lost (5). It says that there is no other such case.

A failed call leaves the first parts in place, and an identical retry inserts the later ones once more; no property
claims otherwise, and neither does the tool.

### Documents

Documents have a path (parent and title), which need not be unique; `rows` is what the index has; another client may close a notebook. Eight
tools share one set of requests: `Lookup`, `Finish` (the last request of four of them), `Move` and `Retitle`, `ListNotebooks` and
`OpenDailyNote`, `BulkItem`. `Refuses` is the kernel's answer about a document that is gone or a notebook that is closed, `Fail` an exception
that the tool lets pass, `Cancel` a client that goes away.

* `documents_safety`: two calls of any tool, one notebook with a parent document, one document at first, batches of two, one removal or closing.
  `UpsertIsIdempotent`: an undisturbed `get_or_create_doc` (alone, with a current index) leaves one document at its path, also as the retry of
  a call whose answer was lost. `ReportIsExact`: what the result says was done was done, each item of a batch at its own place; a captured task is
  in the note, though the note is made by a request of its own.

### Reads

One document is a tree of blocks (`kids`, `text`), the index (`rows`) what it was at some moment since. One call of a reading tool runs
request by request, and other clients rewrite, discard or move blocks between any two (`Rewrite`, `Discard`, `MoveTo`). `get_block` is
`GetRow`, `GetMarkdown`, `GetInfo`; `get_block_children` goes on from there with `ListChildren`, one per task and in any order, since the tasks of
a level interleave; `get_document_outline` is `ListDirect` and `QueryHeadings`; `get_doc_summary` is `FindDocument`, `CountChildren` and
`FirstBlocks`; `search_with_context` is `Search` and `QuerySiblings`. `past` has the states since the call began.

No state of the kernel need ever have been what such an answer shows. The properties ask of it what one asks of a read that overlaps
writes: what held throughout is there, and what never held is not.

* `reads_safety`: a document of four blocks, headings, a container and an empty block among them, two edits, an index that is behind or has nothing at first.
  `BlockIsRegular`: the markdown is the kernel's at some moment, or the index's if the kernel gave none; a block is denied only if neither had it.
  `TreeIsRegular`: each listed node has the children that stayed, once and in order. `OutlineIsRegular`: no heading comes twice or is lost
  before the limit though tree and index disagree. `SummaryIsRegular`: the count and the first blocks are of the same children.
  `ContextIsRegular`: a hit stands in its window, with neighbours below the same parent. Two edits are the least for a block to leave
  one node and come to another, or to change and be indexed, within a call.

Left out: ids refused for their characters, and documents with more headings than the LIMIT 200 of the outline's query.

### Protyle

The converter is a machine over the parser's events: `HandleStart`, `HandleEnd`, `HandleData` on `out`, `skip_depth` and
`tag_stack`. The input is any nesting of chrome, wrappers, visible elements, texts and elements without contents. `clean` is the output
by definition: what has no chrome around it.

* `protyle_safety`: `OutputIsExact` over every input of six events, two visible tags. Six suffice for chrome in
  chrome in an element, with text after it.

The property excepts inputs where an element without contents leaves the stack wrong (`upset`): `<input>` or `<col>` is pushed and never popped;
`<br>` and `<img>` are written and not pushed, so `<br/>` and `<img/>`, a start and an end to the parser, pop the element around them; in chrome,
where every start tag counts, those without a slash deepen `skip_depth` for good. Texts are compared as the parser decoded them: `handle_data` writes
what a character reference stood for, unescaped (`Decoded`).

### Tracing

A call gets a context at `Start`, which sets `request_id` and clears `kernel_status`; calls that overlap have contexts of their own, a
later call may get one as an earlier call left it. `Request` sets the status as client.py does, and may end
the call with that error; `End` is any other end. `Fork`, `KidRequest`, `KidCancelled` and `Join` are `get_block_children`'s
task group, whose tasks run in copies of the context, where the client sets their statuses. `Conclude` writes the record to the ring buffer and the mark to
the error.

* `tracing_safety`: three calls, two contexts, groups of two, `SIYUAN_DIAG_BUFFER_SIZE` = 0, so that every second record displaces one. `LinesAreOwn`: every log line of a call
  has its id. `StatusIsOwn`: its record has the last status its own task got. `BufferIsRecent`: the buffer has the latest
  records in the order of the ends, and there is one per call. `ErrorLeadsToRecord`: a mark on an error leads to the record of a
  failed call, and `[retryable]` only to one whose last request failed in a transient way (no answer, or 502, 503, 504).

Two converses do not hold of this code and are not claimed: a 502, 503 or 504 that ends a call is not marked `[retryable]` (`ErrorFor`), and what the
kernel answered a task of a failed group is not in the record (`KidRequest` sets the copy's status, `Join` records the call's). Both are among the
findings (5).

## 3. Runs and bounds

| Run | Instance | Distinct states |
|---|---|---|
| `idempotency_safety` | 4 calls, 2 tools, 5 keys, 2 slots, TTL 2, 3 ticks | 0.14 million |
| `client_all` | 2 calls, 2 attempts, 4 kernels, 6 faults | 77 thousand |
| `deletes_safety` | 2 calls, 3 targets, 1 key | 4.0 million |
| `sections_safety` | 2 calls, 5 blocks, 3 names, 1 edit | 2.3 million |
| `probe_safety` | 2 checks, 8 ticks from 2 seconds after boot | 0.85 million |
| `update_safety` | 2 calls, 3 parts, 3 blocks, 1 edit | 2.3 million |
| `documents_safety` | 2 calls, 2 folders, 2 titles, batches of 2, 1 removal | 4.1 million |
| `reads_safety` | 1 call, 4 blocks, depth 2, limits of 2, 2 edits | 2.2 million |
| `protyle_safety` | 2 tags, 6 events | 0.8 million |
| `tracing_safety` | 3 calls, 2 contexts, 2 tasks, capacity 1 | 0.12 million |

Every bound is named: `MaxTime` (Idempotency and UpstreamProbe), `Edits` (Sections, UpdateBlock, Reads),
`MaxParts`, `MaxItems` and `Removals`, `MaxEvents`, the finite sets of calls. Calls
are used once each, except checks. `CHECK_DEADLOCK FALSE` everywhere: a run really ends when all calls have ended
and time is up. Calls, tools and good keys are interchangeable and declared symmetric where a run has no liveness property.

## 4. Proofs

For every value of the constants that satisfies the modules' assumptions:

* `IdempotencyProofs`. The invariant is `IInv`. `Bounded` and `FreshIsCached` are not inductive: which entry is evicted depends on the
  order of the list, so `IInv` adds that `older` is a total order on the cached ids and agrees with the history of
  use. `LastReturned` and `Answers` tie stored values to calls that returned them. From it follow type correctness,
  `CacheIsGenuine`, `ReplayIsGenuine`, `FreshIsCached`, `Bounded`, `FreshRetryIsReplayed`, and, with the refinement mapping of
  `Idempotency` to `ReplayCache`, `ImplementsReplayCache`.
* `KernelClientProofs`. `IInv` accounts for POSTs: what a call has sent, lost, left in limbo and had performed add up
  (`Accounts`, `Shape`), the login count and the flag agree (`LoginCount`), attempts bound the POSTs (`Budget`) and the header is
  gone once the login is over (`HeaderDropped`). From it: `LoginOnce`, `PostBudget`, `NoRepeatAfterVerdict`, `ReportIsExact`, `SessionIsUsed`,
  and, step by step, that the client implements the safety part of `KernelCall`.
* `KernelClientProofs` has those of `UpstreamProbe` too, the other user of the client's connection. The invariant is `ProbeInv`. Two facts do the work: a stored outcome that is wrong now was stamped before the kernel last
  changed (`WrongIsOld`), and each probe that was not cancelled has left `checked_at` at most a timeout before its start
  (`ProbesAreStamped`). With the deadline of a probe they give `VerdictCatchesUp` and `LoadIsBounded`. The assumption is Timeout < Ttl.
* `ProtyleProofs`. The invariant is `Shares`: `tag_stack` holds the open elements outside the outermost skipped one, and `skip_depth`
  counts that one and all within. With it, for inputs of every length and depth, `TypeOK` (`skip_depth` never falls below zero) and `OutputIsExact`,
  the inputs that upset the stack excepted.

* `TracingProofs`. The invariant is `Owns` (the context of a call under way holds its id and its last status; as two calls cannot both have
  their id in one context, contexts are disjoint), `Recorded` (one record for each call that has ended) and `Recent` (the buffer is the log's end, place by place).
  From it all five invariants of the run, for any number of calls, contexts and tasks and any buffer size.

* `DeletesProofs`. The invariant has three parts: `Shape` (what a call's place says of its tool, its target's kind and its user's reply), `Memory`
  (a cached answer is the successful answer of a finished call under the same tool and key) and `Removers` (who removed something was let
  through and used the right tool). `AnsweredIsGone` is inductive with them, as what is gone never comes back: a replayed success is
  traced to the call that stored it. From it the four properties, for any calls, keys, faults and any nesting of targets.
  `EmptyIsChecked` has an invariant of its own on top, `Emptied`: from the count to the removal, what is in the document is in `unseen`.

* `EditingProofs`, for `Sections` and `UpdateBlock`. Both rest on lemmas about a document as a sequence with distinct ids:
  what stands before what (`Order`) after blocks are spliced in (`SpliceBlocks`) or taken out (`WithoutBlocks`), and which blocks a
  section has (`SectionIs`).
  * For `Sections` the invariant is `SectionsInv`. `FrameIsKept` speaks of the sections of the first document, but calls delete what they saw
    later: a section may have grown, or reach past a heading that is gone. So the invariant says that ids are new (`Fresh`), levels do not change
    (`SameLevels`), new headings stand behind all blocks of the first document (`NewLast`), these keep
    their order (`OrderOfRest`), and what is gone of them or on a list to delete was in the first section of a heading that some call settled on
    (`OnlyLost`). From it
    `TypeOK` and `FrameIsKept`. `NoDuplicateSection` needs `Unrivalled` as well: while calls of one name do not overlap, a call that is about to
    create a section is the only one with its name, and there is no heading of that name.
  * `SectionIsExact` needs `SectionsApart` on top: at any moment the calls at work are all in `clash` or none (`AllOrNone`); any two
    that are not have sections of which neither is within the other, nor will be once one is created (`Separate`); and each has in hand what
    its section holds now (`InHand`): its list has the section's blocks, each once, its anchor is the section's last block (`Tip`), and
    the heading it settled on, if still there, has the name it was asked for (`RowsAgree`: an index row that is not stale by another client's edit
    agrees with the tree). The work is to show that a call's write keeps every other separate section as it is (`AsideWrite`), block
    by block: `Spans` fixes where a section begins and ends, and the lemmas on removal, insertion and creation say how the
    places of a section that is aside (`Apart`), and of the call's own, change.
  * For `UpdateBlock` the invariant is `UpdateInv`: the list of what a call has written stands behind its target in order, with the anchor at its end
    unless one of them was moved, and a call's place and list fix how many parts were taken. From it `UpdateTypeOK`, `OrderIsKept`,
    `RestIsKept` and, with `CutKnown` (nothing is cut but lists of `mixed` data), the action property `OkIsWhole`, for data of any number of parts.
* `DocumentsProofs`. The invariant is `Shape`: each place in a tool fixes what was written so far, and `Tallies` says that a batch's reports and
  writes agree item by item. From it `TypeOK` (no id is used twice) and `ReportIsExact`, for batches of any length. With
  `Settled` (an undisturbed call is alone, asks a current index, and what it learned of its path stays so) it gives
  `UpsertIsIdempotent`.
* `ReadsProofs`. The invariant: siblings never repeat, and `past` has the state of now (`History`); what `get_block` has so far
  was so in a state of `past` (`BlockSoFar`), and so was the list of each node that `get_block_children` has expanded, whose paths form a tree
  (`TreeSoFar`); an outline begins with the headings of one moment (`OutlineSoFar`), a summary's count is that of one moment (`SummarySoFar`),
  a hit that was asked about stands in its window (`ContextSoFar`). The lemmas are about sequences without repetition (`SubSeq`, `RemoveFirst`,
  `InsertAt`, for moves and discards), about listing a set in order (`Listing`), cutting a concatenation (`CutConcat`) and windows (`WindowIs`).
  From it all five invariants of the run, for any document, depth, limits and edits.

Model-checked only: `EveryCallEnds` and the fairness in `ImplementsKernelCall` (liveness is beyond the prover). Every other
property of a passing run has its theorem. None of the proofs assumes more than the ASSUMEs of the module it is about.

## 5. Findings

Two runs show the code doing what a comment, a docstring or the documentation says it does not. `PROJECT.json` has the quotations.

| Run | What happens |
|---|---|
| `idempotency_overlap` | a retry during the first call writes a second time |
| `deletes_cached` | an unreachable kernel becomes a cached success |

The models contain further behaviours of the code that a reader of its documentation may not expect. They have no run of
their own; the properties above are stated so that they hold beside them.

* Of a list of several items with another block behind it, sent to a list item, `update_block` keeps the first item only and returns `ok`: items are looked for only in
  markdown that is one block (write.py:291, 304-306), while its docstring says that the rest is inserted, in order (write.py:275-279).
* A 502, 503 or 504 on the last attempt surfaces as an `httpx.HTTPStatusError` without `[retryable]` (client.py:138), while README.md:137 and
  tracing.py:82 say that these carry the marker, and tests/test_client.py:83 calls a persistent 503 "a retryable HTTPStatusError".
* When a task of `get_block_children`'s group fails, the record has the status of the request before the group: the task's own is set in a copy of the
  context (smart.py:276), while openspec/specs/request-observability/spec.md:37-39 says that the record has the kernel's status.
* A 401 that arrives while another call logs in fails its call, which would have succeeded a moment later (client.py:108 against client.py:42).
* A login that is cancelled or fails in transit leaves the process without a session until it restarts (client.py:110).
* `retryable` is set when the answer was lost, though the kernel may have performed the write, while
  client.py:34 and README.md:137 call an identical retry safe.
* With a lagging index `_find_section` settles on one of two headings of the name, or on a renamed one (write.py:653 against
  701-702), and `get_or_create_doc` creates a second document (write.py:869-877 against 841-842).
* `checked_at` starts at 0.0: for the first interval after the host has booted, `/health` answers 503 without a probe
  (server.py:356, 362 against 389).
* Exported texts are unescaped, and elements without an end tag upset the converter: see Protyle.
* An `ExceptionGroup` and pydantic's `ValidationError` do not build their text from `args`, so their errors carry no request id
  (openspec/specs/request-observability/spec.md:17, README.md:183).
* `delete_doc` asks the index before the removal only; README.md:83 says that it verifies through SQL that the document is gone.
* A health check cancelled at its await leaves `checked_at` old, so checks that are cancelled one after the other probe each time (server.py:381
  against the docstring's "cached", server.py:390).
* An item of a batch that raises an `httpx.HTTPStatusError` (any 4xx, 502-504 on the last attempt) ends the batch without a report: the handlers
  catch `SiYuanError` and `ValueError` (write.py:1102, 1158), while write.py:1052 and 1116 say that failures of items do not abort it.
* `get_block`'s `content` is the index's where there is a row, current or not (read.py:158, 167), though read.py:133 calls it current;
  an empty block that is not indexed yet is "not found".
* `get_document_outline` puts headings within containers behind all others, not in document order (smart.py:452 against 434), and
  `search_with_context` and `get_doc_summary` order siblings by `sort`, which smart.py:443 calls a weight of the type.
* `list_orphans` takes for deleted every parent that is not among its LIMITed rows (smart.py:544-552 against 529-531).
* `require_empty` counts blocks, not the documents below the document, and no empty paragraphs (write.py:1010).
* `update_block` is registered as idempotent (server.py:170), but a repeated call inserts its later parts again; `capture_task`, `daily_note` and
  `move_block` take no idempotency key though the server's instructions say that write tools do (server.py:105).
* `export_pdf` renders in the event loop, which other calls and the probe's timeout wait for; the models take the loop to be timely.

## 6. Not modelled, and what is left

Not modelled: configuration, authentication, result models, logging, usage and the registration tables have no transitions. Tools
of a single query (`search`, `sql_query`, `find_tasks`, `get_tags`, `doc_exists` and the like) have no moment at which anything could come
between. `export_*` around the converter are kernel requests and files. Documents below a moved one, headings in containers
(`Sections`), `close()` of the client, and calls whose argument is refused for its form are left out of their modules.

Done in this order: Idempotency with its abstract specification and proofs, KernelClient, UpstreamProbe, Deletes over ReplayCache,
Sections and UpdateBlock over Document, Documents, Protyle, Tracing, Reads, KernelCall. What is left:

1. Composition: `with_idempotency` around a call that `KernelClient` repeats, with one history of effects; an abstract at-most-once
   write and the exact conditions for it. An abstract specification of `get_or_create_doc` (a map from paths to documents).
2. Pure algorithms as operators against reference definitions: `_normalise_heading`, the read-only SQL check, `_split_blocks` and the list conversions.

Modules to be proved about declare no RECURSIVE operator; the algorithms of item 2 that need one stay apart.
