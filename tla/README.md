# A verification project for Busta (CloudMail 95)

Busta is multi-tenant email on Cloudflare Workers. Everything durable is in
Durable Objects (one mailbox, one conversation, one organization, one phone
number, one import, ... each) and in the R2 bucket `MAIL_ARCHIVE`; everything
else is stateless worker code that calls them. This directory holds TLA+ models
of that system's core, the TLC configurations that check them, and TLAPS proofs
about them. Paths such as `src/mail.ts` are relative to the repository.

1. The system
2. Inventory of components
3. The modules
4. The runs: what each checks, its bounds, what it shows
5. Fairness
6. Proofs
7. Where code and documentation disagree
8. What is not modelled, and what is left to do

## 1. The system, and how it executes

The models rest on these facts of the platform, all of which the code uses:

* **A Durable Object runs one piece of code at a time.** Its SQL is
  synchronous, so what a method does between two awaits is atomic. Other calls
  come in only while it awaits another object, R2, `fetch` or a model; the
  awaits of its own storage (`getAlarm`, `setAlarm`) do not let them in.
* **Worker code is not serialized with anything.** Each await is a point where
  any other call may happen, and where the worker may die. Each run makes its
  ids with `crypto.randomUUID()`.
* **An object has one alarm.** `setAlarm` overwrites it; `getAlarm` is null
  while the handler runs; a handler that throws or dies is run again (at least
  once). The object may be evicted whenever it awaits.
* **R2 is shared and strongly consistent**, without transactions that span it
  and a Durable Object: putting an object and recording it are two steps.

So the atomic steps of the models are the stretches between awaits, and the
hard behaviours are the interleavings at awaits, the crashes at awaits, the
single alarm slot, and redelivery and retry by those outside (senders,
providers, Gmail, Twilio, the platform, a person with two tabs).

```
   sender ──email()──▶ ingest ─┬─▶ R2  raw.eml, attachments
                               ├─▶ ThreadDO.append   (body)      Ingest
                               ├─▶ MailboxDO.index   (row)
                               └─▶ fileMessage (rules)           Filing
   owner ──send()──▶ provider ─┬─▶ ThreadDO.append
                               ├─▶ MailboxDO.index               Outbox, Delivery
                               └─▶ MailboxDO.enqueue ─alarm─▶ provider
   ThreadDO ─alarm─▶ sweep/relieve ──▶ R2 body.json              ThreadStore
   MailboxDO ─alarm─┬─▶ drainOutbox                              Outbox
                    ├─▶ relieve (full-text index)                MailboxRelief
                    ├─▶ gmailTick ◀──▶ Gmail                     GmailSync
                    └─▶ #purgeStep, deleteAll                    Ingest, MailboxRelief
   ImportDO ─alarm─▶ pages and batches of Gmail ─▶ ingest        Import
   page load, Retry, connect, adopt ─▶ MailboxDO.claim ─▶ TenantDO.addMailbox
                                                                 Provision
   settings, texts in, notices ─▶ TenantDO row, PhoneDO owner    Texting
   question ─▶ AskDO ─alarm, step by step─▶ text with a link ─▶ LinkDO
                                                                 TextedLinks
   pages: lists, search, flags (Lists), drafts (Drafts), rules (Rules),
          an old mailbox opened for the first time (Backfill)
```

## 2. Inventory of components

For each: the state it keeps, its operations, what it interacts with, what is
hard, and what makes it correct. *Modelled in* says where.

### Thread store and tiering: `src/thread-do.ts`
*Modelled in ThreadStore.* One `ThreadDO` per conversation. State: the messages
with their bodies (`r2_prefix`, `archived_at`), the `meta` table, the alarm;
outside it, `raw.eml` and `body.json` in R2. Operations: `append`, `get`
(hydrating an archived body from R2, falling back to the MIME), `remove`,
`sweep`, `relieve`, `pressure`, `alarm`, `scheduleFollowUp`. Hard: a sweep awaits
R2 between reading a row and updating it, and reads, removals, other sweeps and
crashes fall in there; the alarm is armed only on writes. Correct: no body is
lost, a live message is never served without its body, deletion is final and
leaves nothing behind, pressure is noticed and relieved.

### Inbound ingest: `src/mail.ts` `ingest`, `src/index.ts` `email`
*Modelled in Ingest.* No state of its own: the owner, the duplicate check, the
thread, R2, the `ThreadDO`, the index, the answer to the sender, in that order.
Hard: redelivery (also while the first delivery is under way), death between any
two of these, the mailbox being deleted meanwhile. Correct: what was accepted is
there, what is listed has its body, one copy of each mail, replies are kept
together.

### Mailbox index: `src/mailbox-do.ts`
*Modelled in Ingest (rows, threads, ownership) and MailboxRelief (numbers,
full-text index).* State: `messages`, `msgids`, `threads`, `seq_counter`,
`messages_fts`, the owner. Operations: `claim`, `index`, `unindex`,
`resolveThread`, `findByMessageId`, `#nextSeq`. Hard: `index` trusts checks made
several awaits earlier; `msgids` outlives the rows; numbers are reused neither
for lists nor for the full-text index. Correct: a Message-ID leads to one thread,
each row is found by its own entry of the index.

### Lists, search and flags: `MailboxDO.list`, `searchText`; `web/src/lib/`
*Modelled in Lists.* State: none but the flags of the rows and what the links to
the next page carry. Operations: a page of one account or of several, starred
first; a search window by window; star, archive, trash, restore, purge. Hard:
mail arrives, moves and leaves between two pages, accounts are hidden. Correct: a
message that stays is shown once, and in order; a live message has its body.

### Mailbox deletion: `MailboxDO.startPurge`, `#purgeStep`
*Modelled in Ingest (rows and bodies), MailboxRelief (the alarm), Provision (the
address), Drafts (staged files).* State: `purging`. Alarm after alarm takes rows,
removes their bodies and unlists them, then has the organization forget the
address and deletes all storage. Hard: it races ingest and its own restarts; a
failed removal is swallowed. Correct: nothing stays stored that nothing leads to.

### Outbound mail: `src/mail.ts` `send`, `src/delivery.ts`, `MailboxDO` outbox
*Modelled in Outbox, promised in Delivery.* State: the `outbox` rows (`attempts`,
`next_attempt_at`, `status`), `messages.delivery_status` and `message_id`,
`suppressions`, the alarm. Operations: `send`, `deliver`, `classify`, `enqueue`,
`dueOutbox`, `drainOutbox`, `rescheduleOutbox`, `settleOutbox`, `setDelivery`,
`applyBounce`. Hard: an answer of the provider that is lost; death between
recording a message as queued and queueing it; the shared alarm; bounces about
the wrong message. Correct: one copy unless an answer was lost, every queued
message is settled, what is shown is true.

### Folders and rules: `src/folders.ts`, `MailboxDO` filing
*Modelled in Filing.* State: `folders`, `messages.folder_*`, `sort_undo`.
Operations: `fileMessage`, `sortRecent`, `sortInto`, `markSorting`,
`rememberForUndo`, `undoSort`, `saveFolder`, `deleteFolder`. Hard: a model's answer
arrives after the folder was deleted, a person filed the message or the sort was
undone. Correct: no row names a folder that is not there; a person's choice
stands; what was moved can be put back; nothing is left "being sorted".

### The pages of a folder's rule: `web/src/pages/folders/`, `why`, the islands
*Modelled in Rules.* State: what each open tab shows (the rule it was opened
with, what is typed, the window, the outcome of a check), the folder's `rule` and
`prev_rule`, the explanation a ThreadDO keeps. Operations: tidy, test and compare
a rule, save and undo it, sort by it, sort again, explain where a message is. Hard:
a check is under way while the rule changes, in this tab or another one; the one
explanation that is kept is filled by whoever asks; a sort trusts verdicts that were
posted with the form; sorts take in different windows (30 days from the editor, 7
after "Why not?" and Undo), overlap, and call a model that fails. Correct: what is
counted, listed or explained belongs to the rule shown, and what a sort looked at is
in the folder just if the rule fits it.

### Storage relief and the shared alarm: `MailboxDO.alarm`, `relieve`
*Modelled in MailboxRelief; the other owners in Outbox and GmailSync.* Outbox,
relief, deletion and Gmail want the one alarm; the handler sets it to the soonest
of the wants at its end. Hard: wants that come while it runs; a size that is only
asked for after some writes. Correct: each want is served; what is given up is
the body search of the oldest mail and nothing else.

### Gmail: `src/sources/*.ts`, `src/vault-do.ts`
*Modelled in GmailSync.* State: the connection and its history cursor,
`gmail_links` (in `gmail_ext`), `gmail_outbox`, the vault's token. Operations:
`connectGmail`, `gmailPushed`, `gmailTick` (renew the watch, drain the outbox,
follow the history, catch up when it expired), `importGmailMessage`,
`applyGmailLabels`, `disconnectGmail`. Hard: pushes while a sync runs,
disconnection in the middle, an expired cursor, reordered changes, the import
beside it. Correct: no change lost in either direction; the owner is asked to
connect again only for cause.

### Gmail import: `src/import-do.ts`
*Modelled in Import.* State: phase, window, page token and counts (`meta`), the
queue with its attempts, the skipped list, the alarm. Operations: `start`,
`resume`, `cancel`, the alarm (list a few pages; bring in a batch; list again for
what is missing), `importGmailMessage`. Hard: the alarm works on a copy of the
state across many awaits while the state is cancelled or replaced; four workers
share that copy; Google refuses access half-way through a list. Correct: "done"
means that all mail down to the point it names is there or known to be missing;
an import under way goes on until it ends or shows why not; the budget of sorts
is kept; a cancelled import is forgotten.

### Organizations and provisioning: `src/tenant-do.ts`, `src/provision.ts`
*Modelled in Provision.* State: members, `mailboxes`, `tenant_flags`; each
MailboxDO's `owner_org_id`. Operations: `claimAutoProvision`, `provisionMailbox`,
Retry, adopting a system address, connecting and deleting a Gmail account. Hard:
`claim` and `addMailbox` are two objects; `claimAutoProvision` guards against
two visits at once. Correct: the two objects agree, and an organization is given
one first mailbox.

### Texting: `src/phone-do.ts`, `src/sms/`, `src/tenant-do.ts`
*Modelled in Texting.* State: a `texting` row per person and organization, a
number's owner. Operations: send and check a code, claim and release the number,
turn features on and off, STOP, notices with the look-up of a changed line. Hard:
row and owner are two objects; each request acts on a row it read several calls
earlier. Correct: a number has one account; nothing is texted to a number it was
not agreed for; STOP stops.

### Texted links and PINs: `src/link-do.ts`, `src/sms/links.ts`, `src/sms/pin.ts`
*Modelled in TextedLinks, and with the settings in Texts.* State: used, expires,
wrong PINs, reissues. Hard: opening takes three calls; LINK replaces a link; the
feature a kind of link depends on is turned off in between. Correct: a link opens once, and after a fixed
number of wrong PINs never.

### Questions by text: `src/ask-do.ts`
*Modelled in TextedLinks.* State: the step and its attempts, the log in the
TenantDO, the alarm. Hard: the alarm is retried after the text went out. Correct:
a question is answered once, and in the end it is answered or logged as failed.

### Drafts: `src/index.ts`, `MailboxDO.saveDraft`
*Modelled in Drafts.* State: a row with the keys of its staged files, and these
files in R2. Operations: save, send, discard. Hard: two requests on one draft.
Correct: a mail has the files its draft had; no file disappears unasked.

### Legacy backfill: `MailboxDO.backfill`
*Modelled in Backfill.* State: `backfill_pending`, `messages_legacy`. Hard: it runs
twice at once, or again after half of it was done and the owner has acted on it.
Correct: each old message is moved once, and to the thread its row names.

### No state, or external
`addressing.ts`, `bounce.ts`, `metadata.ts`, `sanitize.ts`, `classify.ts`,
`explain.ts` (functions of one input over strings, HTML or a model's answer),
`auth.ts`, `posture.ts` (tokens, DNS), `live.ts` (fan-out to sockets),
`download.ts` (a zip writer), `ui/`, `web/` but for the pages named above
(rendering), `scripts/`, `designs/`.

## 3. The modules

| Module | What it is |
|---|---|
| `ThreadStore` | one ThreadDO, its alarm, sweepers, readers, purgers and R2 |
| `Ingest` | one mailbox: runs of ingest, purges, deletion of the mailbox |
| `Delivery` | the abstract specification of sending |
| `Outbox`, `MCOutbox`, `OutboxProofs` | one mailbox: sending, the outbox, the alarm, bounces; its theorems, that it implements Delivery among them |
| `Filing`, `MCFiling`, `FilingProofs` | one mailbox: folders, sorts in the background, a person; its theorems |
| `Import`, `MCImport` | one Gmail account: its import, the workers of a batch, Gmail, a person |
| `Arrivals`, `MCIngest`, `ImportProofs` | Import and Ingest side by side; the theorems of both |
| `GmailSync`, `GmailProofs` | one Gmail account: the tick, its outbox and history, pushes, changes on both sides, sign-ins; its theorems |
| `Texting`, `MCTexting` | texting rows and number owners, and the requests that change them |
| `TextedLinks` | questions by text, and the one-time links |
| `Texts`, `MCTexts`, `TextingProofs` | the two run together, with the row of the account between them; the theorems of both |
| `Provision` | who owns an address and who lists it |
| `Lists`, `MCLists` | lists of several accounts and a search, page after page, and the flags |
| `Overview`, `MCProvision`, `ListsProofs` | Lists and Provision side by side; the theorems of both |
| `MailboxRelief` | the full-text index, its relief and the alarm it shares |
| `Drafts`, `Backfill`, `Rules` | a draft; the move of old mail; the pages of a folder's rule |
| `Wakeups`, `MCWakeups`, `WakeupsProofs` | four modules of alarms side by side: ThreadStore, GmailSync, MailboxRelief, TextedLinks; theorems of ThreadStore and MailboxRelief |
| `Pages`, `MCPages`, `PagesProofs` | Drafts, Backfill and Rules side by side; the theorems of the three |

`Texts` is a product: Texting with an instance of TextedLinks, in which the variable
`links` is the feature "links" in the row of the account `Me`, and `opens` is worked
out of its number, its pause and its features (`Opens`). A step of either leaves the
other alone but for that row.

In `Wakeups` and `Pages` each module is an instance of its own with its own
sizes (`Wakeups` extends ThreadStore and has instances of the others); they
share no state but the count of faults, and the variable `scene` says which one a
behaviour is of. So one run checks several small systems without their product,
and one module can hold proofs about each. `Arrivals` (which extends Import and has
Ingest as `D`) and `Overview` (which extends Lists and has Provision as `P`) need no
`scene`: the runs of Import and Lists are of `Spec`, and `IngestSpec` and
`ProvisionSpec` are of behaviours in which nothing is imported or read. An `MC...`
module only gives values to constants that a configuration cannot write.

A `Bug...` operator is the operator that follows it with one plausible mistake
in it; it is not part of the specification (section 4).

### ThreadStore
`stage[m]` is where message m is in its life (not yet here, its raw MIME put,
a row, gone); `hot` are the rows with a body in SQLite, `archived` those whose
body is in R2; `r2` are the objects, as pairs of a message and "raw" or "body".
A sweep (`sweeps[s]`) is what the local variables of `sweep` and `relieve` hold:
the rows selected and not yet written, the message between its put and its
update, the budget left. Sizes are counted in bodies: `High`, `Low`, `Budget` and
`Batch` stand for the watermarks in bytes, RELIEF_BUDGET and SWEEP_BATCH. A
reader is `get` with its one await on R2 and a second on the MIME. A purger is
the worker's purge action: `remove`, then one delete per key. `Legacy` are
messages that the backfill appends already archived; `agePolicy` says whether
`ARCHIVE_AFTER_DAYS` is above zero. Faults (`MaxFaults` bounds them):
an R2 call that throws, the object restarting, a purger that dies, and a
`body.json` that is lost. `leaked`, `raced` and `lost` are history: objects whose
purger died, messages removed between a sweep's selection and its update,
bodies R2 lost.

### Ingest
A run of `ingest` is a program counter over its awaits (check, resolve, append,
index, answer) with what its locals hold; its own name stands for the fresh
message id, R2 prefix and thread id. The puts to R2 are part of the step that
resolves the thread: they are under a prefix nobody knows yet. `index()` is one
transaction: row and Message-ID (the row's number is in MailboxRelief). A purger
is the worker's purge action (`User`) or the alarm's `#purgeStep` (`Wiper`). Mails
are told apart by Message-ID and each may be a reply to one other. Left out:
verified reply tags (the path of `resolveThread` through a signed address),
bounces (Outbox), archive and trash flags (Lists), `backfill` (Backfill),
automatic claims of system mailboxes (Provision) and `checkPressure`
(MailboxRelief). Any listed row may be purged: the route requires that it is in
the Trash, which any row may be.

### Delivery and Outbox
A send worker goes through deliver (the first offer to the provider), append and
index, enqueue. `accepted[m]` counts the copies the provider took, which the
code does not know; `status`, `rowId` and `outbox` are what it does. Time is a
countdown: `wake` is what is left until the alarm, `wait[m]` until the row is
due; `Tick` lets one unit pass; `Horizon` is the longest delay. `OtherWake` is
any other owner of the alarm asking for it (`#wake` only ever makes it sooner).
The handler holds a snapshot of rows (`todo`) and the answer it awaits
(`reply`); `dueOutbox` takes at most `Limit` rows, any of those due. A
notification (`Bounce`) is about a copy that was accepted; it may lack the
Message-ID or the recipient. `Purge` unlists a message and leaves the outbox
alone, as `unindex` does. All messages go to one recipient, so that a
notification can be put down to the wrong one; `suppressed` says that a
notification has put it on the list of addresses that bounce. `tries`, `broken`,
`lost` and `refused` are history: offers made, offers the alarm died on,
acceptances nobody learned of (a lost answer, a worker or an alarm that dies with
it), and messages refused for good. Left out: `linkGmail`, the order among due
rows (any is taken), the route that drains by hand, deletion of the mailbox, what
`send` checks before its first await.

Delivery is what all this promises, without attempts, alarms, times or
workers: a message is "new", being "sending" by its worker, "kept" by the
outbox, or "over"; the provider takes copies, some of them unknown; what is shown
is what is known, and is final once the message is over, but for a bounce or a
purge; what is kept gets over. Outbox implements it under the mapping `Stage`: a
row that is queued is kept; else a worker that is done or dead means over, one
that has not begun new, any other sending; `copies` and `unknown` are `accepted`
and `lost`, `shown` is `status`. `DeliversAsPromised` is that refinement as a
property of the run `outbox`: Delivery's `Safety`, which is also proved, and its
liveness `Settles`.

### Filing
`row[m]` is the `folder_` columns as far as anything depends on them: the folder,
the suggestion, whether a person chose (`folder_source` 'you') and whether it is
'pending'. `undo` is `sort_undo`. A sorter is a worker in `fileMessage` alone,
`sortRecent` or `sortInto`; a job is where it is with one message: remember it
for undo, list the folders, mark it, ask the model, write the decision. Each is
one call of the MailboxDO or the wait for the model. A person's choice (`hand`)
is the route that lists the folders and then files. Which folders have a rule,
which one a +address leads to and what the model answers are choices, since rules
and addresses are edited at any time. The order of folders, confidences, failed
and negative answers (both leave the row unfiled) and notifications by text are
left out. `late`, `stuck`, `by`, `cut` and `chosen` are history: messages for which
something still knew a folder when it was deleted, messages whose sorter was cut
off or whose state 'pending' an undo brought back, the sort that filed a message
last, records forgotten under a sort that was using them, the person's standing
choice.

### Import
Messages are numbered as Gmail lists them, newest first, so a window is the
messages after `from` and up to `to`: `coveredAfter` is `to`, `query` is both, and
`token` is the last message listed (0 when null). `counted` is all that is kept
of `total`: whether it is above zero, which `resume` looks at. `run` is what the
locals of `alarm` hold, its copy `run.st` of the state above all; `work[w]` is
where a worker of the batch is with its message: Gmail's answer awaited, `ingest`
awaited, `linkGmail` awaited, `fileMessage` awaited. `gmailKnown` is taken with
the choice of the message, and `ingest` is one step (its own interleavings are
Ingest's). A batch is any messages of the queue, and workers take them in any
order: the code's order is one of these. `kind` says of a message whether it can
be brought in, always fails, or is not taken (too large, draft, spam). Faults
(`MaxFaults`): a call that fails for the message's sake or the platform's, Google
refusing access at one call or for good, a restart, a message deleted at Gmail.
One person acts, one request at a time: connecting again, asking for older mail,
disconnecting (two steps: `cancel`, then the vault's revocation). Left out:
`catchUp`, which is for imports that ended before there was a second list; the
counts and errors shown; Gmail's labels and the live sync (GmailSync); sent mail,
which counts against the budget and is not sorted; deletion of the mailbox with
its mail. `asked`, `gaveUp` and `excuse` are history: the messages of this import
given to the rules, those given up on, and what happened to it: "revived" when it
was cancelled under a running alarm that wrote it back, "abandoned" when older
mail was asked for while it was paused, "uncounted" when a sort failed or a batch
was cut off, so that its sorts are not in `sorted`.

### GmailSync
`glog` is Gmail's history and a position in it a historyId; `floor` is the position
before which Gmail has forgotten it. Of a message's labels the model follows
TRASH, which a deletion sets as well; read, star and archive go the same way.
`conn`, `hist`, `pending`, `renewDue`, `pollDue` are the `gmail` state of the
MailboxDO, `wake` how far off its alarm is (now, minutes, POLL_MS, not set).
`tick` is what the locals of `gmailTick` hold at one of its awaits of Google:
renewing the watch, sending a change of the outbox, asking for the profile,
listing the history one record a page, bringing one message in (`job`, with the
awaits of `importGmailMessage`), or catching up from a listing when the history
is gone. The same job runs for the import queue (`job["import"]`), beside the
sync. The owner changes mail at Gmail (`AtGmail`) and in Busta (`InBusta`), and
connects and disconnects, in the steps these routes take. Faults: a call that
fails, a tick that dies, history that is forgotten, access withdrawn. Left out:
addresses of pushes and their signatures, the other labels, and `linkGmail` for
sent mail. `start`, `missed` and `apart` are history: where following began,
messages a catch-up over more than a page did not list, messages that may be left
different on the two sides.

### Texting
`row[a]` is the `texting` row of an account (a person in an organization), `owner[n]`
the account a PhoneDO names. `run[w]` is a request with the call it makes next:
asking for a code, verifying it (`confirmPhone`, release of the old number,
claim of the new one, silence to the previous owner), removing the phone, turning a
feature on or off, a text that comes in (STOP turns features off one call at a
time; LINK and a question read the row and answer), and a notice, which may look
the line up and pause the account. Left out: caps of texts an hour and questions a
day (they may refuse at any time), the words of texts, PINs. `cut`, `crossed`,
`agreed`, `found` and `stopped` are history: accounts whose request was cut off,
accounts a late call undid something newer of, the number a feature was turned on
for, accounts a look-up found a changed line of, numbers STOP was carried out for.

### TextedLinks
`ask[q]` is what an AskDO has saved, its step and attempts, `alarm[q]` its alarm,
`at[q]` the alarm that runs. A step that fails is tried `MaxAttempts` times; the
object may die between the text and its being saved. `link[l]` is a LinkDO;
`try[b]` a browser that reads the status, checks the PIN and uses the link, in
three calls; `re[k]` a LINK text that reads how many links an email was given and
makes another. A link is of an email (from a notice or LINK) or of an answer (from
the reply): `links` is the feature that lets links be made, `opens` the kinds the
settings let be opened when the PIN is tried ("links" for an email, "ask" for an
answer, and a number that is not paused). What steps find and hashing are left out. `texted`, `slips`,
`unlogged` and `opened` are history.

### Provision
`owner[a]` is the MailboxDO's `owner_org_id`, `listed[o]` the TenantDO's mailboxes,
`flag[o]` its `auto_provision`. A request is its route's calls in order: set-up on
a page load (claim the flag, owner, claim, list, finish), Retry, connecting a
Gmail account, adopting a system address (transfer, list, unlist at the system's
organization), mail for a system address that nobody owns yet. `purge[a]` is the
deletion of a connected account's address, unlisted and then wiped. Addresses are
of three kinds: those usernames give, system ones, Gmail's. `given`, `torn` and
`raced` are history: addresses set-up listed, addresses a fault left claimed and
not listed, addresses listed while they were being deleted.

### Lists
A message gets its account, date and number when it arrives (`slot`); its columns
are sets. A reader asks each account in turn for a page of a view, merges, and
keeps a position per account for the link to the next page; or searches one
account, going down `Window` numbers at a time and inspecting at most `MaxScan`. In
between mail arrives and is starred, archived, trashed, restored, purged (route
and ThreadDO in steps) and accounts are hidden. `page`, `twice`, `steady`, `crowded`
and `restored` are history.

### Drafts
A request saves, sends or discards: what it read of the row, the objects it
uploaded, then the row, then the objects it deletes, an await each. `Wiper` is the
deletion of the mailbox, which deletes staged files too. `cut`, `late` and `gone`
are history: sends whose files were deleted before they were read, files saved
during a send, files deleted by the owner's wish.

### Backfill
A run takes the old messages in the order of their dates, appends each to a thread
(named by the run and the old thread) and indexes it; another run may begin while
it awaits, or after it failed. What was moved is read, purged and answered
meanwhile. The old tables are dropped at a run's end.

### Rules
A tab holds the rule it was opened with (`base`), what is typed (`text`) and the
window (`win`), the rule and window a check was started with (`asked`) and those its
verdicts are of (`shown`); a post is the form and its worker, a job what is left to
sort. The model's answer to a message depends on the rule's text alone (`Fits`), and
it may fail: `NotJudged`, which takes a message that is sorted out of its folder and
leaves one that is only checked where it is. `Covers[w]` is the mail of a window;
the editor and "Sort mail again" begin with `SortWindow`, `why/save` and
`folders/undo` sort `ShortWindow`. `cache` is the explanation a ThreadDO keeps of
one message, with the hash it is kept under and the rule it is really of; between
looking for it and putting a new one in its place a model is awaited.

`shown` is what `SortPlaces` counts and `WhyNot` lists. `RuleTester`'s own list, and
the comparison in the tidy panel while a rewrite is edited, do not listen to changes
and stay on the page beside another rule: they are not in the model, and a finding.
So is the score beside an explanation, which may be of an earlier rule. "Ask again"
(an explanation that skips what is kept) and hashes that collide are left out.

`missed[t]`, `outrun` and `sure` are history: what the sort of a form has not looked
at, or lost to the model's failure or to an older sort since; forms at work whose
rule was changed under them; and the messages a sort by the rule has looked at since
the rule changed last. `sure` grows when a sort ends and is emptied when the rule
becomes another one, so an Undo, whose window is shorter than that of the save it
undoes, makes sure of less than the save had.

### MailboxRelief
`seq` and `lastSeq` are the numbers, `fts` the rows of the full-text index,
`trimmed` the column `fts_trimmed`. A row counts one unit and `Chars[m]` more for
its body; `Ours` are messages the owner sends, whose `body_chars` are never set.
`relieve` has no await and is one step: the number it trims is worked out from the
average size first. `handler` is what the alarm is at (drain, the rest, the
organization that forgets the address); the outbox and Gmail are any wish for the
alarm (`OtherWake`, the choice in `AlarmCloses`). `unchecked` are runs of ingest
that have indexed and not yet called `checkPressure`; `unasked` is history: what
was written last was not followed by that call.

## 4. The runs

| Run | Bounds | What it shows |
|---|---|---|
| `thread_store` | 3 messages, 1 old; alarm and operator sweeping, 1 reader, 1 purger, 1 fault; High 2, Low 0, Budget 2, Batch 1 | `BodyKept`, `ReadFindsBody`, `OrphanAccounted` |
| `ingest` | 3 runs, a mail and its reply, 1 deletion of the mailbox, 1 fault | `ListedHasBody`, `TwiceOnlyByOverlap`, `AcceptedKept`, `RepliesStayTogether` |
| `outbox` | 2 messages, retries at 1 and 2 units, 1 row per drain, 1 fault, 1 notification | `RetriesAsScheduled`, `QueuedHasWakeup`, `DeliversAsPromised` (the refinement, with liveness) |
| `filing` | 1 message, 2 folders, 2 sorts (at once or in turn), 1 sorter cut off | `PersonWins`, `DanglingAccounted`, `MovedCanBeUndone` |
| `import` | 3 messages (fine; or one that fails always and one not taken), pages of 1, 2 pages and 3 messages an alarm, 2 workers, 2 tries, budget 1, 2 requests, 1 fault | `DoneMeansAll`, `SortsBounded`, `ImportEnds` (liveness) |
| `gmail` | 1 message, 2 changes at Gmail and 1 in Busta, 1 retry, 1 import beside it, 2 sign-ins, 1 fault | `NothingSkipped`, `SidesAgree`, `ReconnectOnlyForCause` (action property) |
| `texting` | 1 person in 2 organizations, 2 numbers, 2 requests at once and 3 in all, 2 codes, 1 fault | `NumberHasOneOwner`, `AgreedForNumber`, `ChangePauses`, `StopStops` |
| `texts` | 1 account, 1 number, 1 request; 1 question, 1 link, 2 browsers with 3 tries, 1 LINK, 2 tries of a step, 1 wrong PIN, 2 faults | `AnsweredOnce`, `UsedOnce` |
| `provision` | 2 organizations, 2 names, 1 system and 1 Gmail address, 2 requests at once, 1 fault | `ListedIffOwned`, `OneFirstMailbox` |
| `lists` | 2 accounts, 3 messages of 2 dates, 2 of which match; pages of 1, windows of 2; 2 things done by others | `ShownOnce`, `NewestFirst`, `LiveHasBody` |
| `wakeups` | a thread of 4 messages over a High of 2; a mailbox with 2 messages at Gmail; an index of 3 messages over a High of 4; 1 fault in each; a question, a link opened once, 2 faults | `SearchDepth`; `SpaceRelieved`, `CaughtUp`, `QuestionSettles` (liveness) |
| `pages` | a draft with 3 requests and a deletion; 3 old messages of 2 threads and 2 runs; 2 tabs, 2 rules, 2 messages, 2 windows, 1 change typed, 3 posts; 1 fault in each | `SentWithItsFiles`, `UnsentKept`, `LegacyKept`, `MovedOnce`, `ToldOfItsRule`, `FolderFits` |

Why the bounds are enough to be interesting:

* *thread_store*: two sweeps can hold the same message while a third actor reads
  or removes it; Batch 1 makes a relief run take two batches; the fault can be
  any of the four kinds at any await. Three messages over a high watermark of two
  cross it in both directions.
* *ingest*: three runs are two overlapping deliveries of one mail and its
  reply, or a delivery, a failure and a redelivery. Runs are interchangeable and
  the run has invariants only, so symmetry over them is sound.
* *outbox*: with one row per drain the second message waits for the next alarm;
  two retries exercise first, middle and last delay.
* *filing*: no property relates two messages and a sort treats each on its own
  (only the deletion of undo records is per sort, and it may come at any point of
  a job), so one message shows what several would. Two sorts give every overlap
  of two jobs. Folders and sorters are interchangeable; there are invariants only.
* *import*: three pages at two an alarm make a list that stops with a token, one
  that is refused at its second page and one that ends; two windows and two
  requests are an import and its continuation, older mail after an end or during
  a pause, or a reconnection after a disconnection; three messages that may be
  sorted against a budget of one let two workers overshoot it and show a third.
* *gmail*: three changes of one message are an arrival, a change on either side
  and its echo; two sign-ins leave a tick of the first connection running under
  the second. Two messages and a catch-up over more than a page are in *wakeups*.
* *texting*: the second organization of one person is the case in which the user
  alone does not tell who has a number; two numbers are a move and back. Accounts,
  numbers and workers are interchangeable and there are invariants only.
* *texts*: the page turns the features off, and one request (a feature on, or
  STOP) comes at any point; two browsers and three tries pass each of the three
  calls in every order and reach the lock; two faults hit a step, its retry, or the
  save after the text went out.
* *provision*: two requests cover every pair of routes on one address: two
  visits, a retry under a visit, two organizations at one name, adoption under
  the first mail, connection under deletion.
* *lists*: pages of one message make three pages of three messages; two accounts
  and two dates give ties that the number decides in one account and that nothing
  but the order of accounts decides between two.
* *wakeups*: relief takes several alarms in a thread and in a mailbox, and one
  failure may hit any of them; a mailbox catches up over a page and an unwanted
  message; two faults end the tries of a question, or hit its log.
* *pages*: three requests are two sends and a discard, or a save under a send; two
  runs of the backfill overlap or follow one another; two tabs test a rule while
  the other saves it, and three posts are a save, an Undo and a sort that one of them
  overtakes. The shorter window leaves out the second message, which is then sorted
  by some and not by others; a change typed makes a test stale, of the rule or of the
  window. Each rule fits one of the two messages: a sort by the wrong one is wrong of
  both. Tabs are interchangeable and there are invariants only.

`CHECK_DEADLOCK FALSE` is given where the system really may stop: everything
that was to happen has happened, and what is left waits for a person or for
mail. `outbox` is checked for deadlock as well: time always passes.

Each property has a mutant (`Bug...` operators next to the definitions they
stand for): a plausible mistake in that code that TLC finds as a violation of that
property under the same configuration.

## 5. Fairness

*ThreadStore*: weak fairness of the alarm firing when set and of each step of
the handler it runs: the platform's at-least-once alarms. Faults are bounded and
have no fairness; nothing assumes that anyone reads, purges or appends.
*Outbox*: weak fairness of time, of the alarm when due, of the handler's steps
and of a send worker's steps. A worker may still die (`SendFails`, bounded by
`MaxFaults`): the platform runs to its end what it started unless it dies. Nothing
assumes that the provider ever accepts. *Import*: weak fairness of the alarm's
steps and of each worker's. A call may be refused at any time (bounded) and
nothing assumes that the person ever connects again: `ImportEnds` counts a pause
as an end, since it is shown and the import waits for the person. *GmailSync*:
weak fairness of the alarm with the tick it runs and of time reaching a retry;
none for Gmail, pushes (they may be lost: the poll is what `CaughtUp` rests on) or
the owner. *MailboxRelief*: weak fairness of the alarm and its handler;
`IndexRelieved` assumes in its premise that the last write was followed by a
check, which the code does not do for sent mail. *TextedLinks*: weak fairness of
each AskDO's alarm and its steps. The others have no liveness properties and no
fairness: whether a sender sends again or a person comes back is up to them.

## 6. Proofs

Eight modules hold proofs. Each theorem is of the specification, for every value of
the constants that its module's assumptions admit: any number of messages, runs
and workers, any watermarks, retries and faults. The shape is the same everywhere.
The properties are seldom inductive, so each module names an invariant that is
(`IInv`, or one per part), with the property as one of its conjuncts; one lemma for
each action says that it keeps it, with one step for each conjunct it may disturb;
`Stepwise` puts these together by cases on Next, and the theorem follows with
`Initially`. A lemma like
`Moves`, `Goes` or `StepsTo` says once what writing one actor's record does to all.

Modules that stand side by side (`Wakeups`, `Pages`, `Arrivals`, `Overview`) also have
their theorems side by side, each of the specification of its own component. What
is assumed of the parameters of an instance is an assumption of the module that
makes it: SANY and the provers know nothing of the assumptions inside an instance.

### `WakeupsProofs`: the thread store and the relief of the index

Of `Spec` (ThreadStore), for every set of messages, sweepers, readers and purgers
and every watermark, budget and batch; of `WakeupsSpec` for the index:

| Theorem | Property |
|---|---|
| `TypeCorrect` | `TypeOK` |
| `BodyIsKept` | `BodyKept` |
| `ReaderFindsBody` | `ReadFindsBody` |
| `OrphansAccounted` | `OrphanAccounted` |
| `DeletedIsFinal` | `DeletedStaysDeleted` (an action property) |
| `PressureIsNoticed` | `PressureHasAlarm` |
| `SearchDepthAlways` | `SearchDepth` |

`TypeOK` of ThreadStore is inductive by itself; the safety invariants are not.
`IInv` is `TypeOK`, the three invariants about bodies, and four facts that tie the
actors to the store:

* `StageOK`: only messages with a row have a body or an archive key, and what
  was put has its MIME.
* `SweepOK`: a message a sweep holds still has its row, or was removed under it,
  which is what `raced` records; and between put and update the object is there
  or the message is gone. `BodyKept` needs it at the update (the row is cleared
  only when the object exists), `OrphanAccounted` at the put.
* `ReadOK`: a reader is reading a message that has or had a row, which
  `ReadFindsBody` needs when the MIME turns out to be missing.
* `PurgeOK`: the keys a purger holds are those of a removed message, so deleting
  them takes nothing from `BodyKept`.

`DeletedIsFinal` follows from `IInv` and `SweepOK` (an update on a removed row
changes nothing). `PressureIsNoticed` is inductive with `TypeOK`: only `append`
raises pressure, and it arms the alarm or finds it armed or running; only the
handler takes it, and its end arms it again while over the watermark
(`PressureStep`).

`SearchDepth` (what is trimmed stays found by its header, and only the oldest is
trimmed) rests on `NumbersOK`: numbers are given once and only grow. Otherwise
re-indexing a trimmed row, or deleting one by its number, could touch another
message, and a new row could be older than one that is trimmed. `relieve` works out
how many to trim from sums over the rows; all the proof needs of it is that it is a
number (`TargetNumber`: the sum's recursion is well founded over the sets of larger
rows), since the oldest k of a set, whatever k is, are closed under older
(`OldestDownward`).

### `ImportProofs`: the import, and ingest

| Theorem | Property |
|---|---|
| `TypeCorrect` | `TypeOK` (Import) |
| `DoneHasAll` | `DoneMeansAll` (Import) |
| `SortsAreBounded` | `SortsBounded` (Import) |

The assumption is that the sizes are what they are in the code: counts, of which
only the budget of sorts may be 0, and a set of workers that is finite and not empty.

* `HeldOK`: a message is with one worker at most, and none that a worker has is still
  to be handed out; `LinkedOK`: what is being sorted is linked.
* `CopyOK`: the copy of the state that the alarm works on is about the import there
  is (the same window, and as far in it), or that one was cancelled or replaced
  meanwhile and the copy is `stale`: it cannot end an import it was not made of.
* `WindowOK`: all down to `from` is settled; from the listing that reconciles on, all
  down to `to` is settled or queued; done, all is settled. A settled message stays
  so, and a page that was listed and not saved only costs that it is listed again.
* `CountOK`: what was asked for and the workers that are sorting now are together
  within budget plus workers less one. `asked` alone is not inductive: each worker
  looks at the budget before its call and counts after it. With a worker sorting
  (`Sorting`) counted beforehand, the last one that looked still saw one left.

Ingest:

| Theorem | Property |
|---|---|
| `IngestTypeCorrect` | `D!TypeOK` |
| `BodyBeforeRow` | `ListedHasBody` |
| `DuplicateOnlyByRace` | `TwiceOnlyByOverlap` |
| `AnsweredIsKept` | `AcceptedKept` |
| `RepliesInOneThread` | `RepliesStayTogether` |

* `RunOK`: how far a run is tells what it has written: what lists has put its
  objects and appended its body, and who answers knows of a row of its mail.
* `PurgeOK`: a purger works on messages whose run is past listing them, so that it
  never takes the body of a row that is still to be written.
* `BodyOrPurge` strengthens `ListedHasBody`: of the purgers, only one that is past
  `remove` excuses a row without its body; one that dies before that took nothing.
* `ClearedByOverlap` strengthens `TwiceOnlyByOverlap` to the runs that have passed
  the check for duplicates and not listed yet: two of one mail overlapped.
* `JoinedKnown`: a run that joined its parent's thread has one to name.

### `OutboxProofs`

| Theorem | What |
|---|---|
| `TypeCorrect` | `TypeOK` |
| `KeepsSchedule` | `RetriesAsScheduled` |
| `NoRowForgotten` | `QueuedHasWakeup` |
| `ImplementsDelivery` | `Spec => D!Safety`: the refinement |
| `DeliveryIsTruthful`, `OutboxIsTruthful` | `D!Safety => []D!Truthful`, and so of Outbox |

`IInv` joins the two invariants with `TypeOK` and

* `HandlerOK`: the rows the handler took are queued, and the one it is at is none of
  those left. Without it a settled row could be offered again.
* `SendOK`: where a message is in its worker tells what may have become of it: a
  row of the outbox belongs to a worker that is done, and what is queued has no copy
  anybody knows of but between `Retry` and `Settle`, while the answer is in `reply`.
  `RetriesAsScheduled` needs the first, the refinement the second: Delivery takes a
  copy only of what is not known to be taken.

The refinement goes step by step: each action of Outbox is one step of Delivery or
none under the mapping (`DeliversSend`, `DeliversOffer`, `DeliversSettle`, ...;
`StageKept` and `StageMoved` say what a step does to the mapped `Stage`). `Truthful`
(no second copy but for one nobody learned of, nothing shown as sent that was not
taken, nothing given up that is known to be taken) is then proved of the five lines
of Delivery and not of Outbox; it needs that what was given up is over (`GivenUp`).
`LeastOfSet` and `GreatestOfSet` give `Min` and `Max` of the wants and the delays
their meaning.

### `FilingProofs`

From the assumptions that its constants that are no folder are not folders, that
`NoKey` is not `All` and `NoChoice` not `NoFolder`:

| Theorem | Property |
|---|---|
| `TypeCorrect` | `TypeOK` |
| `PersonWinsAlways` | `PersonWins` |
| `DanglingAccountedAlways` | `DanglingAccounted` |
| `MovedCanBeUndoneAlways` | `MovedCanBeUndone` |
| `PendingIsBeingSortedAlways` | `PendingIsBeingSorted` |

None is inductive but `PersonWins`. `IInv` joins them with:

* `RecordsOK`: an undo record is a coherent row, so that undoing restores one
  (`TypeOK` at `undoSort`).
* `PhaseOK` and `KeysOK`: what a sorter may be doing before and after it clears
  the old records, and under which keys.
* `KnownLate`: whatever still knows a deleted folder for a message (a list, a
  job, a choice on its way, an undo record) makes it `late`; `DanglingAccounted`
  needs it wherever a row is written, and gives it back where a row is recorded.
* `YouBy`: a row that a person filed was not filed last by a sort, so an undo that
  skips the row leaves nothing unaccounted in `MovedCanBeUndone`.
* `JobRecorded`: a sort past `rememberForUndo` has its record, or the records were
  dropped meanwhile (`cut`).

### `ListsProofs`: lists and search, and provisioning

| Theorem | Property |
|---|---|
| `TypeCorrect` | `TypeOK` (Lists) |
| `ShownOnceAlways` | `ShownOnce` (Lists) |
| `NewestFirstAlways` | `NewestFirst` (Lists) |
| `LiveHasBodyAlways` | `LiveHasBody` (Lists) |

From the assumptions that accounts, messages and times are finitely many, that the
accounts are numbered, and that a page, a window and a search have room for one.

A page is what the accounts answer one by one, each asked for one more than the page
holds of what comes after its own cursor, merged and cut. The proof is about what
that leaves out.

* `RestOK`, `AnswerOK`: an answer comes after the cursor of its account, and what it
  leaves out of those that stay in view comes after all of it, and only if it is full.
  It rests on `First...`, the lemmas about the first k members of an ordered finite
  set (that there are k of them if the set has as many, and that they come before the
  others), used for the answers, for the merged page and for the slices of a search.
* `CursorOK`: those that stay in view, are not pinned and are not after the cursor of
  their account are the ones shown, once: it is `ShownOnce` in the middle of the
  list, and with `OverOK` (at the end all cursors are at the end) at its end.
* `PinnedOK`: what is pinned comes on the first page by its own answer, or had no
  room there (`crowded`), and in no answer of the rest.
* `OrderOK`: what is shown comes before what is not shown yet; only so is it kept
  when the next page is added, and `NewestFirst` follows.
* `SearchOK`: a search has shown what is not below its position. `Walk` is written
  as what its loop comes to (the highest slice at which it has enough, is past the
  bound, or at the end), so that no recursion is in the prover's way.
* `BodyOK`: a body is missing only of what a purge is at, which is in the Trash or
  was restored under it.

Provision:

From the assumptions that neither the system's organization nor nobody is one that
people belong to, and that the kinds of addresses are disjoint:

| Theorem | Property |
|---|---|
| `ListedIffOwnedAlways` | `ListedIffOwned` |
| `OneFirstMailboxAlways` | `OneFirstMailbox` |

`ListedIffOwned` is `ListedOwned` and `OwnedListed`. The first needs
`ListingOwned`, that a request about to list has the address or lists it in vain
(the claim granted it, and it can only be lost to a deletion, which is `raced`),
and `PurgesOK`, that what is unlisted for good was owned until then and is listed
by nobody when it is wiped. `OneFirstMailbox` needs `SetupsOK`: while a load sets
up, the flag is "running" and there is no second one; what an earlier one listed
is still listed, which is why a retry after a lost answer never begins. The
disjointness of the kinds is used there: only Gmail addresses are ever unlisted.

### `TextingProofs`

| Theorem | Property |
|---|---|
| `TypeCorrect` | `TypeOK` |
| `NewestVerificationWins` | `NumberHasOneOwner` |
| `FeaturesAreOfTheNumber` | `AgreedForNumber` |
| `ChangedLinePauses` | `ChangePauses` |
| `StopIsFinal` | `StopStops` |
| `EachRuns` | `TextsSpec => Spec /\ L!Init /\ [][L!Next]_L!vars`: Texts implements both |
| `AnsweredOnceAlways` | `AnsweredOnce` |
| `UsedOnceAlways` | `UsedOnce` |

The first five are of Texting, and hold of Texts by `EachRuns`. The four properties and `Typed`, `RunsOK` and `StopSoFar` are inductive together.
`RunsOK` says what a request must hold for the call it makes next (a worker about to
silence has a previous owner that is another account). `StopSoFar` is the middle of
`StopStops`: STOP turns the features off one call at a time, and those behind it
stay off while it goes on, unless a page that was late turned one on (`crossed`).
Without it nothing is known of the row at the last call, at which the number counts
as stopped.

`EachRuns` maps each step of Texting to a `Switch` of TextedLinks or to none, by
whether what the account may make or open changes, so that what is proved of the links
holds whatever is done in the settings. Questions and links share no state, so there
are two invariants. `AskOK`: until an answer is saved as texted each text of it was a
slip, and an alarm is at a step only while there is one left. `LinkOK`: a link that
opened a session is used, or deleted for good; it is here that a link is made under a
number that no link had before.

### `GmailProofs`

From the assumptions that Gmail's messages are finitely many and numbered:

| Theorem | Property |
|---|---|
| `TypeCorrect` | `TypeOK` |
| `ReconnectOnlyForCauseAlways` | `ReconnectOnlyForCause` (an action property) |
| `NothingSkippedAlways` | `NothingSkipped` |
| `SidesAgreeAlways` | `SidesAgree` |

A tick has many awaits and few ways to leave them: another call (`Ask`), the end of
the sync (`Synced`), a failure (`Fail`), the next step of a job (`NextStep`). Each
invariant is proved of those (`AskGoes`, `SyncedGoes`, `DrainGoes`, ...), and each
action leads to one of them.

* `SeenOK`: a tick that saw no good token while the vault has one is from before the
  last sign-in. A 401 then has its cause in the vault, or is that tick's.
* `SkipInv`: `FollowOK` says what the tick has passed at each await. All that
  is before the position it lists from is brought in, what it brings in is the next
  record, and a catch-up has brought in or still lists all up to the position it will
  save, or left it out and recorded that (`missed`). `LabelsOK`: a job comes to the
  labels of a message only when it is linked. It rests on `Grows`, that the log is
  only added to and what is brought in stays so.
* `AgreeInv`: each linked message that is not in `apart` is `Settled`: the two sides
  are level, or one of three things will still make them so. Gmail's history has a
  record of it past `Pos`, the position the tick has come to (`Ahead`), a change of it
  waits in the outbox (`Asked`), or a job is about to apply its labels (`Labelling`).
  `LogOK` says that Gmail has a message where the last record of it says; `PosOK` and
  `PassedOK` that a step passes no record but arrivals, the one it applies and those
  of messages in `apart` (`PlacedStep`); `TakenOK` that the labels a job has are
  Gmail's but for what history will tell; `RowsOK` that each change waits once and
  that what a tick holds to send is what waits, or is about a message in `apart`.
  TLC checked `AgreeInv` on one message before it was proved.

The position a tick saves may be older than what a tick of the last connection was
about; that the account was disconnected meanwhile shows in `hist = None`, and the
first position saved then is also where following began (`start`).

### `PagesProofs`

From the assumptions that the deletion of the mailbox is no request on a draft, that
there is a message to move, that a folder begins with a rule, and that the windows a
sort begins with take in some of the mail; of `Spec` (Pages):

| Theorem | Property |
|---|---|
| `SentWithItsFilesAlways`, `UnsentKeptAlways` | `SentWithItsFiles`, `UnsentKept` (Drafts) |
| `LegacyKeptAlways`, `MovedOnceAlways` | `LegacyKept`, `MovedOnce` (Backfill) |
| `ToldOfItsRuleAlways`, `FolderFitsAlways` | `ToldOfItsRule`, `FolderFits` (Rules) |

Each invariant is about one scene; `DraftScene`, `MoveScene` and `RuleScene` say that
the others leave it alone.

* `DraftInv`: `RowOK`, that the files the row names are there and nobody is about to
  delete them (only one save ever names a file, and what a request drops is what a
  row that is gone had named); `CollectOK` and `MailOK`, which carry the files from
  row to mail past a send that nobody cut; `SendHasThem`, that a file of the row
  that is being sent is in the send or was saved meanwhile: `UnsentKept` rests on it
  when the send deletes what the row then names.
* `MoveInv`: `PastOK` ties each row to a run that is past its message, and each such
  message to a row or a purge; `SameThread` says that Message-ID and replies lead
  where the row does; `OneRun` what lasts while there is no second run. Two messages
  of one old thread then have rows of one run, which names the thread.
* `WorkInv`, of a folder's rule: `Tells` says of a tab what `ToldOfItsRule` says, and
  that what it was told is of the rule it loaded; that rests on `CacheTrue`, that what
  is kept is of the rule whose hash it has, which every `Keep` must keep, whoever else
  asked meanwhile. `TabOK` is how far each form's sort is: what it has looked at
  fits, or is in its job and will fit once it is filed; what it is judged by is the
  rule, unless the form was outrun, and then it counts for nothing (`missed` is all).
  `FolderFits` is inductive with that: a form that ends adds what it looked at, and
  what others file meanwhile is either judged by the same rule or lost to all
  (`Lost`).

### What is only model-checked

* Liveness, which is beyond this prover: `Settles` of Delivery (in
  `DeliversAsPromised`), `ImportEnds`, `QuestionSettles`, `SpaceRelieved`, `CaughtUp`.

The properties that are proved for every instance and show little on a small one
(`TypeOK`, `DeletedStaysDeleted`, `PressureHasAlarm`, `PendingIsBeingSorted`,
`Truthful`) are in no run any more.

## 7. Where code and documentation disagree

Each of these was met while reading or as a counterexample to the documented
form of a property; the property that is checked now says what does hold, with
the disagreement as its named exception, kept in a history variable. The findings
in `PROJECT.json` have them all with their lines. The ones that matter most:

* **Bodies and deletion.** A removal between a sweep's SELECT and its put leaves
  `body.json` with no row (`raced` in `OrphanAccounted`). Mail under way while its
  mailbox is deleted is listed at an address that nobody owns. A message restored
  while its purge has passed the check loses its body (`restored` in `LiveHasBody`).
* **Delivery.** Two overlapping deliveries of one mail are both listed
  (`TwiceOnlyByOverlap`). A worker that dies between `index` and `enqueue` leaves a
  message shown as queued that nothing retries: Delivery lets a message be lost
  sight of only before the outbox has it (`Lose`). `send` only warns about
  suppressed addresses where the README says it refuses them.
* **Relief** goes on only while over the high watermark, and asks only after
  incoming mail (the premise of `IndexRelieved`).
* **Folders.** Deleting a folder is to leave its mail unfiled; what knew it files
  mail there afterwards (`late`). An undo, or a second sort with the same key, in the
  middle of a sort leaves a moved message with no record (`cut`), or brings back the
  state "being sorted". Verdicts of a check that was under way when the rule was
  changed are shown under the new rule (`late` in `ToldOfItsRule`), and the tester's
  list stays beside an edited one. Undo sorts 7 days again after a save that sorted
  30: older mail stays by the rule that was undone (not in `sure` in `FolderFits`).
* **Gmail.** A change that is retried overtakes a later one of the same message; a
  message linked just before its labels failed never gets them; one that changes
  while it is being imported may stay different (`apart` in `SidesAgree`). While
  renewing the watch fails nothing else is done.
* **Import.** An alarm under way writes a cancelled import back ("revived"); older
  mail asked for during a pause gives up the rest of its window ("abandoned"); the
  workers of a batch may each sort one message more than the budget.
* **Texting.** A claim that is overtaken removes, or releases, a number that was
  verified since, and release compares the person only (`crossed`). A look-up that
  found a changed line and could not pause is not repeated (`cut` in `ChangePauses`).
  STOP stops half-way when its worker dies: `StopStops` is about one that was carried
  out to its last call.
* **Links and questions.** A session that is open is not ended by turning links
  off. A question whose log failed is deleted as old (`unlogged`), and one that
  failed is kept for good.
* **Provisioning.** A visit that dies leaves the flag "running" and no later visit
  sets up; the notice about a missing user name promises what does not happen.
* **Lists.** A starred message that the first page had no room for is shown on
  none (`crowded`); an account hidden during a page starts from its top again.
* **Drafts.** A save with files replaces the earlier files, which are then nobody's;
  overlapping sends of one draft send it twice, and one of them may go out without
  its files (`cut` in `SentWithItsFiles`).
* **Backfill** is called idempotent, and a second run moves again what the first
  had moved (`again` in `MovedOnce`).

## 8. What is not modelled, and what is left to do

Not modelled, and why: parsing, classification and explanation (functions of one
input with no state; their results are choices in the models), token
verification, DNS and live updates (external, or no state), the HTTP clients of
Google and Twilio and the language models (external; their answers are choices),
rendering, the zip writer, scripts and the development routes but for
`relieve`.

Left out of modelled components, each named in section 3: `scheduleFollowUp`
(it has no caller at this commit), verified reply tags, `msgids` of sent mail
whose id changes at a retry, the order of folders among themselves, caps of texts
and the window of 50 webhook ids (one counter each, in one object), the end of a
session by time, filters by folder and label. The four owners of a mailbox's alarm
are modelled one at a time, each against any use of the slot by the others, and not
in one module: the product is out of TLC's reach with sizes at which anything
happens.

To do: `msgids` of a sent mail whose id changes at a retry.
