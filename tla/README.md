# Verification of solo2-python

`solo2` is the host library and command line for SoloKeys Solo 2 security keys.
It finds a key on USB (HID or PC/SC), sends it commands of four kinds (admin,
secrets/OATH, FIDO2, provisioning), and, through the ROM bootloader of the
LPC55, unlocks and relocks Secure Boot. It keeps no database: the state that
can be damaged is on the device, and much of the damage cannot be undone. What
makes the code hard is that the two sides fail independently. A command may be
carried out and its answer lost, a key may vanish and come back elsewhere, a
retry may do a thing twice, and a CMPA page or a firmware image that was erased
is gone unless somebody kept a copy.

This directory models that: TLA+ modules translated from the source in
`src/src/solo2/`, TLC configurations, and proofs checked by TLAPS.
`PROJECT.json` maps every definition to the lines it stands for. Mutants (the
operators marked "Mutant" in the modules) are plausible bugs in those lines;
each property is violated by one of them.

## The system

| Component | Source | State it keeps | Operations | What is hard | What makes it correct |
|---|---|---|---|---|---|
| Secure Boot operations | `lpc55_isp.py`, `BootloaderSession.write_flash` | local copies of the CMPA page and firmware during an operation; the page and flash on the device | `detect_variant`, `disable_secure_boot`, `relock_device`, `write_flash`, and `relock_with_device`, `check_variant_with_device` that reboot a device first | a failure or power loss between any two commands; NOR flash only clears bits; a backup taken at the wrong time | the factory page is never lost; what returns did what it says; a relock can be repeated until it succeeds |
| Firmware extent reader | `lpc55_isp.py` `_read_firmware_from_flash` | offset, `last_data_end` | the chunk loop | boundaries: blank first chunk, full flash, data that ends within a chunk, the settings pages at the end of the range | contiguous firmware is found whole and with less than a chunk beyond it; settings are not firmware; blank only when blank |
| Bootloader session | `bootloader.py` | the open HID handle | `erase_all`, `erase_flash`, `read_memory`, `write_memory`, `receive_sb_file`, `reset` | reports have no sequence number; timeouts with the answer still to come; the device aborts a data phase; a report that fails half way | an answer is taken for the command it answers; what returns was carried out |
| HID device handle | `device.py`, `hid_backend.py`, `clients.py` | `_hid_path`, `_device_uuid`, `_descriptor`, cached lock state and capabilities | `connect`, `disconnect`, `open_hid_device`, `_call_hid_command` | unplugging, paths that change or are given to another key, retries, the fallback key | commands go to the key that was connected, or to the one that took its path, and reach it again when it comes back |
| Discovery and watcher | `discovery.py` | the snapshot of the last poll | list, open, poll, callbacks | a capture is two enumerations and keys move in between; an enumeration that fails looks like an empty bus; callbacks against a new snapshot; the key is gone by the time it is opened | an application that follows the events shows the snapshot; no key at rest is reported; in the end the view is right |
| Secrets session, OATH bridge | `secrets.py` | none on the host between calls; credentials on the device, two names per label | add, delete, get, list, update, HMAC slot, OTP | operations of several APDUs; errors swallowed when the twin name is tried; APDUs sent twice; touch requests; a full store | a slot reported configured holds the given secret; one entry is deleted; a slot is not overwritten unasked |
| PC/SC connection | `pcsc.py` | the card connection and the AID it believes selected | select, transmit with GET RESPONSE, retry after 6F00 | the card is shared: another client selects its own applet between two APDUs; resends; lost answers to a SELECT | APDUs reach the applet they are for; a reply is whole |
| Admin session | `admin.py` | none | version, UUID, lock, wink, reboot, factory reset | the key disconnects during its own answer | - |
| Provisioner session | `provisioner.py` | the path and data buffers on the device | keys, certificates, `write_file` | buffers that only a commit empties; short APDUs | the file committed is the file given; writing works again after failures |
| FIDO2 session | `fido2.py` | the PIN, the token, the open connection | PIN, list, delete, rename | each permission tried spends a PIN try; a change whose answer is lost; replugging; another program's token | the PIN kept is the key's; wrong PINs cost a bounded number of tries; who knows the PIN gets through |
| Command line | `cli.py` | none | one session call per command | - | - |
| Legacy APDU transport | `transport.py` | an open HID device | send APDU with two retries | same as the handle's loop | - |
| PFR YAML codec | `lpc55_isp.py` | none | page to text and back | - | round trip |

How they interact: `cli` and GUIs list descriptors (`discovery`), open a
`Solo2Device` (`device`), and run sessions on it; sessions send through
`clients`, which use `_call_hid_command` (HID) or `PcscConnection` (CCID).
`lpc55_isp` uses `admin` to reboot the key, then opens a `BootloaderSession` of
its own, by USB id and not by the handle. Everything is synchronous in one
process; the concurrency is between that process, the device, the user's hands
and other processes that use the same key.

## The modules

### SecureBoot

One device (`cmpa`, `flash`, `usb`, `secure`) and one host operation at a time (`pc` is
its next bootloader command; `pfr`, `image` its locals; `result` how it ended). With no
device on the bus, or one that does not open, an operation raises before its first
command (`NoSession`, `Probe`). `saved` is what the caller holds: every `(pfr_yaml,
firmware)` an unlock has returned. Every command is an action with a success branch and,
through `Fails`, a failure branch that leaves any part of the command done and makes the
host raise. A device that restarts enumerates as `BootModes` says.

| Code | Actions |
|---|---|
| `disable_secure_boot` | `UnlockCall`, `UnlockReadFirmware` (its errors are caught), `UnlockReadCmpa`, `UnlockWriteCmpa`, `UnlockReset` |
| `relock_device` | `RelockBegins` (the checks of the backup), `RelockReadFirmware`, `RelockEraseAll`, `RelockWriteFirmware`, `RelockWriteCmpa`, `RelockVerify`, `RelockReset` |
| `relock_with_device` | `RelockWithDevice` (reboot), `RelockWait` (`wait_for_bootloader`, then the above) |
| `detect_variant`, `check_variant_with_device` | `DetectVariant`; `CheckVariant`, `CheckVariantProbe` |
| `BootloaderSession.write_flash` | `WriteFlashCall`, `WriteFlashErase` (all its erase commands), `WriteFlashWrite` |
| `AdminSession.reboot(BOOTLOADER)`, the user | `RebootToBootloader`, `PowerCycle` |

The CMPA page is the set of its one bits, so NOR programming is intersection
and erasing is the full set. A firmware image is a model value, `Signed` or
`Custom`; `Garbled` is anything an interrupted write left. The relock precondition
that a backup comes from an unlock is the docstring's (`lpc55_isp.py:346`).

Assumed of the device, which is not in this repository: flash programming only
clears bits and `erase_all` covers the CMPA (`lpc55_isp.py:267`, `:359`); a
sealed page boots only unmodified and with signed firmware; a device that cannot
boot shows up as `1209:b000` or `1fc9:0021`; a Secure part blocks reads only;
writing an image over flash that is not blank leaves garbage. An image is what
the bootrom boots: the tail of a longer, older image behind it is not
represented.

### IspCommand and McuBoot

`IspCommand` is the abstract specification of a bootloader command: one that
returns was carried out by the device for that call, one that raises leaves it
open. `SecureBoot` is written over that interface. `McuBoot` is the session
itself: two FIFO pipes of reports, the device taking commands and data packets,
the host waiting for the initial response, sending or collecting packets,
reading the final response, or draining it (`read_memory`). Ids in the reports
are ghosts, to say which command a report belongs to; the host never looks at
them. The property `ImplementsIsp` is the refinement. A report that the host fails to
write may have reached the device or not, when a command is sent and in the middle of a
transfer (`WriteFails`). `LateReads` names the places where a `read_memory` may fail
with its answer still to come, which is where the session does not keep its answers
apart: the refinement is claimed for `LateReads = {}` only, and the one place where the
code then goes on in the same session, the drain, is finding 3.

`erase` stands for `erase_all` and `erase_flash`, `write` for `write_memory` and
`receive_sb_file`. `reset` is a step of `SecureBoot`. After an error the caller
leaves its `with` block, except that `disable_secure_boot` goes on from a failed
read to another read (`lpc55_isp.py:295-302`). A new session is assumed to find
the device power-cycled (`Reopen`); nothing in `bootloader.py` sees to that, and without
it an answer could outlive its session too (a hazard in `PROJECT.json`).

### FlashReader

The loop of `_read_firmware_from_flash`, one action per branch. Addresses count blocks
of 512 bytes, the alignment of its docstring; the loop reads `Chunk` of them (4 KB) at a
time. `firmware` are the programmed blocks below the settings pages (`Pfr`),
`settings` those from there on: the 640 KB of the loop take them in
(`lpc55_isp.py:222`, `:228-230`). `Contiguous`, about the firmware alone, is what the code
says it relies on; for firmware with a blank 4 KB chunk inside, the loop returns the
part before it. `Room` is a blank chunk before the settings. What is returned ends with
the chunk of the last data (`ExtentToChunk`), not with its block.

### HidTransport

Keys on paths (`at`), a handle that remembers a path, a UUID and the path in its
id, the open key of the command under way (`dev`), and the key whose answer the last
command returned (`answered`). `List`, `Connect`, `Disconnect`
are discovery and `connect()`; `Call`, `Open`, `ExchangeOk`, `ExchangeRetry`,
`ExchangeFails` are `_call_hid_command`, with a fresh search for each attempt,
and, as `Call(2)`, the legacy `DeviceTransport.send_apdu`, which retries twice and
keeps the path it remembers.
`Plug` and `Unplug` are the user and the system, and may happen between any two
of these; an open that sees only some of the keys is a fault. The code compares the
remembered path before the UUID (`device.py:457`), so one other key may be taken for
the handle's own: the ghost `usurper` is the key that was plugged in under the path
the handle remembers, until it is unplugged or the handle forgets or replaces the path.

### SecretsStore

The entries under both names of each label, and the APDUs of `add_credential`,
`delete_credential`, `get_credential`, `update_credential`,
`update_password_entry`, `configure_hmac_slot` and `delete_hmac_slot` in the order the
code sends them, each of which may lose its reply before or after the device acted, or
be carried out twice (the HID retry and the `6F00` resend). An entry has a kind, a
secret if it is a slot, and two flags: `guarded` (touch or PIN, which `update_credential`
sets and clears on a slot as well, `Guards`) and `safe` (password-safe data). What the
Secrets app answers is modelled from how `secrets.py` reads the answers: a LIST and a
PUT may ask for the PIN or a touch, a guarded entry may for its own operations ("touch"
stands for both), a PUT on a name in use and a rename to one may replace or refuse,
and a full device (`Capacity`) refuses a new entry. `update_credential` keeps the prefix
of the name only if the credential it is given has both the prefix and the
password-safe flag (`Renamed`, `PasswordOnly`). A credential from a listing has the flag
(`UpdateListed`, any flag and name, as the caller may hold an old listing), one got by
label has not (`EditEntry`). The slot is found under either name (`Configured`).

### SmartCard, PcscConnection, Provisioner, CardClients

`SmartCard` is the card behind the reader, external but for what the host code says
of it: one applet selected, one reply unfinished, the two buffers of the
provisioner. An APDU is carried out, or answered `6F00`, or raises with the card
having acted or not (`Answered`). Two instruction bytes mean something to both applets,
0xB7 and 0xB5: a request of the one that reaches the other is understood there
("update" and "alias", `Understands`). `PcscConnection` is `Solo2PcscConnection`: `COpen`
(`open_pcsc_connection`, the probe of `list_pcsc_descriptors`), `CCall` and `CSelect`
(`_transmit_selected`, `select`), `CSend`, `CMore` (`_transmit_all`), `CClose`.
`Provisioner` is `ProvisionerSession`, one action per APDU of a public call, each
call connecting first and closing last. `CardClients` composes the two on one card,
their APDUs in any order, with the user replugging the key in between. That is
the watcher of a GUI listing in the background while a file is written, or two
programs.

Ghosts say why an APDU may go astray: `crossed` (the other client selected its own
applet since our SELECT; the code takes no exclusive access, so it may) and
`unsure` (an APDU failed and the connection kept the AID it remembered); `onTop`
says that `write_file` found something in the buffers, which nothing in the code
empties and a replug does.

### Discovery

The watcher and an application that shows what it reports. A capture is
`ListRegular` (HID, or CCID where `should_prefer_ccid`), then `ListBootloaders`;
`Takes` hands it to the constructor, to the application's own `list_devices`, or to
`poll`. `OnAdded`, `OnRemoved`, `CallbackRaises` and `RefreshReturns` are `refresh`.
Keys are plugged, unplugged and reboot (`Move`) between any two of these, and come
back under any free path, another key's old one too: HID and bootloader ids are by path,
not by key. An enumeration that fails finds nothing or only some of the keys, as the
code has it, and by CCID may list one key under a UUID and a reader name
(`CcidTroubled`). The CCID listing opens the first reader that answers for every
candidate (`CcidListing`), as `open_pcsc_connection` does. `calm`, `calmBefore`, `failed`,
`failedBefore` are ghosts: the keys at rest, and the kinds of enumeration that failed,
since this and the last capture began.

### Fido2Pin

A `Fido2Session` and the PIN state of its key: the PIN, tries left, wrong ones in a
row, whose token is valid. `Call`, `Authenticate` (one round of the loop of
`_ensure_authenticated`) and `Command` are the credential commands; `ChangePin` is
`set_pin` and `change_pin`; `Status`, `NewPin`, `NewSession` complete the session.
What happens to credentials is the `fido2` library's and is not modelled. `Replug`
kills an open connection, which `_get_ctap2` keeps for good; `OtherChangesPin` and
`OtherTakesToken` are another program. How the key counts is CTAP 2.

## The runs

| Run | Shows |
|---|---|
| `secureboot` | 461,989 states. `CmpaWritesOnlyClear`: no CMPA write needs a bit that is gone. `ErasedIsRestorable`: the page is anything else than factory or unlocked only while the caller holds the factory page. `RelockedExactly`, `UnlockedExactly`: what a return means. `RelockConverges`: repeating the relock ends it. |
| `mcuboot` | 1,177 states. `RepliesAreOwn`: no answer is taken for another command's. `DrainedOnSuccess`: a command leaves nothing behind. `ImplementsIsp`: the refinement. All three as long as no read fails with its answer to come. |
| `flashreader` | 8,996 states, every layout of five chunks. `ExtentToChunk`: contiguous firmware whole, and less than a chunk more. `SettingsApart`: the settings pages are not taken for firmware when a chunk before them is blank. `BlankIsBlank`, `Terminates`. |
| `hid` | 46,762 states. `SameDevice`: a handle that knows its UUID sends to that key alone, or to the one that usurped the path it remembers. `ComesBack`: a known key that stays, no usurper being there, answers again itself. |
| `secrets` | 380,871 states. `ConfiguredExactly`, `KeepsSlot`: a slot reported configured holds the given secret, and is not overwritten unasked. `DeletesOne`. `RenameKeepsKind`: updating a listed entry keeps the number of entries and of password-only ones, although the flag, the prefix and the data that make one are sent apart. `SlotConverges`: repeating `configure_hmac_slot(overwrite=True)` configures the slot, except against the obstacles the property names: an answer that asks for a touch, an entry of another kind or guarded under the name, a full device. |
| `card` | 172,915 states. `WritesGiven`: a file committed is the file given, whatever the other client did. `WholeReply`, `SendsToSelected`: replies are whole and from the applet asked. `WriteConverges`: with a user who replugs, failures do not leave the buffers full for ever. |
| `discovery` | 549,984 states. `ViewIsSnapshot`: what is shown follows the snapshot. `NoFalseAlarm`: a key at rest is not reported, unless an enumeration of its kind of id failed. `ViewConverges`. |
| `fido2` | 95,834 states. `CachedIsCurrent`: a call without a PIN never spends a try on a PIN the key did not take. `TriesBudget`: wrong PINs cost at most a try per permission. `Serves`: who knows the PIN gets through. |
| `secureboot_backup` | Violation of `BackupBeforeModify` (finding 1). |
| `secureboot_device` | Violation of `MissesNoDevice` (finding 2). |
| `mcuboot_late` | Violation of `ReturnedWasDone` (finding 3). |
| `secureboot_unsigned` | Violation of `RelocksSignedOrGiven` (finding 4). |

Some properties of the passing runs except a case in which the code does not keep them:
a resent deletion (`troubled`), a change of PIN whose answer was lost (`verified`),
another client's SELECT or a failed APDU since ours (`crossed`, `unsure`), buffers found
full (`onTop`), another key at the remembered path (`usurper`), a failed enumeration
(`failed`), a callback that raised or an application that started from another list
(`agreed`). The hazards in `PROJECT.json` say so one by one; a property is then
about everything else.

### Bounds

* `secureboot`: a page of five bits, two for `SECURE_BOOT_EN`, two for the seal and
  one setting, so that either field can be half set and something else must
  survive; one signed and one custom image; two failed commands in a behaviour,
  which is a failure during the recovery from a failure. Failed commands leave
  the page as it was or as it should be; pages torn in between are in
  `secureboot_backup` and in the proofs.
* `mcuboot`: four commands of three packets, two late answers: enough for an answer
  to reach the next command and that command's answer the one after. Late answers
  and failed writes that arrive are those of erase and write here (`LateReads = {}`); a
  read whose drain times out is `mcuboot_late`.
* `flashreader`: five chunks of two blocks, with the settings from the middle of the
  fourth on: they hold a blank first chunk, firmware, a gap, a tail, data that ends in
  the middle of a chunk and settings that begin there, in every arrangement.
* `hid`: two keys, three paths (its own, a new one, the other key's), two faults,
  three unpluggings: both attempts of a command can fail, and a key can leave, another
  take its path and leave again.
* `secrets`: the slot and another label with their twins, two secrets (old and new),
  updates that set the touch requirement (those that keep or clear it are in the
  proofs), room for two entries, two APDUs that go wrong.
* `card`: one path, an empty file and one of two different chunks, buffers that hold
  two, so that one failed write is enough to fill them; two APDUs that fail, and
  two opens or calls of the other client: a SELECT and a command in the midst of
  one call.
* `discovery`: two keys, two paths, two moves, one failure: a key that goes and comes
  back, or one that takes the other's place and path, around and within a capture.
* `fido2`: two PINs, the limits of CTAP 2 (eight tries, three in a row), both
  permissions; two failed requests and two acts of the other program.

Deadlock is checked except where behaviours end: `flashreader` (the loop ends),
`mcuboot` and `mcuboot_late` (the command bound).

### Fairness

* `SecureBoot!FairSpec`: an operation, once called, runs to its end (weak fairness of
  its steps: the code has no unbounded wait). The user follows the error texts: reboots
  to the bootloader and calls `relock_device` again (not `relock_with_device`, see
  finding 2), with a backup that has firmware (strong fairness, because other operations
  may come between). Failures are bounded, so they stop at some time, as transient ones
  do. No fairness is asked of the device or of unplugging.
* `HidTransport!FairSpec`: a command runs to its end, and the caller goes on sending
  commands. Nothing is assumed about keys being plugged in: `ComesBack` speaks
  of a key that stays while no other sits at the remembered path.
* `SecretsStore!FairSpec`: an operation runs to its end (weak); a
  caller repeats `configure_hmac_slot(overwrite=True)` (strong, as other calls come
  between).
* `CardClients!Fairness`: a call under way goes on (weak). The user keeps asking for
  the file, and replugs the key after calls that failed (strong, as other things
  come between). Without the replug `WriteConverges` is false: what a failed call
  left in the buffers makes every later `write_file` fail or commit too much. No text
  of the code asks for the replug, so the property is about the user who does it.
* `Discovery!Spec`: the application polls for ever (weak). Failures are bounded.
* `Fido2Pin!Spec`: a call goes on (weak). The user keeps passing the right PIN, replugs
  a key that says it is blocked, and makes a new session on a key that was
  replugged (strong): the last is needed, the session keeps its dead connection.
* `FlashReader`: the loop goes on.

## Findings

Where the code does something other than what its own text says:

1. `disable_secure_boot` reads its backup "BEFORE modifying CMPA so the caller can
   save it" (`lpc55_isp.py:289`) but hands it over only after the write. If the write
   is carried out and its answer is lost, the call raises, the backup is lost with
   it, and the next unlock backs up the page already cleared, which `relock_device`
   refuses (`secureboot_backup`). It follows that `ErasedIsRestorable` cannot be
   strengthened to "whenever the page is not the factory page".
2. `relock_with_device` waits for `1209:b000` only (`:116`). After a relock that failed
   past `erase_all` the device shows the ROM's id, which `find()` takes; the retry
   that the error text asks for cannot work (`secureboot_device`). With
   `relock_device` called directly `RelockConverges` holds.
3. `read_memory` ignores that its final response did not come in 500 ms; the
   response is taken for the answer to the next command (`mcuboot_late`).
4. `relock_device` without a firmware argument takes whatever is in flash: over custom
   firmware it returns, with the custom firmware under the factory page, where its
   docstring (`lpc55_isp.py:351-353`) says it fails (`secureboot_unsigned`).
   `RelockedExactly` says what it does do: the flash holds the image it took, and the
   device boots just when that is signed.

Noticed, and modelled as the code has it without a run of its own:

* `_read_firmware_from_flash` returns the firmware up to the end of a 4 KB chunk
  (`ExtentToChunk`), not up to "the last non-0xFF byte, padded to 512-byte alignment"
  (`lpc55_isp.py:209-210`); the padding at `:248-249` never adds anything.
* A handle whose key was unplugged sends its commands to another key that got its path,
  although it knows its UUID (`device.py:457`), where the class says "backed by a stable
  descriptor" (`:151`). `SameDevice` and `ComesBack` except this key, the `usurper`, and no
  other.
* An HID enumeration that raises counts as one that found nothing (`discovery.py:41-43`):
  one failed poll reports every key removed, the next one added, where the code means
  the GUI not to "think the token vanished" (`:78-79`). `NoFalseAlarm` excepts it.
* A touch request during an operation by label is reported as "Credential not found"
  (`secrets.py:623`, `GoesOn`), where `errors.py:27` has an error for it.
* A descriptor whose key was unplugged opens whichever key is left
  (`device.py:487`); once the handle knows a UUID it does not.
* `write_file` commits what an earlier failed call left in the buffers in front of
  what it was given (`onTop`).
* Firmware that leaves no blank chunk before the settings pages would be read, and written
  back, with them (`Room`).
* `update_password_entry` turns a password-only entry it renames into a plain one
  (`EditEntry`).
* After a `change_pin` whose answer was lost the session keeps the old PIN
  (`verified` is false then); the second permission's token may only read, so a
  delete under it fails (`Command`).
* A `Fido2Session` is dead after a replug, a new one is needed.
* In a CCID listing one key stands for all: plugging in a second may report the
  first removed (`CcidListing`).

Noticed and not modelled: `detect_variant` returns "Secure" on transport errors its
docstring says it raises (`:171`); `store_certificate` cannot send more than 255
bytes in its short APDU; the ids `pysolo2 list` prints (`uuid:...`) are not those
`--device` is compared with (`hid:...`).

## The proofs

TLAPS checks these for every value of the constants; TLC has checked the
invariants on the small instances first.

`SecureBootProofs`. `Invariance` proves `IInv == TypeOK /\ StepInv /\ ReturnInv`.
The safety properties are not inductive: that a CMPA write only clears bits holds
because of what the steps before it established, so `StepInv` says for each control
point what is known of the page, the flash and the locals there (at `u_write` the
copy is the page; between erase and CMPA write the page is blank; from the
verification on the page is the backup), and `ReturnInv` what the two successful
returns leave. From it follow `TypeCorrect`, `WritesOnlyClear` and `UnlockExact`, for
torn pages too. `RelockExact` and `EraseRestorable` need `PageInv` in addition: only
four pages ever occur (factory, blank, and each of them unlocked), every backup is
one of them, and of the four only the factory page passes the checks of
`relock_device` (`PagesClosed`). They assume `~ TornPages`, and need to: a page torn
half way between blank and factory can pass for a backup. Assumptions:
`PageAssumption` (the factory page is locked and sealed, its seal is not all ones),
`ImageAssumption`, `BoundAssumption`.

`FlashReaderProofs`. `ExtentCorrect`, `SettingsCorrect` and `BlankCorrect` for chunks and a
flash of any size and any place of the settings, from `LoopInv`: what lies behind the
loop, and why it stopped. Assumptions: `ChunkAssumption`, `ChunksAssumption`,
`PfrAssumption`.

`HidTransportProofs`. `TypeCorrect` and `SameDeviceCorrect` for any number of keys and
paths, from `OpenInv` (the open key is plugged in, at the remembered path) and `KnowsInv`
(the key at the remembered path, if any, is the handle's own or the usurper).
Assumption: `HidAssumption`.

`DiscoveryProofs`. `ViewCorrect` and `NoFalseAlarmCorrect` for any number of keys,
paths, moves and failures. `ViewIsSnapshot` is nearly inductive (`PendingInv`: events
are pending only while `refresh` tells them). `NoFalseAlarm` compares two captures, each
taken in two parts while keys move, so `SeenInv` and `SnapshotInv` say of which keys the
part collected so far, and the snapshot before, are true: those at rest since the
respective capture began, for the kinds of id whose enumeration did not fail in it.
`DiscoveryAssumption` is all it uses.

`Fido2PinProofs`. `CachedCorrect` and `BudgetCorrect` for any PINs, limits and failures.
`CachedIsCurrent` is inductive; `TriesBudget` holds in the middle of a call only with
the rounds the call has made, which `BudgetInv` adds. `Permissions` is 1 or 2
(`Fido2Assumption`), as in the code.

`CardClientsProofs`. `TypeCorrect`, `WritesCorrect`, `SendsCorrect` and `RepliesWhole`
for any files, buffer sizes, failures and calls of the other client. None of the
properties is inductive. `RememberInv` relates what the connection remembers to what the
card has selected; `ForeignInv` says that the provisioner's applet answers the
connection only after it crossed; `ReplyInv` that only a reply of two pieces is read on.
`CallInv` and `BufferInv` follow `write_file` through its APDUs: at each of them the two
buffers and what is left of the file are the file. The other client never disturbs
`BufferInv` because no APDU it sends touches a buffer, selected or not (`SameFiles` and
the lemmas about `Outcomes`). Assumptions: `CardAssumption`, `ContentsAssumption`,
`UseAssumption`, and `NoneAssumption` (the value for "no AID remembered", Python's
`None`, is no applet).

`SecretsStoreProofs`. `TypeCorrect`, `ConfiguredCorrect`, `DeleteCorrect`, and the
action properties `SlotKept` and `RenameCorrect` (`RenameKeepsKind`, by counting over an
update that is lost, done or done twice), for any labels, secrets, capacity and number
of APDUs that go wrong. The lemmas `PutOutcome`, `DeleteOutcome`, `UpdateOutcome` and
the like say what an APDU may have left and answered after one run, two or none. On them
rest `SlotInv` (at the last check of `configure_hmac_slot` the slot holds the secret;
without `overwrite` a PUT is sent only to a slot found free), `DeleteInv` (an untroubled
deletion has removed nothing before its next APDU) and `LeftInv` (a loop over names has
names of its label only). Assumptions: `SecretsAssumption`, and `AbsentAssumption` (no
entry is the absence of one).

`McuBootProofs`. `TypeCorrect` holds however late answers come. The rest assumes
`LateReads = {}`: a read of flash does not fail with its answer still to come. Erases
and writes may, by a timeout or a failed write. The hypothesis is needed, as
`mcuboot_late` shows (finding 3). Under it `RepliesCorrect`, `DrainCorrect`,
`ReturnCorrect` and `Implementation`, the refinement of `IspCommand`, hold for transfers
of any length, and any number of commands and timeouts. That the reports taken are the
command's own depends on all that is on its way, so `PipeInv` describes both pipes at
every control point. `InitialInv`: the command is unread, or answered, or its transfer
has begun. `SendInv`: packets in the pipe and packets received add up to those sent, or
the device has given up. `CollectInv`: what is left in the pipe is data and at most one
last report; once all data is read that report is the only one, so draining one is
enough. Between commands of an open session the pipes are empty: a late answer can only
reach a session that has been closed. `HostInv` says what the host has counted and taken
for answers. The refinement maps the steps of the device to `Execute` or a stutter,
since it does what it was asked once (`EffectOnce`), and the end of a command to
`Return` or `Raise`. Assumption: `McuBootAssumption`.

Only model-checked: all liveness (`RelockConverges`, `ComesBack`, `SlotConverges`,
`Terminates`, `WriteConverges`, `ViewConverges`, `Serves`), since liveness under
fairness and ENABLED are out of the prover's reach. Every other property of a passing
run is a theorem. No recursive operators are used.

## Not modelled

* The codecs (PFR YAML, TLV, APDU lengths, report framing): pure functions of bytes,
  abstracted to what they carry.
* The FIDO2 library and the applets beyond what the host relies on; printing,
  logging, argument parsing, and the merged listing of `pysolo2 list`.
* Capabilities, and the lock state cached in the handle (`device.py:304`), which would
  multiply the states of `SecureBoot`.
* Several readers at once in `CardClients`, and a second client in `SecretsStore`.
* Time: `generate_otp` reads the clock twice (`secrets.py:654`), so across a period boundary
  an expired code is reported with a full period to live.
* Which class of exception an error is, where no property depends on it:
  `_Bootloader.read_memory` raises `Lpc55AccessDenied` for every error
  (`lpc55_isp.py:68`), which escapes the documented `Lpc55Error` of `relock_device`.

The hazards these leave open are in `PROJECT.json` with the reason.

## Plan

Done, in this order of importance (what cannot be undone first): `SecureBoot`,
`FlashReader`, `IspCommand`/`McuBoot`, `HidTransport`, `SecretsStore`, `CardClients`,
`Discovery`, `Fido2Pin`, and the proofs above.

Next: the action properties that the invariants already proved make provable and no run
states yet (what `Discovery` may report twice, what a handle of `HidTransport` may
forget), each with a run first; the operators the models share, stated once as lemmas; and
the hazards that no property covers.
