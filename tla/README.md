# Speak Freely in TLA+

Speak Freely is an Internet telephone of the 1990s: a set of small Unix programs
that send sound, and what goes with it, in UDP datagrams. Each program is one
process (the listing server may have threads) with a main loop around `select()`
and a signal handler driven by an interval timer. This directory holds
specifications of its programs, the TLC configurations that check them on small
instances, and proofs, checked by TLAPS, of what they promise in general.
Paths and line numbers are those of `src/`.

1. [The system](#1-the-system): inventory, with what makes each part correct
2. [The modules](#2-the-modules): which models what, and how it maps to the code
3. [The runs](#3-the-runs): what each checks, its bounds, the fairness
4. [The proofs](#4-the-proofs)
5. [Known divergences](#5-known-divergences): where code and comments part
6. [What is not modelled](#6-what-is-not-modelled)
7. [What could follow](#7-what-could-follow)

## 1. The system

```
 user -- sflaunch --fork/wait/SIGHUP--> sfspeaker <--datagrams-- sfmike (elsewhere)
                  \--fork/wait/SIGHUP--> sfmike --datagrams--> sfspeaker, sfecho, sfreflect
 sfspeaker, sfecho, sfreflect --SDES/BYE over TCP--> sflwld <--query-- sflwl
 sflwld --forwarded SDES/BYE--> other sflwld
 callers --ID/BYE--> sfvod --fork/wait/SIGINT--> sfmike --datagrams--> callers
```

The data port carries sound (Speak Freely's own format, RTP or VAT), face images
and keys; the next port carries control messages: identification (RTP SDES, VAT
ID), BYE (VAT DONE) and text chat. Nothing is acknowledged. A host that falls
silent for `hosttimeout` is forgotten by everyone.

**sfecho, the echo server (`echo.c`).** *State:* the chain of connections, the
queue of packets with the time each is due, the one-shot interval timer, the
flags `crit` and `clash`, the time of the next listing update. *Operations:* the
main loop receives a datagram, finds or makes its connection, then queues the
packet or, for a BYE, empties the queued packets of that host; `release()`, from
SIGALRM or from the main loop after a clash, sends what is due, forgets idle
hosts, refreshes the listing and sets the timer again. *Hard:* the handler and
the main loop share the queue and the chain; the timer is the only thing that
drives it. *Correct when:* every packet comes back once, in order and on time,
none to a host that said BYE; the timer is never lost; idle hosts go; the listing
does not lapse.

**sfreflect, the conference reflector (`reflect.c`).** *State:* the chain of
members with their protocol and whether they said BYE, `actives`, the HTML page
and whether a change is pending, the same flags and timer. *Operations:* a data
packet is sent on to every other member; a control message updates its sender's
entry; chat is reflected on the members' control ports; `release()` sweeps the
chain, sends heartbeats and rewrites the page. *Hard:* the walk that reflects a
packet runs outside the critical section, and `release()` frees connections under
it. *Correct when:* every other present member gets each sound once, nobody who
left gets anything, the chain loses and leaks no entry, the page and the listing
follow the membership in bounded time.

**sflaunch (`launch.c`).** *State:* the process numbers of its two children and
what the user still wants. *Operations:* fork `sfspeaker`, fork an `sfmike` for
each destination in turn, wait, pass SIGHUP on. *Hard:* the children end in
either order, at any moment, also while it waits for the user. *Correct when:* no
child is left behind, no signal goes to a process already waited for, it ends
once the user is done.

**sfspeaker (`speaker.c`).** *State:* the connections with everything known of
each (protocol, time-out, sequence number, jitter queue, face transfer, viewer
process), the output device and who holds it, the timer with several paces, the
listing server and its strikes. *Operations:* a sound packet is tested, decrypted,
unpacked, put in order and played; control packets update the connection; faces
are asked for block by block and shown with `xv`; faces are served; `release()`
ages connections, paces transfers, keeps the jitter and frees the device;
`childterm()` cleans up after a viewer. *Hard:* datagrams are lost, repeated and
reordered; the two handlers and the main loop share the connections and there is
no critical section; one timer serves four purposes. *Correct when:* sound is
played in order and once, a packet is understood as it was meant, transfers
settle, files and counters do not leak.

**sfmike (`mike.c`).** *State:* the list of destinations with their keys, the
robust sequence counter, the talk/pause switch. *Operations:* read sound, compress
it, `sendpkt()` to each destination in turn, with encryption and packet stuffing;
send files at the pace of a timer; half-duplex muting of the local `sfspeaker`
by datagrams; identification and BYE. *Hard:* `sendpkt()` works in place on one
buffer and one length for all destinations. *Correct when:* every destination can
play what it gets, whatever the others' keys.

**sflwld, the listing server (`lwld.c`).** *State:* the chain of who is
listening, HTML pages, a queue per server forwarded to, a table of threads.
*Operations:* `servicePacket()` adds, replaces, removes or lists entries;
`release()` removes those that were not refreshed; threads serve, forward and
time each other out. *Hard:* threads share the chain, mostly without a lock;
`pthread_kill()` ends one in the middle of anything. *Correct when:* the listing
is exactly who announced itself lately; queues are bounded; a forwarded message
does not circle.

**sfvod, voice on demand (`sfvod.pl`).** *State:* three tables, of children, of
timers and of hosts, and the child that plays live sound. *Operations:* a control
packet from an unknown host starts an `sfmike` for it, a BYE ends it; SIGCHLD starts
the time-out of a host, SIGALRM carries it out; live sound is one `sfmike` for all,
told to end and started again. *Hard:* both handlers come between any two
statements about the tables, which go by process numbers. *Correct when:* a host is
played to once at a time, no signal goes astray, whoever is away is forgotten, live
sound reaches everybody who called.

**Packets and protocols (`rtpacket.c`, `vatpkt.c`, `mike.c`, `speaker.c`).** Control
packets are composed, padded and encrypted by sfmike; sfspeaker tells from them in
which protocol a correspondent speaks, and reads his sound accordingly. *State:* the
protocol and session of each connection, and the key that is tried next on a packet
that cannot be read. *Hard:* nothing in a packet says whether or how it is encrypted;
the key is guessed by turns that all correspondents share; control packets and sound
come on two ports in any order. *Correct when:* what was sent is understood in every
length, encrypted or not; a protocol once found is kept; whoever goes on talking with
the right key is heard.

**The rest.** `sflwl` prints one answer of the listing server. Device drivers
(`soundbyte.c`, `audio_*.c`), sample arithmetic (`codecs.c`, `ulaw.c`, `g711.c`,
`rate.c`, `vox.c`), keys (`deskey.c`), helpers (`tempfile.c`, `html.c`, `common.c`,
...), the codecs and ciphers of others and the contributed user interfaces complete
the tree.

## 2. The modules

| Module | Models | Role |
|---|---|---|
| `DelayLine` | what the echo server promises | abstract specification |
| `Echo` | `echo.c` | component; implements `DelayLine` |
| `Reflect` | `reflect.c` | component |
| `Launcher` | `launch.c` | component |
| `FaceTransfer` | faces in `speaker.c`, both ends, and the network between | protocol |
| `Robust` | sequence numbers, `mike.c` to `speaker.c` | protocol |
| `SendPkt` | `sendpkt()` of `mike.c` and its receiver in `speaker.c` | protocol |
| `RtpPackets` | `rtpacket.c`, `vatpkt.c`, and encryption of control packets | pure functions |
| `Protocol` | how `speaker.c` finds out protocol and key of who calls, with the `mike.c` of the callers | protocol |
| `Directory` | what the listing servers promise | abstract specification |
| `LwlServers` | several `sflwld` and the speakers that publish on them | composition; implements `Directory` |
| `LwlThreads` | the threads inside one `sflwld` | component |
| `Speaker` | connections and audio of `speaker.c` with the `mike.c` of the same machine | composition |
| `VoiceOnDemand` | `sfvod.pl` and the hosts that call it | component |
| `Chains` | a walk along a linked list that unlinks what must go | operator that `Reflect`, `LwlServers` and `Speaker` share |
| `EchoProofs`, `ReflectProofs`, `FaceTransferProofs`, `SpeakerProofs` | | theorems about the module of that name |
| `LwlProofs` | | theorems about `LwlServers` and `LwlThreads` |
| `ChildrenProofs` | | theorems about `Launcher` and `VoiceOnDemand`, the programs that start others |
| `PacketsProofs` | | theorems about `SendPkt`, `RtpPackets`, `Protocol` and `Robust` |
| `ChainsProofs` | | lemmas about chains and sequences, and induction over numbers |
| `MCEcho`, `MCReflect`, `MCFaceTransfer`, `MCProtocol`, `MCLwlServers`, `MCLwlThreads`, `MCSpeaker`, `MCVoiceOnDemand` | | values for TLC |
| `MCSending` | `SendPkt` and `Robust` side by side | values for TLC |

Definitions marked *mutant* are not part of a specification: each is a way its
neighbour could have been written wrongly, by which a property is shown to be able
to fail. Where one module of proofs is about several components it extends them all, so that
all but one name their parts after themselves (`ThreadsInit`, `PacketSpec`, `vodVars`).

**Signals.** In all modules SIGALRM is an action of its own, enabled whenever the
timer has expired. In `Echo` and `Reflect` the main loop is split at every point
where a signal between two statements makes a difference: after `select()`, before
and after the critical section is entered, between the look-up of the sender and
its use, before and after it is left, at the retry. `pc` says where the main loop
is. `Speaker`, whose program has no critical section, is split where a handler can
change what the main loop holds; `VoiceOnDemand` at every statement about the
tables; in `LwlThreads` the signal is a thread's own and its handler runs on top of
wherever that thread stands.

**Echo.** `conn`, `queue`, `crit`, `clash`, `sdes` and `lwltimer` are the variables
of the source; `pkt` is what the main loop holds on its stack, with the echo time
fixed *before* the critical section as at echo.c:812. `rel` has an activation of
`release()` for each caller, the main loop and the signal. Its steps are the loop
over due packets (`SendDue`, `Unlink`, `NothingDue`), the sweep of hosts
(`SweepHosts`) and the timer (`Rearm`). A packet of a host that said BYE stays in
the queue as the source leaves it, with `live` false (`p_buflen` 0). `alarm` is
one-shot and `Ularm` of a zero step disarms it, as `setitimer()` does. `Reentrant`
says whether a signal may strike inside a `release()` that the main loop called;
the code does not prevent it, see [5](#5-known-divergences). With `Prompt` the
process does all it has to do at one time before the next; without, it lags by any
amount. `received`, `echoed`, `gone` and `published` are history.

**DelayLine** is the abstract server: packets enter in order, leave in order and
no sooner than `Slack` before their time, once, and a host's BYE takes out what it
has in line. `IsDelayLine` maps it onto `Echo`: the line is the live packets of the
queue without a head that was sent and not yet unlinked.

**Reflect.** Connections are heap cells, `con` is what the cells hold and `conn`
the chain that links them; `rc`, `c` and the pointers of a `release()` in progress
are cell numbers and may dangle. A step that follows a dangling pointer goes to
`"undefined"`, where the model stops: nothing is claimed of what comes after. The
handler is one step because nothing interrupts it; a `release()` called by the main
loop is walked cell by cell because the handler interrupts it. `Datagram` lists
the forms told apart by the recognisers of `rtpacket.c`/`vatpkt.c`: sound,
other Speak Freely data, untagged data; identification, BYE, chat, and what is none
of these, in each protocol.

**Launcher.** A child is `none`, `running`, `hup` (told to end), `zombie` or
`reaped`; process numbers stand for themselves. `Wait` returns any zombie, and then
does what the loop at launch.c:389-422 does, the prompt being a state of its own
(`prompt`) since children end meanwhile.

**FaceTransfer.** `conn[h]` has the fields of a connection that concern its face;
`timerStep` is the step of the one timer. The other ends are stateless: `Serve`
answers a request from `face[h]`, which `Restart` may change. Requests and replies
are sets (with `Delay = "any"` they are also repeated and arbitrarily late). The
model of a file is `none`, `open` or `closed`, the last for a `FILE` that was
closed and is still pointed at. The viewer's fork and the assignment of its number
are two steps, for SIGCHLD comes between them.

**Robust.** Copies of a packet share a sequence number; `n` counts packets without
end and tells the truth about which is newer. The receiver's test is the code's:
distance in modular space, discard from -15 to 0. `silent` counts what is discarded on
one connection; one that fell idle begins anew. `InWindow` says when numbers of 8 bits
can tell the newer packet at all.

**SendPkt.** Positions and lengths in bytes, not the bytes. `Cases` pairs what may
be sent with the lists of destinations it may be sent to; a destination is the set
of its keys. The receiver's computation of the length (`Expected`) and of what is
put back (`Rebuilds`) is translated separately from `speaker.c`, and agreement of
the two is what is checked. `Harmless` says of which `Cases` the code is right.

**RtpPackets.** A packet is its form, its length and its sub-packets with the lengths
in their headers; a text is its length. `MakeSdes`, `MakeBye` and `MakeApp` end in the
padding they share (`Composite`, `Pad`); `AddItem` and `AddField` are the macro
`addSDES` and the loop over the fields of SPEAKFREE_ID; `Encrypt` and `Decrypt` are the 4 random bytes
and the rounding to 8; `IsValid` and `Has` walk the sub-packets as the recognisers do,
`Found` finds the items of a source description. `MakeSound`, `EncryptSound` and
`ReadSound` are `rtpout()`/`vatout()`, the padding of `sendpkt()` and
`isrtp()`/`isvat()`.

**Protocol.** `mike[h]` is the sfmike of host *h*, which may end, be killed and be
started anew in another way; `ctl[h]` and `data[h]` the control packet and the sound
under way. `con[h]` has protocol and session of the connection, `toggle` is the static
variable of speaker.c:2650. `ReceiveControl` is decryption and dispatch of a control
packet (2617-2898), `ReceiveSound` decryption, tag and session test of a sound.
Decryption with the wrong key yields `"rubbish"`, which seldom happens to begin like a
VAT packet (`Misread`, at most `MaxMisread` times); that it passes the test of RTCP,
whose lengths must add up, is left out. That what is decrypted rightly is recognised
as what it was sent as is what `RtpPackets` says.

**LwlServers.** `conn[s]` is the chain of server *s*, `queue[s][t]` what it has to
pass on to *t*; `net` holds the TCP connections that were made and not served yet.
Each has a thread of its own, so `Serve` takes them in any order: an announcement
replaces the entry with its name (lwld.c:1209), a BYE removes the first with its
session source (1273). `Relay` queues what was not itself passed on (the 0x40 bit,
1026), `Pass` is `forwarder_thread()`, which sleeps with its queue, `Sweep` the
time-out thread. On the other side `Start`, `Refresh` and `Exit` are
`sendLwlMessage()` of a speaker with its strikes; `Vanish` and `Crash` end a
speaker or a server without a word, and a server that comes back knows nobody.
`dropped` is history: when a message last found a queue full. `KeptListed` states from
when on a running speaker must be listed. At a server it tells that is one refresh after
both are up (`Reached`), or `ForwarderSleep` later if another server it tells forwards to
that one, since a BYE of its former session may still arrive that way, and the BYE takes
the entry out when the SSRC is the same. At a server behind that one it is after all three
are up and the last message that did not fit the queue (`ReachedBehind`).

**Directory** is a set of entries for each server, one for a name, that hears,
dismisses, expires or forgets. `IsDirectory` maps the chain to the set of its
entries. It is what the users of the server are told, and hides that names and
session sources identify an entry in two different ways.

**LwlThreads.** One server with `accept()`, a thread for each connection, the table
of threads (`ballOstring`, under `bsLock`), `timeout_thread()` and `killserv()`.
Descriptors are the lowest free number, as in Unix, which is how a stale
`sa_csock` comes to be somebody else's. `handler[c]` is where `killserv()` stands on
top of thread *c*; it is entered wherever the thread stands, also while it holds
`bsLock` (`Wrecked`) or `fwdlistLock`. `old` are connections older than
`ServiceThreadTimeout`; `Silent` clients never write.

**Speaker.** `conn` and `con` are the chain of connections with what the time-outs,
the busy signal and the session keys need; `main` is what the main loop does with a
datagram, interrupted at most `MaxHits` times by `Alarm`, which is the whole of
`release()` (speaker.c:700-910): connections age and go, the jitter queue is
flushed, the device is given back, the timer's step is chosen. `dev` has the audio
device. `mike` is `sfmike` on the same machine: it asks for the device by a datagram
(`lo`), tries to open it, asks again, gives up, gives it back, or is killed. The
mute requests go through the same receive path as everybody's datagrams, busy
signal and time-out included. `lost` and `late` are history.

**VoiceOnDemand.** `tables` are the three tables of the script, with undefined
entries reading as Perl reads them: an absent timer is 0, an absent host undefined.
`main` is the next statement. `Reaper` and `Tick` come between any two of them.
`mishap` names the first of three accidents that break the correspondence of tables
and processes, see [5](#5-known-divergences): a child reaped before it was recorded
(`lost`), the entry of a host changed by a handler while its packet was handled
(`raced`), a process number that came again (`reused`).

### How they compose

Each program is modelled with what it exchanges with the others. `LwlServers`
joins sflwld and the listing client of the speakers; `Echo` and `Reflect` have the
same client as an action of `release()`. `Speaker` joins sfspeaker and sfmike
through localhost. `FaceTransfer`, `Robust`, `SendPkt` and `Protocol` are four
protocols between sfmike or sfspeaker here and sfspeaker elsewhere; they touch disjoint
fields of a connection, so they are modules of their own, and meet `Speaker` in the
time-out of a connection (`GoIdle` of `Robust`, `TimedOut` of `FaceTransfer`).
`LwlThreads` takes apart what is one step in `LwlServers`.

## 3. The runs

All expect to pass.

| Run | Checks |
|---|---|
| `echo_late` | `EchoInv`, the inductive invariant; `NoEchoAfterBye`; `IsDelayLine`, the refinement |
| `echo_prompt` | `OnTime`: no packet late, sweep and listing in bounded time; `EchoedOnce`; `QueueOrdered` |
| `reflect_members` | `ChainIntact`; `ReflectedToAll`; `PageCurrent`; `NothingToGone` |
| `reflect_prompt` | `OnTime`: page and listing in bounded time, nothing to the machine itself |
| `launcher` | `NoOrphan`; `NoStrayKill`; `ShutsDown` |
| `face_calm` | `FetchPace`: the count of transfers and the timer; `OneViewer`; `FilesTidy`; `WholeFace`; `Settles` |
| `sending` | `EveryoneHears` of `SendPkt`; `PlayedSoon`, which is `PlayedInOrder` (in order, once, and newer ones at once) and `ShortSilence` of `Robust` |
| `protocol` | `Understood`: packets come out of their conversions as they were put in; `Stays`; `Heard` |
| `lwl` | `NoLoop`; `KeptListed`; `GoneUnlisted`, which is `ByeHeard` and `StaleGone`; `QueueBounded`; `IsDirectory`, the refinement |
| `lwl_threads` | `TableExact`; `HarmlessInTime`; `Served` |
| `speaker` | `InUse`; `NotLeftMuted`; `GetsAudio`; `KeyKept`; `Unblocks`, which is `BusyEnds` and `AudioFreed` |
| `vod` | `OneForEach`; `Released`; `LiveReaches` |

**Echo.** *echo_late*: two hosts, three datagrams, the clock to 6, signals anywhere
but in a `release()` of main, lag and `malloc()` failures. Three packets are the
least with a head, a middle and an end; the clock lets the first become due while
the second and third are received, and hosts time out with a packet still queued.
*echo_prompt*: the clock to 20, more than two periods of the idle timer after the
last packet, with shuffling of adjacent and non-adjacent packets (depth 2 relinks
the head with either of the next two) and random drops. The bounds on time
(`Timely`, `SweptInTime`, `ListingFresh`) are stated with the constants: no packet
is late at all, since a signal that found the lock taken costs nothing thanks to
the retry; a sweep or an update may be put off by at most one timer step and one
packet.

**Reflect.** *reflect_members*: three hosts, all forms of datagram, three datagrams
and two clock ticks with a time-out of one, so that a host joins, leaves by BYE or
time-out and returns, while another's packet is walked along a chain of three.
*reflect_prompt*: one of the hosts is the machine itself; the clock to 22, more
than an LWL period and a page interval after the last datagram. A new host that
finds nobody active restarts the timer, as does a clash, and each may put off what
was due by the longest step of the timer (`Longest`). For the page it is once: who puts
it off is a change, and is written if a page may be. For the listing it is once for each
datagram received (`ListingFresh`).

**Launcher.** Up to three conversations, children that end at any time. *Fairness:*
`Wait` and `Finish` are weakly fair, as a process is scheduled and `wait()`
returns when a child has ended; a child sent SIGHUP does end, both programs having
that as their handler's purpose. It is not assumed that the user answers, or that
a child ends by itself.

**FaceTransfer.** Two hosts with a face of one block, so that their transfers
overlap and share the counter and the timer; an answer comes before the next tick
(`Delay = "tick"`); requests and replies may be lost, hosts restart and say BYE,
`fork()` and the temporary file fail. That an answer is prompt is a real
restriction: a later one makes the counter wrong, see [5](#5-known-divergences).
*Fairness:* the timer ticks (the kernel delivers SIGALRM), `fork()` returns, and a
datagram under way is handled or lost; not that it is delivered. `MaxDrift` bounds
how far a repeated end of file may lower the counter.

**Robust.** One, two or five destinations, twenty packets, up to three overtaking
one, two copies of each, counters starting at the wrap, past the half of the range
and low; sfmike restarted once everything has arrived. With five destinations three
overtaking packets are 15 numbers, the last distance the window forgives; beyond
that see [5](#5-known-divergences). `MCSending` checks this and `SendPkt` in one run,
with either standing still while the other moves: `sendpkt()` hands the length and the
counter from destination to destination, and neither depends on the other. `MaxGap`, which bounds how many packets in a row may be
lost, is out of the run's way; `InWindow` is asserted of its constants. Beyond it, some
240 numbers lost in a row, a newer packet looks like an old one: the code cannot tell,
nor could any code with 8 bits.

**SendPkt.** Every codec with the lengths it makes (LPC-10 and CELP up to 12 and 8
frames, on both sides of the 16 bytes of stuffing), every set of keys for one
destination, lists of up to three for those lists in which the code is right: all
in the clear, or, where nothing is stuffed, those that pad last. For the others see
below.

**RtpPackets.** Source descriptions with canonical names of every length modulo 8 and
combinations of empty and given fields, texts of 0 to 131 bytes (the most that a
line of chat holds), sound of 1 to 20 GSM and LPC frames and 1 to 500 other bytes.
Only lengths modulo 8 matter to padding; a text of more than 255 bytes does not fit its
length byte and is left out, as is an empty name in the password file.

**Protocol.** sfspeaker has a key. One host runs two sfmikes after each other, in any
protocol but RTP without encryption; another one speaks encrypted RTP, so that the
two take turns of the keys from each other. A packet of each kind may be under way, is
lost or overtakes one of the other kind. Rubbish is misread once. *Fairness:* the timer
of sfmike goes off and its user goes on talking (weak), and what is under way is
received if it is sent again and again, though any packet may be lost (strong: UDP does
not lose everything). `Heard` assumes of the other hosts that they stop taking turns,
see [5](#5-known-divergences).

**LwlServers.** Two servers that forward to each other and a speaker that publishes
on one of them, started twice with a session source that may be the same again;
one server stops once; the clock to 6 with a time-out of 3, so that an entry is
refreshed, expires and is made anew. The order of the source's intervals is kept:
`LwlAssumption` asks for `ForwarderSleep < Retransmit` and
`Retransmit + ForwarderSleep <= TimeoutTime`, which are 30, 300 and 900 seconds
(lwld.c:23, 50; speaker.c:103).
`ForwarderMaxQ` is 1, so that the queue for a server that is down overflows. Timers
are on time: the clock waits for what is due, and for connections to be served.
Messages in `net` at one instant are served in any order, which is where a BYE
overtakes the announcement that follows it.

**LwlThreads.** Three connections and one descriptor left for them: one client
hangs, one waits for its descriptor, one comes late and gets the number another
gave back. *Fairness:* every thread is scheduled and a signal is delivered; a
client that takes too long is noticed. Clients owe nothing.

**Speaker.** One correspondent, localhost and sfmike, every kind of datagram in any
order, with and without the busy signal; one SIGALRM in the midst of each datagram,
two tries for the device, one of its datagrams lost. The steps of the timer are 1
and 2 ticks of unequal meaning, so that all three of its periods occur. *Fairness:*
a datagram that was received is handled, and the timer runs: both are one process
that is scheduled. Nothing is assumed of senders or of sfmike. `MaxHits * TockTock <
HostTimeout` is assumed: handling one datagram, a PGP decoding included, does
not take as long as a host is kept.

**VoiceOnDemand.** Two hosts, two calls, two process numbers, a time-out of two
ticks (the least the script admits), recordings and live sound, failing forks. Two
numbers let one come again while it is still in the tables. Nothing is promised
after a mishap, so that the run goes no further than each first one (`NoMishap`
as CONSTRAINT), and the properties say so. *Fairness:* the script runs, signals
are delivered, the alarm goes off, an sfmike that was told to end does, and one
that plays a recording comes to its end. Callers owe nothing.

Deadlock is checked in `launcher` and `face_calm`. It is not where the clock or the
number of datagrams is bounded (`Echo`, `Reflect`, `LwlServers`, `VoiceOnDemand`),
as the model stops at the bound, nor in `MCSending`, which ends, nor in `Protocol`,
whose hosts may all be away, nor in `LwlThreads`, whose server locks up or dies as
the code lets it (`Wrecked` says when), nor in `Speaker`, which may wait for ever
for a datagram.

## 4. The proofs

TLAPS proves the following for all values of the constants, from the assumptions
named in the modules and those mentioned here.

**`EchoProofs`**: `TypeCorrect` with or without re-entry and shuffling; `EchoSafe`
(`EchoInv`) when `release()` is not re-entered (`~Reentrant`); from it `Ordered`,
`TimerNeverLost` and `Locked`, shuffled or not; `HostsKnown`, `OnlyOnce`,
`ByeRespected` without shuffling (the last also with it, when memory does not
fail); `Refinement`: without shuffling, `Spec => IsDelayLine`; `OnTimeAlways` (`OnTime`)
for a prompt process. Of `EchoAssumption` three parts matter: `Latency < Epsilon`, which
the source enforces with an `#if` (echo.c:338), the timer periods being positive, and
the fast one being no longer than the slow one (323-335).

The properties are not inductive by themselves. *The queue stays ordered* because
the echo time was fixed before the critical section, so one needs that nothing in
the queue is later than the datagram in hand (`TimeInv`); *the timer is never lost*
because `release()` re-arms it only after its loop left nothing due at the time it
read (`ReleaseInv`), so the wait exceeds `Epsilon`, hence `Latency`; *nothing is
sent after BYE* because the purge finds all packets of the host (`Purged`), which
needs the connection looked up two steps before still to be there (`ServeInv`);
that needs the lock (`LockInv`), which ties `crit`, the main loop's place and the
two activations together; *nothing twice, and the refinement* need the numbers of
packets to ascend along what was sent, what waits and what is being received
(`OrderInv`), with the head that was sent and not unlinked counted as sent. *In time*
needs the alarm to be set no later than whatever waits: a packet, a host's time-out, the
listing, each with what a packet received since may have put it off by (`PromptInv`).
There is one lemma per conjunct (`LockStep`, `TimeStep`, `ReleaseStep`, ...), each with
one step per action that can disturb it.

**`ReflectProofs`**, for any hosts, datagrams and intervals. `NothingSentToGone`
(`NothingToGone`) and `PageAlwaysCurrent` (`PageCurrent`) do not speak of the chain:
`MemberInv` is about the allocated cells wherever pointers lead. A host has one cell; a
cell of a host that left says so; and from look-up to the end of the critical section the
sender's cell stays, because `crit` keeps the handler out. `PageInv` adds that a page
which is not marked for rewriting lists exactly the cells that are alive.
`ChainAlwaysIntact` (`ChainIntact`) and `ReflectedToAllAlways` (`ReflectedToAll`) do:
the chain links exactly the allocated cells, once each, and a new cell is none of them
(`ChainInv`); before the sender is looked up the loop will start at the head or its
head is freed (`HeadInv`); after it each other member's cell is still ahead of the loop or
was served, or the loop stands on a freed cell (`WalkInv`), which is what its `rc`
carried across the lock costs, see [5](#5-known-divergences). `OnTimeAlways` (`OnTime`),
for a prompt process: the alarm is set no later than what waits and what a datagram
received may put it off by (`TimeInv`).

**`LwlProofs`**, about `LwlThreads` for any number of connections and descriptors:
`TableCorrect` (`TableExact`, with `PlaceInv`: the main loop works on a connection it
accepted, a handler runs on a running thread) and `HarmlessWhileInTime`
(`HarmlessInTime`, with `CalmInv`: as long as nobody is late, each lock is held
exactly where the code takes it and each descriptor belongs to its thread). About
`LwlServers` for any users, servers and forward lists, in circles too: `NeverLoops`
(`NoLoop`) and `QueuesBounded` (`QueueBounded`) with `LoopInv`: what waits in a queue
came from a speaker and not from a server. `DirectoryImplemented`: `Spec => IsDirectory`,
each step of a server being one of a directory or none, from the chain having each name
once (`ChainInv`). `GoneAreUnlisted` (`GoneUnlisted`) has two parts. *Who went away without a
word is dropped in time*: the next sweep of a server comes before any of its entries
is older than the time-out and one sweep (`StaleInv`). *A farewell is heard*: a message
comes to a server that its speaker tells, or as a copy to one that such a server forwards
to (`OriginInv`), so that the exception in `ByeHeard` is the only way for a late copy; and
from the BYE on, the session has no entry with a server that was told, or the BYE is among
the connections not served yet (`GoodbyeInv`) while no announcement of the session is
(`JustSent`). `RunnersAreListed` (`KeptListed`): of the last announcement of a running
speaker, each server it tells and each server behind that has an entry, or the
announcement is on its way there; and until it has arrived, the entry of the one before
is still there (`ListInv`). The second half is needed because a refresh finds the first
half true of what then is the announcement before; the entry outlives it as the time-out
is no shorter than a refresh and a forwarder's sleep. How long a message may be on its
way, and that a former session's BYE is gone when the speaker is reached, is `PromptInv`:
what a speaker sends is served in the same instant, and what a server passes on has
waited at most once for its forwarder since both servers were up.

**`SpeakerProofs`**, for any correspondents, tries and backlog. `NeverLeftMuted`
(`NotLeftMuted`), with `LastWord`: when sfmike has stopped and nothing was lost, its last
datagram, on the way or obeyed, was a resume. `InUseAlways` (`InUse`): the
connection whose datagram is handled is on the chain and too young to expire, by the
signals that came since (`HandInv`). `KeyOutlivesSilence` (`KeyKept`), an action
property: what a sweep keeps, it keeps with its key. `GetsAudioAlways` (`GetsAudio`):
the tries that sfmike has left, the requests that were lost or late and what is on the
way add up (`GetsInv`).

**`FaceTransferProofs`**, with `Delay = "tick"`, for any hosts, sizes and time-outs:
`OneViewerEach` (`OneViewer`), `FilesAlwaysTidy` (`FilesTidy`), `WholeFaces`
(`WholeFace`), `FetchesAtPace` (`FetchPace`). `FileInv` ties, for each host, the
state of its transfer to its file, the blocks written to the address (`UpTo`), the
one datagram that may be under way to the block waited for (`BoxInv`), and the
viewers that run to the number noted or about to be. `Paced` counts: the counter is
the cardinality of the hosts being fetched, whichever way each transfer ends.

**`PacketsProofs`**. About `SendPkt` with `Harmless(Cases)`, for any lengths and numbers
of destinations: `AllHear` (`EveryoneHears`) and `AllTheSame` (`SameToAll`, no run).
`AloneInv`: whoever has been served got what it would get alone, and the length
that is left in `pktlen` is one with which the next will. The configuration asserts
`Harmless` of what it checks. About `Protocol` for any hosts, keys and ways to talk:
`TypeCorrect` and `ProtocolStays` (`Stays`), an action property. `TalkInv`: what is
under way says of its sfmike and session what that one is or was (`SenderInv`), and a
connection that is over is in no protocol (`ReceiverInv`); a lemma says of each
packet and each guess of the key what decryption and the recognisers make of it
(`MisreadIs`, `DecipheredIs`). About `RtpPackets` for
all texts whose length fits its byte and sounds of any number of frames:
`EverythingUnderstood` (`Understood`). A composite packet is an odd multiple of 4 bytes
whose sub-packets are as long as they state (`CompositeIs`), so that encryption adds 4
bytes and decryption takes them back (`CipherReturns`); adding an item to a source
description leaves what the others say (`ItemAdded`), so that `Found` finds each
(`FoundIs`). The assumption `RtpAssumption` is what the model leaves out: a text of more
than 255 bytes is cut by its length byte, and an empty full name is sent as a name.
About `Robust` with `InWindow`, for any counts of
destinations, copies and bounds: `InOrderAndSoon` (`PlayedSoon`). The hypothesis is
needed: without it the property is false. While the two ends are in
step, con_rseq is the number of the packet played last and nothing newer was discarded
(`StepInv`), and what is under way has the number that goes with its place
(`FlightInv`), so that the test of the numbers is a test of age (`InStepPlays`). When
they are not, on a new connection or after sfmike was started anew, each newer packet
that is discarded stands higher in the window of 16 than the one before
(`Climbing`, `LostClimbs`), so that 16 are the most; if sfmike is started anew while the
connection has played nothing, its numbers begin at 0, which -1 does not discard
(`Fresh`).

**`ChildrenProofs`**. About `Launcher` for any number of conversations: `TypeCorrect`,
`SignalsOwn` (`NoStrayKill`), `LeavesNone` (`NoOrphan`), `OneAtATime` (`OneMike`).
`KeptInv`: the numbers the launcher keeps are exactly those of the children not yet
waited for, and children not yet started are `none`. About `VoiceOnDemand` for any hosts,
process numbers and time-outs: `OneForEachAlways` (`OneForEach`). `ServeInv`: before a
mishap the three tables agree with each other (`Agree`), each sfmike that runs is
recorded and each timer that stands still belongs to an sfmike that is there
(`ChildrenKnown`), and the main program knows of the tables what its place says
(`MainKnows`); with live sound every host's child is undefined (`LiveInv`).

**`ChainsProofs`**: what a walk along a chain keeps (`KeptRange`, `KeptOrder`,
`KeptEmbeds`), for chains of any length. A walk is a recursive function, and the induction
along it is on the numbers below the length: `Induction` states it for a *set* of numbers,
from the least element of any set of numbers, so that no theorem with an operator
for a parameter is needed. The scan of sfvod's tables (`ScanKeeps` of `ChildrenProofs`)
is proved the same way.

*Only model-checked.* Everything about liveness (`ShutsDown`, `Settles`, `Served`,
`Unblocks`, `Heard`, `Released`, `LiveReaches`), which is out of the prover's
reach here.

## 5. Known divergences

Where the code does not do what its comments or documents say. TLC refutes the
properties named here under the constants given; they are in the modules, marked as
not holding, and in no run.

*Echo and reflector*
- `QueueLocked` of `Echo` with `Reentrant = TRUE` (echo.c:974-976 against the
  comments at 88-89): `release()` is called by the main loop after `crit` was
  lowered, and `clash` is never lowered, so that after one clash every pass of the
  main loop has a `release()` that SIGALRM can enter again.
- `NoDangling` of `Reflect` with two hosts, sound only, `Prompt = TRUE`,
  `TickTock = 1`, `TockTock = HostTimeout = 2`, `MaxPackets = 3` and `MaxTime = 8`:
  `rc = conn` is read before `select()` (reflect.c:938) and followed at 1345, after
  the "connection list critical section lock" (974) was lowered at 1297; a SIGALRM
  in between has freed it.
- `SpecialsDiscarded` of `Reflect` with `Datagram <- AllForms`: the test that
  discards faces and keys (reflect.c:1318) applies only to `PROTOCOL_SPEAKFREE`, and
  after a BYE the protocol is unknown until the next identification.
- `FastWhileActive` of `Reflect` with `Datagram <- AllForms`: the `continue` of a
  discarded datagram (reflect.c:1325) skips the retry after a clash, which had set
  the timer to 60 s.

*Launcher*
- `WholeStack`: when sfspeaker has died and sfmike was shut down for it, the
  launcher offers the next conversation without a speaker (launch.c:402-406),
  against its comment at 396-400.

*Faces*
- `FetchPace` of `FaceTransfer` with `Delay = "timeout"` and `MayBye = TRUE`: a
  reply that arrives after a BYE made the connection idle opens it anew, matches
  address 0 and resumes the transfer without counting it (speaker.c:3210-3223); it
  goes on at the slow step and its end takes the counter below zero (3241).
- `ViewerAlive`: a viewer that ends before `fork()` has returned to the parent is
  noted after `childterm()` ran (speaker.c:3303); its file stays and its number is
  sent SIGHUP later (778).
- `CleanExit`: `exiting()` deletes only the files of running viewers, not that of a
  transfer in progress (speaker.c:953).
- Not a property: when the `fork()` for the viewer fails, the complete file stays
  until the connection is forgotten (speaker.c:3288).

*Sound*
- `FirstPlayed` of `Robust`: on a new connection `con_rseq` is -1, from which the
  numbers 240 to 255 are "behind": up to 16 packets are discarded (speaker.c:2978).
- `PlayedInOrder` of `Robust` with `DestCounts = {8}`: the counter advances for
  every destination (mike.c:971), and a packet two others overtook is 16 behind,
  taken for a new sequence and played. `InWindow` excludes it.
- `EveryoneHears` of `SendPkt` with `Cases <- CelpClear`: the reversal of packet
  stuffing tests for LPC-10 only (mike.c:997-1001, against log.doc:1333-1336), so
  that with CELP every destination after the first gets a packet 16 bytes short,
  stuffed from the wrong place. With other `Cases`: LPC-10 or CELP to two encrypted
  destinations (997 restores only for those in the clear); an encrypted destination
  before one in the clear, which is sent the padded length (mike.c:789) against
  sfmike.1:534-538; RTP with DES to two destinations, where the second finds the
  length already padded and sets no padding bit (mike.c:768).

*Packets and protocols.* The exceptions in their properties:
- The turn of the keys is common to all correspondents (speaker.c:2650): two of them
  whose packets cannot be read, say for another key, and who send in step with a third
  may keep the right key from it for ever. Assumed away in `Heard`.
- With a key given, the control packets of VAT without encryption are decrypted all
  the same, and so is sound without encryption once its protocol is known (2633):
  who speaks in the clear is known but not heard. Assumed away in `Heard` (`Matched`).
- A VAT packet of sound whose length is no multiple of 8 is encrypted to the end of its
  last block and sent without it (mike.c:778): its end cannot be decrypted. Exception
  of `SoundReturned`.
- A packet of an sfmike that has ended takes the protocol or the session of the next one
  back until its next identification. Exception of `Stays`.
- Outside the properties: `else if (rp.item[2].r_text != NULL)` repeats the condition
  before it (speaker.c:2845, reflect.c:1212), so that the canonical name never stands in
  for a missing e-mail address.

*Listing server.* The first three are the bounds and exceptions in the properties:
- A queue takes `ForwarderMaxQ + 1` messages, as the test is `>` (lwld.c:661), and
  more when several threads test at once, outside the lock.
- `killserv()` takes `bsLock` (1582) in a handler that may have interrupted the
  same thread holding it (1632): the server locks up. A thread whose
  `pthread_create()` failed stays in the table (1902), and `timeout_thread()` kills
  its number -1 (1524).
- `killserv()` closes `sa_csock`, which `servicePacket()` may have closed before
  (1475), and which may be another client's by then; a killed thread keeps
  `fwdlistLock`, after which nothing is forwarded.
- Outside the models: `servicePacket()` changes the chain without `connLock`
  (1209-1245, 1275-1301, against the comment at 108); an entry that is replaced
  does not mark the page changed; the limit of five forward servers of sflwld.1
  does not exist with threads.

*Speaker.* The exceptions in its properties:
- A connection with a session key is lost when a connection after it on the chain
  expires in the same tick: `l` is not advanced past a key connection that is kept
  (speaker.c:795-805). Exception of `KeyKept`.
- The jitter queue, flushed after a mute, opens the device again (908, against
  log.doc:158). Exception of `GetsAudio`.
- localhost is a correspondent like others to the busy signal: its mute may be
  answered with it, or make the line busy for others; a resume after a talk longer
  than `hosttimeout` may be turned away, and sfspeaker stays muted. So it does when
  the resume is lost or was never sent because a signal ended sfmike inside
  `getaudio()` (mike.c:1090). Exceptions of `NotLeftMuted`.
- Outside the properties: with `-b` two talkers are let in when neither has
  identified itself yet, or after a BYE before the next tick (log.doc:1797).
- Outside the model: a new connection is linked (2447) before its fields are set,
  while `gethostbyaddr()` blocks (2450); the append to the jitter queue (1447) races
  with its flushing inside the same few statements.

*Voice on demand*
- `Released` for live sound (its exception `live` left out): with `-a`, `$child` is
  never assigned, so `$hosts{ip}` is undefined and `defined $hosts{ip}` (sfvod.pl:204)
  false for ever: a BYE is not recognised (against sfvod.1, `-p`), no host is ever
  timed out (against `-t`), and sfmike is killed and started again for every control
  packet rather than "each time a host connects or disconnects" (sfvod.1, BUGS).
- The three mishaps: a child that ends before its number is recorded (319) leaves a
  host that never times out, and a number that a later BYE sends SIGINT to; a
  handler between the test of the timer and the `kill()` (225-229) makes that go to a
  number just reaped or, when the host was timed out, to the server's own process
  group; and as long as a user stays connected after the recording ended the tables
  keep its child's number, which the system may give to the sfmike of another host.
- A `fork()` that fails returns undefined, which equals 0: the server itself
  becomes the sfmike (291). `Dead` in the model.
- A BYE from a host that is not known (any more) starts the recording (204-299).

## 6. What is not modelled

- *Payloads*: samples, images, chat, names, ciphertext; the modules keep what
  the code decides on. Codecs, ciphers, sample arithmetic and device drivers are
  pure functions or pure input and output. More than two thirds of the lines of the
  repository are third-party codecs and ciphers (GSM, LPC, LPC-10, CELP, ADPCM, DES,
  IDEA, Blowfish, AES, MD5) of this kind, which is why the lines modelled are a small
  share of all.
- *RTP and VAT packets*: the bytes; A-law and 16-bit samples, which sfmike does not
  send; the packets made for the listing server (not `strict`), which are neither
  padded nor encrypted; the IDLIST of VAT, which only prints.
- *sfspeaker*: answering, recording, the ring, multicast groups, starting sfmike for
  a caller behind a NAT. `Speaker` takes the receipt and classification of a
  datagram as one step, and an appended sound as another.
- *sfmike*: the keyboard, chat, sending files at the pace of a timer, host look-up.
- *sflwld*: the answers to queries, its pages (the code is that of `reflect.c`), the
  build without threads. `LwlServers` takes `servicePacket()` as one step, which is
  an idealisation, see above; `LwlThreads` leaves the chain out.
- *sflwl* prints one answer and ends.
- *`SendPkt`* leaves VAT out, whose packets DES does not lengthen. `Protocol` leaves a
  host out whose packets are all lost for `hosttimeout`: it begins as a new one.
- *`Reflect`* leaves out the monitor host, which no state depends on, and what
  happens after a dangling pointer was followed.
- *Option parsing, look-up of host names, logging* in all programs: they happen
  before the loop or have no effect on it. A slow look-up in the loop is the lag
  of a process that is not `Prompt`.

## 7. What could follow

In the order of what would add most:

1. the chain of `lwld.c` pointer by pointer with several threads in
   `servicePacket()`, which implements `LwlServers` with one thread and not with two;
2. the append to the jitter queue of `speaker.c` statement by statement against
   its flushing.
