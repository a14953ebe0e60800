# TLA+ specification of Moonlight Tailscale for PS Vita

The program puts a user-space WireGuard tunnel and lwIP under Vita Moonlight.
Its own logic is small and concurrent: a one-shot start-up, two threads that
share a WireGuard peer over an unreliable network, a socket shim that lives
between two network stacks, a key file that must outlive crashes, and three
diagnostic applications that are run again and again over half-initialised
networks.  The
modules here model that logic, TLC checks it on small instances, and TLAPS
proves the safety properties for every value of the constants.

Paths below are relative to the repository (`src/` in `PROJECT.json`).

## 1. Inventory

| Component | State | Operations | Modelled in |
|---|---|---|---|
| Replay window (`patches/wireguard-lwip-replay-window.patch`) | `replay_counter`, ring bitmap of a keypair | `wireguard_check_replay`, the reset in `wireguard_start_session` | `ReplayWindow` |
| Tunnel start-up (`moonlight/tunnel.c`) | `g_state`, its mutex and condition variable, `g_tunnel` | `tsvita_tunnel_ensure_started`, `start_tunnel`, `initialize_lwip`, `tsvita_tunnel_is_online` | `TunnelStart` |
| WireGuard session (`moonlight/tunnel.c`) | keypairs, pending index, timers | initial handshake, receive thread, rekey, keepalive, `tunnel_netif_output` | `Session` |
| Tunnel data path (`moonlight/tunnel.c`, `moonlight/lwip/lwipopts.h`) | `g_peer_mutex`, lwIP's mailbox and buffers, the rejection counters | `receive_thread_main`, `process_transport_locked`, `record_transport_rejection`, `tunnel_netif_output` | `DataPath` |
| Descriptor tables and routing (`moonlight/socket_shim.c`) | `g_virtual_fd_flags`, `g_virtual_socket_types` | `socket`, `accept`, `close`, `fcntl(F_SETFD)`, `setsockopt(SO_RCVTIMEO)`, and every call that is passed on by `is_virtual_socket` | `ShimFds` |
| `connect` (`moonlight/socket_shim.c`) | the socket's mode, locals across blocking calls | `__wrap_connect` | `ShimConnect` |
| `poll` and `select` (`moonlight/socket_shim.c`) | locals of the sliced loops | `__wrap_poll`, `__wrap_select` | `ShimMux` |
| Identity files (`src/wg_handshake_probe.c`) | private key, public key, peer configuration | `load_or_create_private_key`, `export_public_key`, `load_peer_config` | `Identity` |
| Handshake probe, network half (`src/wg_handshake_probe.c`) | network module, socket, netif, pcbs and flags of one run | `initialize_network`, the handshake, the UDP and TCP echo with lwIP's callbacks, the cleanup | `Probe` |
| Peer configuration (`moonlight/tunnel.c`, `src/wg_handshake_probe.c`), IPv4 literals (`src/ipv4_literal.c`) | none | `load_peer_config`, `tsvita_parse_ipv4_literal` | `PeerConfig` |
| IPv4/UDP packets (`src/ip_udp_packet.c`) | none | builder, validator, checksums | `IpUdpPacket` |
| Platform layer (`src/wireguard_platform_vita.c`) | `g_random_error`, two clocks | `wireguard_random_bytes`, `wireguard_tai64n_now` | `CryptoProbe`, `Stamps` |
| Network lab (`src/main.c`) | what it has open, the results of a run | `initialize_network`, `test_tcp_connect`, `test_stun`, `test_packet_capture`, `cleanup_network`, the button loop | `NetworkLab` |
| Crypto probe (`src/wg_crypto_probe.c`) | the checks of a run, its log | `run_probe`, the button loop | `CryptoProbe` |
| Logging, drawing, port headers, echo tool, build scripts | none of their own | | not modelled |

How they interact.  An application thread's first AF_INET call enters
`tsvita_tunnel_ensure_started`; one thread runs `start_tunnel`, which performs
the initial handshake, starts lwIP's thread and creates the receive thread.
From then on lwIP's thread calls `tunnel_netif_output` (encrypt, send), and the
receive thread decrypts, checks replay, hands packets to `tcpip_input` and runs
the timers; both use the peer under `g_peer_mutex`, and the receive thread
keeps it while it hands a packet over.  The shim sends each socket
call to lwIP or to the Vita's own stack, by the answer of the start-up or by
the number of the descriptor.

What is hard here:

- *Concurrency*: threads racing into the start; the keepalive timer against
  lwIP's thread; a clock sampled before the lock it is compared under; shim
  tables without a lock; `connect` holding flags another thread changes.
- *Network*: loss, delay, duplication and reordering, above all across a rekey.
- *Failure*: ten stages of `start_tunnel`; `sendto` failing after a counter
  was consumed; one of several `fcntl` calls failing.
- *Limits*: lwIP's mailbox and buffer pool, the 511 bytes of a configuration
  that are read, the ends of the descriptor range, checksums and octets.
- *Time*: the 5 s handshake deadline, the sliced waits, unsigned subtraction.
- *Repetition*: a diagnosis that failed half-way is run again in the same
  process; an answer to the earlier run arrives in the later one.
- *Crashes*: power lost between write, sync and rename.

`PROJECT.json` lists each hazard at its line with the properties that cover it.

## 2. Modules

**`ReplaySpec` / `ReplayWindow`.**  The contract is a set: a number is admitted
when it is legal, inside the window and was never admitted.  The detailed
module has the ring of words, the `number = counter + 1` shift, the clearing
loop (the set of slots it touches) and both early returns, in `uint64_t`
arithmetic (`% UINT64`).  `accepted` and `verdict` are history.

**`OneShotOutcome` / `TunnelStart`.**  The contract is one decision, told to
everyone who asks and to nobody before it is made.  The detailed module has one
action per critical section of `g_state_mutex`, one per stage of `start_tunnel`
with its failure exit, the callback of lwIP's thread, spurious wakeups, and the
shim's `socket`, `getaddrinfo` and `freeaddrinfo` that act on the answer.
Refinement: `outcome` is undecided in `STOPPED` and `STARTING`, a thread is
asking while its pc is in `InEnsure`, `answers` are the stacks calls were
routed to.  A failed `netifapi` call may leave the netif absent or partly
configured, and a failed `pthread_create` keeps the outer socket open, as in
the code.

**`Session`.**  A handshake is named by its sender index and so is the key it
yields.  `net` is a set of datagrams from which nothing is removed by being
received, so each may arrive late, repeatedly and in any order; `Lose` removes
one.  The receive thread is split where it holds no lock (`recv`, `sample`,
`rekey`, `keepalive`), and `NetifOutput` may run between `sample` and `rekey`,
which is the race on `now`.  Encryption consumes the counter whether or not
`sendto` succeeds.  A keypair's replay window is the set `ReplaySpec` promises.
External: the gateway (answers each initiation once, sends with a key only
after a packet under it arrived), wireguard-lwip's handshake functions, and the
path.  The gateway's own initiations are ignored by the code (`ReceiveNothing`).

**`DataPath`.**  The same threads as in `Session`, without keys and with what
they wait for.  One action per lock, unlock, mailbox operation and return; the
verdict on a datagram is an input (its causes are in `Session`), -32, -33, -40,
-41, -43 and -44 being one since `record_transport_rejection` does not tell them
apart; a failed `pbuf_take`, which frees the buffer at once, is a failed
allocation.  `tcpip_input` tries to post and frees on failure; the application's
calls block while the mailbox is full (`LWIP_TCPIP_CORE_LOCKING` is 0), and
lwIP's thread serves one message at a time.

**`ShimFds`.**  A stack's calls are atomic, each access to a table of the shim
is a step.  lwIP may hand out a descriptor as soon as `lwip_close` has freed it.
`PassThrough` is every wrapper that only picks a stack; `Route` compares
`is_virtual_socket` with the stack that really has the descriptor.  lwIP's
range comes from `lwipopts.h`, the shim's from its own two constants.

**`ShimConnect`.**  Each lwIP call is a step and may fail; between steps the
network answers and another thread changes the mode or closes the socket.
`"stale"` is an errno left by an unrelated earlier call.  Assumed: no other
thread consumes `SO_ERROR` during the call.

**`ShimMux`.**  One loop stands for the four in the code (poll or select,
virtual-only or mixed).  What a caller asks for is a set of interests, a
descriptor with an event, so that a descriptor may be ready for one and not for
the other; `Count` is the number returned, which is of bits in a virtual-only
select and of descriptors elsewhere.  `watch` is the caller's fd_set, which
virtual-only select overwrites and the loop head restores.

**`Identity`.**  One action per system call.  `dirty` holds the paths whose
data has not been synced; a crash may tear those.  `rename` is assumed atomic
and durable.  Every open, stat, read, write and sync may fail.

**`Probe`.**  Extends `Identity`: what `run_probe` does once the configuration
is complete.  One action per stage with its failure exit, one per callback of
lwIP, and `Cleanup` and `cleanup_network` as the code has them; `Identity`'s
`EndRun` is the last of its steps.  `tcp` is the pointer the probe keeps and
`pcb` is lwIP's own view of the connection.  A deadline is an external moment
(`Expire`).  Assumed of lwIP: it frees a pcb before it calls the error
callback, and `netif_remove` aborts what is still bound to the address.

**`NetworkLab`.**  One action per call that can fail, with the handles open at
each moment; the control host, the baseline address and the STUN test go through
the same stages one after the other (`target`).  `initialize_network` keeps what
it reached, so a later run starts in the middle.  A run's number is its STUN
transaction id (the code takes the process clock, which never repeats).

**`CryptoProbe`.**  The order of draws, checks and verdict over a generator that
fails now and then.  What the primitives compute is an input.

**`Stamps`.**  `wireguard_tai64n_now` takes seconds and fraction from two clocks
that are out of phase, and the process clock starts again with every launch.
External: the gateway, which wants growing stamps.  Assumed: the wall clock is
not set back.

**`PeerConfig`.**  `load_peer_config` on a sequence of lines, each with the bytes
it takes, so that the read limit falls inside a line.  A value is every character
between the `=` and the newline; what was read of it goes through `trim`, which
removes blanks and tabs in front and carriage returns too behind, and a port
through `strtol`, which skips all white space in front (`Unsigned`).  `ParseLine`
is one turn of the loop, `Completed` the checks after it, and the two programs differ only in
their codes (`TunnelCode`, `ProbeCode`).  The loops of the code are recursive
functions: `Extent` (bytes read), `Settings` (the settings after each line) and
`Cursor` (the address parser after each character).  `Says`, `Holds`, `Dotted`,
`GoodAt` and `PortAt` define the right answers without a parser or a trimming
loop: what may stand at a place of a text by its neighbours, which part of a value
has only blanks around it, and which line of a file counts.  Abstracted: a name and
its blanks to one character, comments to blank lines.  Assumed: a file is text (a
NUL byte would end it for the C library).

**`IpUdpPacket`.**  Builder and validator on bytes, with the damage, padding or
cut a packet may meet in between.  `checksum_add` is the sum of `Summand`s, a byte
in an odd place counting 256 times; `fold` is one turn of the loop in
`checksum_finish`, of which two are enough below 2^32.  The fields are written as
the code does, the checksum into a header whose checksum is zero.

**`MCApps`** puts `Probe` (with `Identity`) and these five modules into one
instance.  The programs never run together, so `part` is chosen in the first
state and only that part moves: the state graph is the sum of the six, and each
property reads the variables of one part.

The operators marked "Mutant of ..." are plausible bugs in the definition that
follows them.  Nothing uses them; `PROJECT.json` pairs each with the property
that breaks when it takes the definition's place.

## 3. Runs

Bounds are small enough for TLC and large enough for each case to occur.

| Run | Instance | What it shows |
|---|---|---|
| `replay` | 4 words of 2 bits, limit 13, modulus 22 | The ring holds exactly the accepted numbers of the window and implements `ReplaySpec`, so no number is admitted twice. Almost two laps of the ring, jumps over some, all and more than all words, counters at and above the limit up to the wrap. |
| `replay_doc` | same | Finding 1. |
| `start` | 3 threads, every stage may fail | No lost wakeup, a complete tunnel behind every lwIP route, right deallocator, nothing left open after a failure (but for `pthread_create`), refinement of `OneShotOutcome` (so one start), every call returns. |
| `session` | 2 handshakes, 2 packets per key and direction, 2 ticks; 2.1 million states | No nonce reuse, no duplicate delivery, both directions keep a common key across a rekey, a keepalive has a cause. |
| `session_live` | 3 handshakes, 3 ticks; loss only before the tunnel is online | The initial handshake ends, and an old session is replaced. |
| `session_loss` | same, with loss at any time | Finding 2. |
| `datapath` | 2 application threads, mailbox and pool of 2, 2 datagrams | No buffer is lost or freed twice, every datagram of the peer is counted once, every call returns and the receive thread comes back to its socket. A mailbox of 2 is full with both threads' calls, with packets, or with one of each. |
| `fds` | 1 thread, 3 virtual descriptors, a real one on either side | The tables describe the socket that has the descriptor now, and every call goes to its stack. |
| `fds_race` | 2 threads, same descriptors | Finding 3. |
| `connect` | 1 call after another on one socket | Success means connected, the mode is kept, EINPROGRESS does not escape, the call returns. |
| `mux` | a virtual descriptor for reading and writing, a real one for reading; timeouts 0, 1 and none | What is reported was ready during the call and is counted right; a timeout is not early and not over data; a call returns when its time is up or something stays ready. |
| `apps` | see below; 132,000 states | The properties of the six parts. |

The `apps` run, part by part: *probe*: 3 keys (one in use and two made in vain);
the key file is never torn, an announced key lives, the copies agree, the user's
settings are kept, every exit releases the network module, the socket, the netif
and the pcbs, and each once, an approval rests on echoes of the same run, every run ends.  *Lab*: 3 runs, so each
of the three network stages can fail once; nothing is acquired over what is open
or left behind (`LabReleases`), a good result rests on this run's connection or
answer (`LabReportsTrue`), every run gets back to the buttons unless the ignored
`setsockopt` failed (`LabRunEnds`).  *Crypto*: unbounded repetitions; an approval
means that no draw of that run gave zeroes.  *Stamps*: four seconds of three
fractions and any number of launches; an initiation is refused only within the
second in which another was accepted.  *Configuration*: files of up to 4 lines
that end before, at and after the read limit, with blanks, carriage returns and
form feeds around values and a cut that leaves a blank to trim; addresses of 2 octets and up to 5
characters (two octets have a first and a last one, which is all the code tells
apart; 256, three and four digits, empty octets and trailing dots occur).
*Packets*: payloads of 0 to 3 bytes around the capacity, a datagram whose
checksum comes out as zero, every byte damaged with three values, every length.

One tick of `Session` is the keepalive interval; the rekey interval is two
ticks, so both timers fire between and during steps of the other thread.
`UINT64 = 16` is larger than any clock value, so only a real underflow wraps.
`CHECK_DEADLOCK FALSE` stands where the instance can run out of indices, packets
and ticks (`Session`), where a closed socket ends the story (`ShimConnect`) and
where a program has been left (`MCApps`).
No run uses symmetry.

`KeepaliveJustified` states the wrap-around as the code has it: when lwIP's
thread transmits between the sample of the clock and the lock, a keepalive goes
out at once.  It is harmless, one packet too many, and bounded by the property.

### Fairness

- `TunnelStart`: weak fairness of each thread inside a call and of lwIP's
  callback. No stage blocks for ever, as the handshake has a 5 s deadline and
  `recvfrom` a 100 ms timeout. That the timeout could be set is an assumption: the
  code ignores the result of this `setsockopt` (`tunnel.c:628-631`), and without it
  the deadline is checked only after the next datagram. Nothing is assumed about
  spurious wakeups.
- `Session`: weak fairness of the starting thread, the receive thread and the
  clock (`Scheduled`), with the same assumption about `setsockopt`, and what
  replacement of a session needs: the gateway answers, a response that keeps being
  in flight is received, a `sendto` retried for ever succeeds.
- `ShimConnect`: the thread runs, and lwIP's SYN retransmissions are bounded, so
  a connection attempt ends.
- `Probe`: every call of a run returns and the clock reaches every deadline;
  nothing about what the gateway sends. Again it is assumed that the receive
  timeouts could be set (`wg_handshake_probe.c:681-682` and `:807-810` ignore the
  results). Only `NetworkLab` has the failure of such a call as a step.
- `DataPath`: strong fairness of the receive thread, of lwIP's thread, of its
  taking a message and of each blocked post: the mutex and the mailbox become
  free again and again, and pthread's scheduler and the condition variables of
  lwIP's mailbox let a waiter in in the end; lwIP's timeouts are a few periodic
  timers, which do not keep it from its mailbox. Nothing is assumed about the
  network or about what the application calls.
- `NetworkLab`: every call returns, `recvfrom` only with its timeout set.
- `ShimMux`: the thread runs and the clock advances; nothing about the network.

### Findings

1. **Replay window.** README.md:105 announces "An 8,192-packet replay window";
   the code accepts 8192 - 32 = 8160 behind the newest, since one word of the
   ring is always being reused. A documentation matter.
2. **A lost rekey is never retried.** A rekey is sent only while
   `pending_handshake_sender` is 0 (`tunnel.c:456`), and only an accepted
   response resets it. When one datagram of the exchange is lost the session is
   never replaced, which ROADMAP.md:57 and :65 ask for.
3. **Close erases the type of a new socket.** `__wrap_close` resets
   `g_virtual_socket_types` after `lwip_close` has freed the descriptor; a
   socket created by another thread in between loses its type, and the refusal
   of `SO_RCVTIMEO` on UDP ("an intentional API contract",
   `socket_shim.c:378`) with it.

## 4. Proofs

TLAPS checks every leaf; eight modules hold theorems, with one pattern
throughout: an inductive invariant (`...Inv`) as a conjunction of named parts,
one lemma per group of actions, the properties as corollaries.  Each invariant
was checked by TLC on the instance of its run before it was proved.

**`ReplayProofs`**: for every word size, word count and limit allowed by
`SizesAssumption` and `LimitAssumption`: `TypeOK`, `RingRemembersWindow`,
`NoReplay`, and the refinement of `ReplaySpec`.  The window alone is not
inductive, because the words of the ring that lie behind the window are not
empty.  `ReplayInv` therefore speaks about every number in the last `WORDS`
words: its bit is set exactly when it was accepted.  The lemmas are about words, bits
and slots (a number is determined by word and bit; slots are injective on
`WORDS` consecutive words; a number inside the window lies in them, which is
what the one word of slack buys; no `uint64_t` sum wraps below the limit).

**`TunnelStartProofs`**: for any set of threads: `TypeOK`, `StartedOnce`,
`NoLostWakeup`, `OnlineMeansReady`, `OneStack` with `FreeMatchesAlloc`,
`FailedReleases`, `OutcomeIsFinal`, and the refinement of `OneShotOutcome`.
`StartInv` adds to the types: one starter, exactly while the state is STARTING
(`OneStarter`); the wait set is the set of waiting threads (`WaitSet`); an
answer agrees with the final state wherever it has got to (`AnswersAgree`); and
what each stage may rely on (`StagesBuild`).

**`SessionProofs`**: for any number of handshakes, packets and ticks and any
behaviour of the network: `TypeOK`, `NonceNeverReused`, `NoDuplicateDelivery`,
`PendingIsCurrent`, `RekeyKeepsBothDirections` and `KeepaliveJustified`.
`SessionInv` adds: key
numbers grow (`KeysGrow`); used counters lie below `sending_counter`
(`NoncesBelow`); delivered counters are in the window of their keypair while it
is held (`DeliveredSeen`); and the gateway is never ahead of the Vita: it sends
with the current key or with one not newer than the previous
(`GatewayBehind`), because only such packets are in flight (`DataBehind`).
For the keepalive the receive thread's sample of the clock has to lie in the past
(`SamplePast`): then an unsigned difference of at least the interval is a real
silence, or the transmission was later than the sample.

`NoReplay`, `StartedOnce` and `PendingIsCurrent` are proved and no longer in a
run: the first two follow from the refinements that are, and the third is part
of the argument for `RekeyKeepsBothDirections`.

**`DataPathProofs`**: for any set of application threads and any size of the
mailbox, the socket's buffer and the pool: `PbufsAccounted`,
`DatagramsAccounted`, the exclusion by `g_peer_mutex` (`MutualExclusion`) and
`CallsAccounted` (a blocked application has exactly one message under way).
`DPInv` ties the holder of the mutex to the locations of both threads
(`OneHolder`), says what the receive thread has in hand (`InHand`), and counts:
pbufs are the packets in the mailbox, in the receive thread's hand and at
lwIP's thread (`EveryPbuf`); datagrams are those counted and the one pending
(`EveryDatagram`).  The lemmas `CountAppend` and `CountTail` say how the number of
messages of a kind changes when one is posted or fetched.  `DataPathAssumption`
keeps the names of threads apart from the mailbox's own kinds of message.

**`ShimCallProofs`**: the two calls of the shim that wait.

- *connect*: `SuccessMeansConnected`, `ConnectedKeepsMode` and
  `InProgressIsFinished` without any bound.  `Progress` says how far the connection
  is at each of the call's steps; `FlagsInHand` follows the mode and the flags that
  were read.  Its least obvious part: a connect on a socket made blocking answers
  EINPROGRESS only if another thread has changed the mode, so a poll never
  follows a mode that was restored wrongly.
- *poll and select*: for any finite sets of descriptors and any timeouts:
  `TypeOK`, `AnswerIsTrue` and the action property `TimeoutIsTrue`.  `MuxInv` adds
  that the sets sampled are the caller's and not what an earlier sample left, and
  that what has been ready since the head of the loop is in the samples taken
  since (`NothingMissed`).

**`ShimFdsProofs`**: for any number of threads and descriptors.  With the limits
of `socket_shim.c` equal to those of `lwipopts.h` (`RangesAgree`, true of the two
files: 128 to 191) every call reaches its stack (`CallsReachOwner`).  The tables
are true of the sockets with one thread (`OneThreadTablesTrue`, what the run
checks), and with any number of threads in every behaviour in which lwIP does not
reuse a descriptor whose close is still under way (`TablesTrueWithoutReuse`).
The second says that Finding 3 is the only race of these tables: without that
hypothesis run `fds_race` has the counterexample, and with it none exists.
`FdsInv` says who owns a descriptor between `lwip_socket` or `lwip_close` and the
end of the wrapper, and that a free one has clean entries.

**`AppsProofs`**: the diagnostic applications, for any number of keys, runs and
clock units.

- *Identity and probe*: `ProbeSpec` implements `Identity`'s specification
  (`ProbeImplementsIdentity`), so the theorems about the files hold of the whole
  program: `KeyNeverTorn`, `AnnouncedKeyLives`, `CopiesAgree`, `UserConfigKept`.
  `IdentityInv` says that the private file is never dirty, because the temporary
  file is whole before the sync and clean before the rename (`KeyWhole`), and that
  a key is made only where there is none (`KeyKept`).  `ProbeInv` lists what is
  open at each stage (`HeldByStage`) and makes the context's flags those of this
  run from its reset on (`EchoesOfRun`), for `ReleasedOnce` and
  `ApprovedMeansEchoes`.
- *Network lab*: `LabReleases` and `LabReportsTrue`.  `LabInv` lists what may be
  open at each point (`OpenByPoint`) and says that a connection which is or was up
  is evidence for the target under test (`Evident`); `ReportKeeps` is the one
  lemma about the end of a test, from any of its points.
- *Crypto probe and stamps*: `ApprovedMeansRandom` (zeroes are never drawn without
  the error being remembered) and `RefusedWithinSecond` (the greatest stamp carries
  the second of the initiation accepted last).

**`FormatProofs`**: what the parsers and the packet code compute, for inputs of
any length.

- *Induction*: the provers cannot use an induction theorem that takes a
  predicate, so the module has its own over sets.  A set of numbers has a least
  member (`Least`, from the well-foundedness of Nat); a set that holds 0 and every
  successor is all of Nat (`Induct`); a loop of n turns has its n + 1 states
  (`Iteration`), so a recursive function whose turns keep a type exists and obeys
  its equations (`Typed`).  `CursorUnfolds`, `ExtentUnfolds`, `SettingsUnfold` and
  `SumUnfolds` say this of the loops of the code, and everything else about them
  is an induction from these.
- *Addresses* (`ConfigLiteral`): `LiteralIsDotted` for any alphabet, any length and
  any number of octets.  The invariant of the loop (`Reads`) relates the cursor
  to the text: it is not refused exactly while every place so far is `GoodAt` and
  the dots are too few for another octet; then the octets are as many as the dots,
  each is the number that ends at its dot, and value and digits are those of the
  number under way.  `CharacterRead` keeps it.
- *Configuration* (`ConfigReadTruly`): `ConfigIsWhatFileSays` for any lines of text
  and any read limit.  `Trimmed` says that `trim` leaves the one part of a value
  with only blanks around it and none at its ends, `TrimmedIsHeld` that the key and
  the address are therefore read exactly where a value holds them, and `PortRead`
  that `trim` and `strtol` together accept exactly `PortText`.  `AsSaid` is the invariant of the loop over whole lines: there is no early
  return exactly while every line is good, and then the settings are what `Says`
  finds.  `WholeFileJudged` is the file that fits; for a longer one
  `LineReadIs` says what is left of the line that is cut and `NothingMore` that no
  later line counts, which gives `AcceptedIsSaid`.
- *Packets* (`PacketsIntact`): `AcceptsExactlyIntact` for any datagrams, any
  capacity and any value of the damaged byte.  `PacketInv` says that what arrives
  is the packet with padding, with its UDP checksum zeroed, with one wrong byte or
  cut short (`WireOf`).  The argument is arithmetic modulo 65535: `FinishIs` says
  that a checksum is zero exactly for a positive multiple of 65535 (`Clean`);
  the builder makes both sums such multiples and its fields what the validator
  compares (`Sound`, by `HeaderSummed`, `HeaderBuilt` and `UdpBuilt`); one wrong
  byte changes a sum by less than 65535 and not by 0 (`OneByteTells`).  `Damaged`
  goes through the packet with this: the header and the UDP checksum are protected
  by their sums, ports, length and payload are compared.  The one exception is a
  damage that leaves the UDP checksum zero, which is the packet whose checksum was
  zeroed.

Assumptions: the ASSUMEs of the modules, which every run evaluates, and the two
hypotheses of `ShimFdsProofs`.  Nothing else is taken for granted; what is
external is in the models.

Only model-checked is what needs fairness (`EveryCallReturns`, `HandshakeEnds`,
`RekeyHappens`, `ConnectReturns`, `MuxReturns`, `NobodyStarves`, `ProbeEnds`,
`LabRunEnds`): liveness is outside the prover.

Every other property of a passing run has a theorem.  Conversely the type
invariants, `OneStack`, `OutcomeIsFinal`, `MutualExclusion` and `CallsAccounted` are
in no run: the theorems cover every instance.

## 5. Left out, and why

- Packet formats of WireGuard and cryptography: the properties tell apart keys,
  counters and outcomes, not bytes.
- Logging, trace limits and drawing: output only. `g_last_error` is written by
  several threads without a lock, but nothing depends on its text.
- The millisecond clock of the platform layer (a division),
  `wireguard_is_under_load` (a constant) and the constants of the port headers
  other than the sizes named above.
- A process with 128 files open, whose real descriptors would reach the virtual
  range: assumed away by `FdsAssumption`, since the table of the C library is
  not in the repository.
- Packet buffers inside lwIP, in the handshake probe: on a bad TCP echo
  `lwip_tcp_received` frees the pbuf and then returns `ERR_VAL`
  (`wg_handshake_probe.c:531-534`). lwIP's raw API expects a callback that returns
  an error to have left the buffer alone, since lwIP keeps it as refused data; the
  abort in the cleanup would then free it again. lwIP is not in the repository,
  so no model here decides this; it deserves a look.
- That the handshake probe ends with an error on a repeated datagram: the model
  has it (`RejectDatagram`); nothing says whether it is meant.
- The diagnostics patch, the echo tool, packaging and host tests.

## 6. State of the plan

Every part that keeps state or decides something has a module and a run, and
every safety invariant, action property and refinement that a passing run checks
has a theorem.  What could follow: an abstract specification of the data path (a
bounded queue between two threads) that `DataPath` refines, and the limits of the
port headers as constants of the modules that depend on them.
