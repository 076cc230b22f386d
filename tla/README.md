# asio-ftp in TLA+

A verification project for [asio-ftp](../src/README.md): TLA+ modules of the parts
of the server, TLC configurations that check them on small instances, and theorems
that TLAPS checks for every instance.

    tlc -config FtpSession_lockstep.cfg MCFtpSession     # a run
    tlapm FtpSession_proofs.tla                          # the proofs of a module

`PROJECT.json` lists the components, the runs, the mutants (a plausible bug for
every property, under which TLC finds it violated), the source lines of every
definition, the findings, the hazards and the theorems.

## 1. The system

One thread runs everything: `server::server` ends in `io_context::run`, and every
accept, read and write of every session completes in a handler on it. A handler is
therefore atomic; what interleaves are the handlers of the operations outstanding at
a time, of one session and of several. Sessions share the SQLite database and the
directory `data/`, nothing else in memory.

| Component | State | Operations | Talks to |
|---|---|---|---|
| Server (`ftp/server`) | `m_acceptor`, `m_socket` | accept a connection, make a session of it, accept again | sessions |
| Session, control channel (`ftp/base_session`, `ftp/insecure_session`) | `m_connection_stage`, `m_userid`, `m_working_directory`, `m_buffer`, the control socket | `control_receive`, `handle_command`, `control_send`, `control_close` | users, fs_objects, data channel |
| Session, data channel (same files) | `m_data_socket_acceptor`, `m_data_socket`, `m_pending_directory_list`, `m_pending_write_file`, `m_sendable_file_id`, the two file streams, three buffers | `run_LIST`, `run_STOR`, `run_RETR`, the accept handler, the read and write callbacks, `data_close` | fs_objects, `data/<id>` |
| Secure session (`ftp/secure_session`) | the same over TLS; `m_probe_socket`, `m_timer`, `m_stopwatch` | wait for an implicit handshake, `AUTH`, asynchronous shutdown | as above |
| fs_objects (`database/fs_objects`) | the table `fs_objects` | `get_object`, `create_object`, `update_object_size`, `remove_fs_object` | SQLite, `fs_handler` |
| users (`database/users`) | the table `users` | look up, check a password, create | SQLite |
| SQLite wrapper, fs_handler | a connection; none | run a statement; create, rename, remove files | |
| helpers | none | paths, splitting, random ids | |
| Startup (`main`), configuration parser | the configuration | compare configured with stored users, replace the database | all tables |
| custom_utils | none | console, stopwatch | |

**What is hard.** A session object lives only as long as some outstanding operation
holds its `shared_ptr`. Its data channel is a set of strings, two streams and one
socket whose combination stands for a state nobody wrote down: which command an
accepted connection belongs to is decided by order; that a command is "late" by
whether the socket is open; what a callback works on by whatever the members are by
then. Errors mostly just return, so the question after every failure is what is left
behind. Between the pieces of an upload other sessions may remove or replace what is
uploaded. `remove_fs_object` changes two stores, and finds what is inside a directory
by a pattern on a string. The constraint `UNIQUE (name, path)` spans users whose
lookups do not. The `hazards` of `PROJECT.json` name each of these at its line.

**What makes the parts correct.**

- Session: nothing on the data channel before login; one transfer at a time and on
  the connection opened for it; nothing left of a transfer after its final reply; no
  callback on a reset stream; commands go on being read; every transfer is answered;
  a session without a client is destroyed.
- Virtual file system: each user has a tree; rows and data files correspond; a
  removal takes a subtree and nothing else; users do not see each other's changes;
  recorded sizes are those of the files. A crash damages only what was being worked
  on.
- Secure session: exactly one of implicit and explicit mode and one welcome; no
  command and no byte of a transfer before a handshake; the same promises for
  transfers. Server: a loop that stopped accepting is there again some time; sessions
  have different ports. Startup: the server serves the configured users, also after
  a crash, and no upload is lost. Helpers: a path has one parent and one name, and
  every command finds the object its argument names.

## 2. The modules

| Module | What it is |
|---|---|
| `FtpSession` | one plain-text session, control and data channel, with its client |
| `SecureSession` | one FTPS session: its start, and a data channel whose closure takes time |
| `TransferService` | what either session promises a client that waits for its replies |
| `FtpSession_proofs` | theorems about `FtpSession` |
| `SecureSession_proofs` | theorems about `SecureSession` |
| `PathAlgebra` | paths as sequences of segments, and what commands make of arguments |
| `VirtualFs` | the fs_objects table, the data files, and the commands and uploads of several sessions |
| `VirtualFsCrash` | `VirtualFs` in a process that is killed at any time |
| `UserTree` | what the virtual file system promises each user |
| `VirtualFs_proofs`, `VirtualFsCrash_proofs` | theorems about `VirtualFs` and `VirtualFsCrash` |
| `Paths` | `helpers.cpp` and `parse_buffer` on characters, compared with `PathAlgebra` |
| `Paths_proofs` | theorems about `Paths` |
| `Startup` | `main` up to the server, the configuration and database files, kills and restarts |
| `Server` | the accept loop, the data ports, the descriptors |
| `Program` | `Startup` and `Server` composed: the whole process |
| `Program_proofs` | theorems about `Program`, `Startup` and `Server` |
| `MCFtpSession`, `MCVirtualFs`, `MCVirtualFsCrash`, `MCProgram`, `MCPaths` | values of constants and symmetry for TLC |

The compositions: `Program` extends `Startup` and `Server`; `VirtualFsCrash` extends
`VirtualFs`; `Paths` instantiates the `PathAlgebra` that `VirtualFs` extends;
`FtpSession` and `SecureSession` implement one `TransferService`, `VirtualFsCrash`
implements `UserTree`. The sessions and the file system are not composed with each
other: they meet in `data_receive_file` and its callbacks, which `FtpSession` models
by their effect on the session and `VirtualFs` by their effect on the table and disk.

### FtpSession

An action is a handler. The control socket is open, closed by `QUIT` or lost;
`reads` counts the outstanding control reads (it may be 0, as after `SIZE`, or 2, as
after `RETR` without an argument). `pending` is the three strings that say what a
data connection is wanted for; instead of the name it holds the number of the command
that set it. `dsock` is `m_data_socket`, as the number of the command for which the
client opened the connection; `backlog` is what the kernel holds for the acceptor.
`ops` are the outstanding reads and writes, each with the connection it was started
on and the transfer whose bytes it carries. An operation whose socket was closed or
replaced usually completes with an error, but may have succeeded before; both are
possible. `stream` is `null`, `open`, or `bad`: a stream that delivers nothing and
never ends, as when `data/` itself is opened. `crashed` records a null stream
dereferenced, which is undefined behaviour: nothing is modelled after it.

`RunLIST`, `RunSTOR` and `RunRETR` have a disjunct for every way through the code;
`Launch` is their common tail. `AcceptDone` serves LIST before STOR before RETR, as
the code does. Names, contents and replies other than final replies are left out, and
so are commands that only reply and read the next one: they would be stuttering steps.
The read is taken to deliver one whole command.

`CONSTANTS` describe the environment: `Pipelined` clients do not wait for replies;
`IoErrors` lets accepts, files and connections fail; `Unusual` admits short messages,
SIZE, missing arguments, parents and files.

### SecureSession

The start is `wait_for_implicit`, `handle_auth` and `start_secure`. `inbox` is what
the client has sent and the server has not read: a message, or a ClientHello of which
a part or all has arrived (`available() > 100`). `late` is the stopwatch; `Poll` asks
for the time first, as the code does, so a hello that came in time may lose. A lost
hello is then read as a message and answered 503, and the client may go on with
`AUTH`. A handshake leads to `secure`, where the control channel is as in
`FtpSession`; the commands that are refused there are not repeated here.

In the data channel every accepted socket has a handshake before its operation is
chosen, and `data_close` only begins a closure: `m_data_socket` stays open until the
peer has answered (`ShutdownDone`), after the client has its 226. `tls` is the state
of that layer, and an operation passes bytes only between handshake and closure.
Unlike the client of `FtpSession`, this one may give up a transfer of which nothing is
outstanding and go on; `gaveUp` remembers the first, since what the properties promise
of later transfers ends there, and what `TransferEnds` and `SessionReleased` promise
does not. `Prompt` is a client that answers a closure before its next command.

### TransferService

Idle, waiting, running, failed: a transfer is asked for when idle, runs on its own
connection and ends idle with the connection given up. A failed transfer is the last
one. That is weaker than one would like, and it is what the code gives: after a
failed accept or listing there is no final reply, and a client that waits for one
waits for good.

### VirtualFs

A path is a sequence of segments, the root the empty one. MKD and DELE put a slash
before an argument that may already have one; such a path begins with the segment
`Empty`. `MkdTarget`, `RmdTarget`, `Resolve` and `Parent`, in `PathAlgebra`, are what
the handlers and `get_parent_path` make of an argument. `LikePrefix` says which names
a `LIKE` pattern `m%` matches. (`LIKE` also ignores case and has wildcards: names that
differ in case or hold `_` are names between which `LikePrefix` would hold both ways.)

A row has the columns of the table but the time. `Insert` ignores a row that would
violate `UNIQUE (name, path)`, of whichever user, and the upload then goes on with an
id that has no row. `disk` gives each id the length of its data file; an upload is
`STOR`, `ReceiveFile` (the accepted connection), `ReceiveChunk` any number of times
and `ReceiveEnd`; a removed file that is still open gets no directory entry again.

`user` is `m_userid`. `USER` changes it whenever the client asks, also of a session
that has logged in and of one whose upload is under way; `Accounts` are the users that
a session's client names. `owner` in `receiving` is the user an upload began with.
While `DiskErrors`, the `ofstream` of an upload may not open (`NotOpened`: the row that
was created stays, and so does the pending name, so that the data connection of a later
`RETR` receives the file), a chunk may not be written though it was counted
(`WriteFails`), `close` may lose what is buffered (`LosesBuffer`), and `remove_file` may
fail, of any of the files of a removal (`MayBeKept`): its result is not used, and the row
goes. `damaged` holds the ids of the files that such an error, or a crash, has cut short,
`leaked` those of the files that were not removed; both are auxiliary, and say for the
properties which files the program could not have in order.

`Leave` and `Return` are the end of a control connection and a new session; uploads
outlive the former. `Return` waits for the upload to end, which bounds the session
objects to one for each element of `Sessions`.

Left out: arguments with empty segments (`MKD a/` and `MKD /` make objects whose name is
empty; `Paths` has such arguments, `VirtualFs` has not); a session with two accepts
outstanding, which a client that does not wait may have and `FtpSession` models; and an
id that occurs twice. `generate_uuid_string` draws from `rand`, which `main` seeds with
the time in seconds: after a kill, two starts within one second would draw the same ids
again. `Fresh` takes only ids that nothing has.

### VirtualFsCrash

The server has no orderly stop, so its only end is a kill, an exception or a power
switch; the first two are modelled. What is in the database and in closed files
stays: the wrapper sets `journal_mode = WAL` and `synchronous = normal`, with which a
commit survives the process. What an `ofstream` has buffered may or may not be
written (`kept`). `Crash` falls between handlers. `CrashInRemoval` cuts
`remove_fs_object` short after any number of `remove_file` calls, after the rows of
what is inside, or after the last file; `CrashInReceiveFile` between the row and the
file of an upload. Before and after these points nothing persistent differs from a
state in which the handler has not begun or has ended. The objects whose handler or
upload is cut short go into `damaged`, until they are removed or uploaded anew.

### UserTree

A set of objects, each with owner, path and kind. Added under a directory that
exists, removed with everything inside. `CrashSpec` adds the one effect a killed
removal may have on the tree: the inside of an object is gone and the object stays.

### PathAlgebra and Paths

`VirtualFs` needs paths as sequences of segments, to be small enough to check and to
be proved about. That helpers.cpp does the same on strings is a matter of its own:
`Paths` defines each helper on sequences of characters as the code computes it, and
what MKD, RMD, STOR, RETR and DELE (as MKD) do with an argument before they look an
object up. The state is one text, typed character by character, so that TLC visits
every text up to `MaxLen`, and the invariants are about that text. The loops of
`string_split`, `string_join` and `string_replace` are the functions `Pieces`, `Joined`
and `Replaced`: what each appends from a position on.

### Startup, Server and Program

An action of `Startup` changes one file, one table or one row, and the process may be
killed after each; `pc` is where `main` is. `file` is the configuration, absent, bad,
or good; `storage` and `backups` are the database and the ones renamed away, with
users, and rows that stand for uploads. A bad file is any that `read_json_config`
refuses, among them the default one half written. `BackUp` may fail without anybody
noticing, as `rename_file`'s result is not used. A user's name is `UNIQUE` and the
violation ignored, so creating users again changes nothing. `keys` is the directory
`tls`, whose files may be missing or be such as OpenSSL refuses, and `taken` says that
the port cannot be bound: with either the server's constructor throws, after all else is
done, and the process ends.

`Server` counts descriptors. A session needs one for its control socket, `DbFds` for
its two database connections and one for its data acceptor; its transfers hold up to
three more, for the data socket and the files of an upload and of a download. With none free the accept
fails and is not repeated; with some, but not enough for the databases, a constructor
throws, as it does when the client has gone already, and the exception leaves
`io_context::run`; with the databases open but none
for the acceptor, the search for a port never ends, in the middle of the handler that
would accept again (`spinning`). The data port of a session is the first that can be
bound. A session's end here is its last operation's. `stranded` are the sessions that
need never end: those with an accept that nobody will connect to and nothing cancels
(`insecure_session.cpp:206`), and those whose client was lost in the probe phase
(`secure_session.cpp:97`). They may end (somebody connects), but nothing is assumed of
them. How many descriptors a transfer takes at which moment is left open: any change
that the free ones allow.

`Program` puts `Server` where `Startup` ends. Configuration and keys change only while
the program is down: each is read once in a start, so a change during a run is one
before the next.

## 3. The runs

| Run | Shows | Bounds |
|---|---|---|
| `FtpSession_any` | any client, any failure: types, no data channel before login, open streams have names | 2 users, 3 transfers, 3 operations, 3 reads |
| `FtpSession_lockstep` | a client that waits, any failure: one transfer at a time on its own connection, nothing left over; `TransferService` is implemented | 2 users, 4 transfers, 2 operations, 2 reads |
| `FtpSession_live` | a client that waits, no failure, with SIZE and short messages: transfers are answered, sessions destroyed | 4 transfers |
| `FtpSession_two_retr` | *violation*: a second RETR leads to a reset stream | 2 transfers |
| `VirtualFs_users` | a step leaves the rows and files of other users alone than the session's and its upload's; a file's row has its data | 2 users; a session that uploads and changes between them, and one of one user; a failing disk; 1 name, 2 ids, depth 2, files of 1 chunk |
| `VirtualFs_crash` | killed at any time: a tree (`UserTree`), no orphaned data file, damage only to what was cut short, removals take nothing beside what they name | 2 sessions of one user, one uploads; a failing disk; 2 names of which none begins the other, 2 ids, depth 2, files of 1 chunk |
| `VirtualFs_prefix` | *violation*: removing `a` removes what is inside `ab` | 3 ids, depth 2, `a` a prefix of `ab` |
| `VirtualFs_overwrite` | *violation*: an overwritten file's recorded size is too large | one name level, one chunk |
| `SecureSession` | any failure, a prompt client: one mode and one welcome, own and encrypted connections, `TransferService`, and the four liveness properties | 4 transfers, 2 messages before the handshake |
| `SecureSession_late` | *violation*: a command right after 226 runs on the closing connection | 2 transfers, no failure |
| `Program` | any order of starts, kills, edits, uploads and errors: users served, uploads kept, the program up again | 2 users, 2 passwords, 2 edits, 2 kills, 1 upload; keys missing, wrong or complete, the port free or not; 8 descriptors, 2 for databases; 1 waiting client, 1 lingering port |
| `Paths` | helpers and arguments agree with `PathAlgebra` | texts up to 6 characters of `a`, `b`, `/`, space; 3 working directories |

Why the bounds are enough to be interesting: three transfers let a pipelined client
have a LIST, a STOR and a RETR, or three of a kind, under way at once, and three
operations hold them. Four transfers in lock step is more than the service has
phases, so each phase is followed by each; in `SecureSession` they let a failed
transfer of each kind be followed by another. In `VirtualFs_prefix` three ids hold a
directory, something inside and something beside it; elsewhere two hold a directory and
what is inside, or two objects at one place of two users, or two siblings. Nobody works
in a directory of the greatest depth, where no object would fit. Two sessions are what
it takes to remove what another uploads, and in `VirtualFs_users` they do so while one
of them has the other's user, another, or changes in between: one name makes every
object of one user meet those of the other. What a second name adds, `VirtualFs_crash`
has, and the theorems hold for any number of all of them.
Two edits and two kills are what it takes to change the users, be killed while that is
carried out, and change them back; five configurations remove a user, change a password, add a user, keep all and drop all
(`MCConfigs` has four, a default one is written by the program). Eight descriptors
are one session (4), its transfers (up to 3), and then a second accept that finds from
1 to 4 left: too few for the databases, enough to begin a session without its acceptor,
or with it and then none at all. So the accept error, the exception and the endless search all occur. Six
characters make `//a/b/`, two slashes inside and one at each end. The bounds
(`MaxXfers`, `MaxReads`, `Slots`, `MaxTries`, `Ids`, `MaxArg`, `MaxDepth`, `MaxLen`,
`MaxEdits`, `MaxCrashes`, `MaxUploads`, `MaxWaiting`, `MaxLinger`) are named in the
guards that use them. Deadlock is not checked, since every system here may really
stop: a session ends, an endless port search stops the process, a text has its full
length, and with every id in use and no command read the bound on ids stops an
upload.

Where a run needs a restriction, the code does. `IntactUnlessCut` would be false after
an overwrite, and when two sessions upload to one file; `RowForDataFile` when two
users choose the same path; `ParentExists` after `MKD /a/b`; `OwnConnection` of a
secure session when the client does not wait for the closure; `ArgumentsAgree` for
`RETR b/a` in a directory; and `ServesConfiguredUsers` after a rename that failed. The
constants of the runs, or the properties, say so.

**Fairness.** All of it is weak: nothing but the event itself disables a handler.
`HandlerFairness` is that of the read that fails once the control connection is gone,
of the accept, and of an end of every operation. `io_context::run` calls the handler
of every operation that completes; that it completes rests on the peer and the disk: a
connection makes progress or breaks, and files are finite. It is assumed for handlers
that run to an end, never for commands. `ClientFairness` lets the client open the
connection for the command it sent. `SecureSession` assumes the same, that time
passes, that a client which may send its hello does, and that it answers a closure or
goes. `Program` assumes that `main` goes on, that somebody starts the program whenever
it is down, and that sessions that are not stranded end at last. The first is the
scheduler's; the second is an operator or a supervisor, without whom nothing follows a
kill; the third is what `SessionReleased` gives for a client that goes and leaves no
accept behind, and `stranded` are the sessions for which it gives nothing. It is not
assumed that clients arrive, that killing stops (`MaxCrashes` bounds it), that a bad
configuration is mended, the port is given back or keys are placed: `ComesUp` takes as
its premise that nothing of this stands in the way (`CanStart`; without TLS no keys are
asked for). Two properties name what the code does not give: `LoopComesBack` leaves out
the endless port search and a server that only stranded sessions keep, and
`ExplicitSecured` and `SessionReleased` the explicit phase, in which a lost client
keeps `probe_receive` and `handle_auth` calling each other for good.

## 4. The theorems

| Module | Theorem | States | Assumes |
|---|---|---|---|
| `FtpSession_proofs` | `SessionInvariants` | `TypeOK`, `NoDataBeforeLogin`, `OpenStreamHasName` | |
| | `WaitingClientIsServed` | `QuiescentBetweenTransfers`, `NoNullStream`, `OwnConnection`, `OneOperation`, `LockStepInv`, and `ReadsCommands` if the client sends nothing unusual | `LockStep` |
| | `WaitingClientIsAnswered` | `Answerable` | `LockStep`, no failure, no missing parent |
| | `SessionImplementsService` | `ImplementsService` | `LockStep` |
| `SecureSession_proofs` | `WelcomedExactlyOnce` | `TypeOK`, `WelcomedOnce` | |
| | `PromptClientIsServed` | `EncryptedTransfer`, `OwnConnection`, `QuiescentBetweenTransfers` | `Prompt` |
| | `SecureSessionImplementsService` | `ImplementsService` | `Prompt` |
| `VirtualFs_proofs` | `TableSafe` | `TypeOK`, `DataFileForRow` | |
| | `UsersAreIsolated` | `UserIsolation` | |
| | `NoOrphans` | `ParentExists` | `~AbsoluteMkd` |
| | `SizesAgree` | `SizeAgrees` | `OneUploader`, `~Overwrite` |
| | `RemovesOnlySubtrees` | `RemovesSubtreeOnly` | `ExactLike` |
| `VirtualFsCrash_proofs` | `NoOrphansAfterCrash` | `ParentExists` | `~AbsoluteMkd` |
| | `DataFilesAreOwned` | `RowForDataFile` | `OneUser` |
| | `CrashDamagesOnlyCut` | `IntactUnlessCut` | `OneUploader`, `~Overwrite` |
| | `CrashRemovesInsideOnly` | `RemovesInsideOnly` | `ExactLike` |
| | `ImplementsUserTree` | `SurvivesAsUserTree` | `~AbsoluteMkd`, `ExactLike` |
| `Program_proofs` | `ProgramTypes` | `ProgramTypeOK` | |
| | `ServerHasConfiguredUsers` | `ServesConfiguredUsers` | |
| | `UploadsAreKept` | `NothingLost` | |
| | `StorageIsKept` | `KeepsStorage` | |
| `Paths_proofs` | `TextsSplitAndJoin` | `SplitsAndJoins` | |
| | `EverythingIsReplaced` | `ReplacesAll` | |
| | `CommandsAreRecovered` | `CommandRecovered` | |
| | `ParentsAgree` | `ParentAgrees` | |
| | `CommandsFindTheirObject` | `ArgumentsAgree` | |

They hold for all values of the constants, under the `ASSUME`s beside them: values
that stand for "none" (`NoUser`, `NoOp`, `None`, `Absent`, `Bad`, `NoDir`, `NoFile`)
and `Empty` are not among the values they are told apart from; bounds are natural
numbers, a port has 16 bits; a name matches the pattern made of itself; the
configurations that are edited in are configurations. In `Paths` delimiters and searched
strings are not empty, as at every call; a working directory begins with a slash, as
`m_working_directory` does from the start on; and no upper case of a letter is a space.

The hypotheses of the last column say which clients and which data a theorem is about.
Each is there because the code needs it; a run or a finding shows what is lost
without it.

- `LockStep`: the client waits for final replies and sends no transfer command without
  its argument or for a missing file; it may send anything else, and anything may
  fail. Without it `FtpSession_two_retr`.
- No failure and no missing parent, for `Answerable` only: after a failed accept or
  listing, and after `STOR` into a missing directory, no final reply ever comes.
- `Prompt`: the client has answered the closure of a data connection before its next
  command. Without it `SecureSession_late`.
- `~AbsoluteMkd`: `MKD /a/b` makes an object whose parent is `//a`, which no lookup of
  a directory above it finds.
- `OneUploader`: a session that uploads keeps its user, and of each user's sessions at
  most one uploads. After `USER` in the middle of an upload the size is recorded under
  another user, or nowhere; two uploads to one file record both their sizes, whatever
  the file is in the end.
- `~Overwrite`: uploads go to new files, or to files still empty. Without it
  `VirtualFs_overwrite`.
- `OneUser`: with two, the second upload to a place that another user has already
  (`UNIQUE (name, path)`) makes a data file that no row knows.
- `ExactLike`: a `LIKE` pattern matches no name but its own, as when no name begins
  another. Without it `VirtualFs_prefix`.

**Plain session.** `AnyInv` adds to the three properties that every outstanding accept
belongs to a command (`accepts <= issued`), without which the count has no bound. For
a waiting client none of the properties is inductive: that the accepted connection is
the right one depends on there being one accept, one connection in the backlog and
one pending name, and each of these on the previous transfer having left nothing.
`LockStepInv` says it all at once: the session is idle, waiting, running or failed,
and it gives the state of every variable of the data channel in each. Actions move
between the four; the properties follow from any. Without failures the fourth is not
reached (`AnsweringInv`), and in the other three somebody answers. The refinement maps
the same four phases to those of `TransferService`.

**Secure session.** For any client, `StartInv` counts the welcomes phase by phase:
none while waiting, one in the explicit phase, one in a handshake exactly if a message
came before it. `OneThing` says that an accept or one data operation is outstanding,
but no two, and none when no reply is awaited. For a prompt client there are five
states of the data channel, the handshake being one of its own; in the idle one the
closure of the last connection may be outstanding, and the client may be one
connection early. That a command finds the socket closed (`Requested`) is where
`Prompt` is used, and the only place. The invariant says nothing after a transfer
given up; the refinement then shows the failed phase for good.

**File system.** `TableInv` has `TypeOK`, and that ids are not shared by two rows, that
the id an upload writes to is in no row or in one of the user it began with, and that
whoever waits for a data connection has a pending name. Without the second an upload
could truncate another user's file, and `UserIsolation` would fail. What a step does to a
user's objects is done for `m_userid` as it is in that step, or by an upload to the file
of its owner: `UserIsolation` says no more. Since `USER` takes effect
before `PASS`, it does not say that the session has logged in as that user. Every
step is shown to keep, open, or count as damaged the file of every row it does not remove
(`KeepsFiles`), which a crash in the middle of a step does not; that is why
`DataFileForRow` is no part of `TableInv`, and why both specifications can share it. `TreeInv`
adds that rows are at real paths (none begins with `Empty`), under `~AbsoluteMkd`;
then a pattern made of a directory's path matches everything inside it, so what is
removed takes its children along.

For the sizes, `UploadInv` follows an upload: no two rows are at one place; only
uploaders upload; a file is opened empty, with a row whose size is 0; what is counted is
what is written; while an upload is under way, the row of its id is the object it will
name when it ends, and it alone writes there. The last two are what other sessions'
removals could break: a row removed and made again has another id, so the size goes to
the new row, whose own upload would have to be that of a second uploader.

**Crashes.** `CrashInv` is `UploadInv` with `IntactUnlessCut`: `SizesKept` and
`KeepsFiles` give the second for every step of `VirtualFs`, and a crash ends every upload
and counts its file as damaged (`Cut`). `RowForDataFile`
goes with `TableInv`, where one user makes sure that an upload's insert is not ignored;
a file that could not be removed is in `leaked` and stays there.
`UserTreeInv` adds to `TreeInv` that places are unique and uploads have short enough
paths. Its hard part is that a removal takes a whole subtree of `UserTree`, that is,
nothing inside a file: an object inside a file would have a parent that is no
directory, against `ParentExists`, or a parent that is inside the file as well, and
one of least depth has neither. That there is one of least depth is the library's
`WFMin`, which also gives the first free port in `Program_proofs` and the positions of
`Paths_proofs`, and is all the induction there is in these proofs.

**Program.** `StartupInv` says for each `pc` what has been read and done: the
configuration after it is read, the tables after they are made, of the users those
that `todo` does not hold (`UsersDone`). `BackupsNumbered` says that backups are
numbered without a gap and that a further one needs a further edit: between two
renames the configuration has changed. So no backup is written over, which is what
`NothingLost` rests on. `ServerInv` bounds the ports that linger; with the descriptors
in use that leaves a free port among `Ports` for every session that gets its
descriptors, by counting. `Holding(k)` counts the descriptors of transfers by levels, so
that a change of one session's is a change of three cardinalities by at most one each.
`KeepsStorage` follows from `UsersDone`: at `backup` database and configuration differ.

**Paths.** The invariant is that the text is a text; the work is in the operators. Each
loop is a function that recurs at later positions of a string only. That such a
function exists, without which its definition says nothing, and that it returns a
sequence is proved once (`LoopEnds`, `LoopStep`); `PiecesStep`, `JoinedStep` and
`ReplacedStep` then say what each loop adds at a position. What holds at every position
if it holds at all later ones is proved as a set of positions that has no last gap
(`FromTheLast`). So the pieces from each position on, joined, are the rest of the
string, and what is replaced from there is those pieces joined otherwise.

For paths one law does the rest (`SplitAtSlash`): the parts of `s/t` are those of `s`
followed by those of `t`. A string with a slash has a last one, and there its last part
is what `get_basename` finds and the others are the parts of what `get_parent_path`
leaves (`AtLastSlash`, `ParentText`). `PathAlgebra.Parent` has a case for a lone empty segment
because a slash with nothing behind it is the root. An argument is
then traced through each command to a string with a slash in front (`ObjectIs`,
`LocatedIs`) or to a name in a directory (`NamedIs`).

**Only model-checked.** Liveness (`TransferCompletes`, `SessionReleased`,
`StartDecided`, `ExplicitSecured`, `TransferEnds`, `ComesUp`, `LoopComesBack`), which
is out of the prover's reach. Every other property of a passing run is a theorem.

## 5. Findings

1. A second `RETR` while the first is under way: `parse_RETR_argument` logs "Previous
   send file operation not finished" and returns, but `handle_command` calls `run_RETR`
   all the same. Two writes are outstanding; the first to end resets
   `m_send_file_stream`, and the other's callback dereferences it.
2. Removing directory `/a` removes what is inside `/ab`: the pattern is `/a%`.
3. Uploading over an existing file truncates it, while the count of received bytes
   starts at the old size ("appending existing file"). LIST and SIZE then tell too
   large a size; the repository's README lists incorrect sizes among its issues.
4. In a secure session a command that follows 226 at once finds `m_data_socket` open,
   because its closure is not answered yet, and is taken for one that is "received
   late". It runs on the closing connection, and the client waits on a new one.

Two more that the models show, of which no run is kept:

- `any_users_changed` says "find if any side has missing users" (`main.cpp:38`) and goes
  through the users of the database only (`AnyUsersChanged`): a user who is configured
  and not in the database is no change, so the database is kept and the user added to
  it. `KeepsStorage` is stated so that it holds under either reading.
- `USER` during an upload (`base_session.cpp:130`, `704`): the size is recorded among the
  objects of another user, where the file is not, or is another, and the file that was
  uploaded keeps the size 0. With two users in `Accounts` of an uploading session and no
  failure TLC finds `SizeAgrees` violated in a few steps; the README of the repository
  lists incorrect sizes among its issues.

Behaviour that the models have and that is worth knowing, without a document to
contradict it: `SIZE` reads no further command; `STOR` into a missing directory gives
no reply and reads no further command; `RETR` of a missing file, after its 550,
accepts a connection and may write nothing to it for good; an upload whose file cannot
be opened leaves its row without a data file and its name pending; a data file that
cannot be removed is left behind by its row; `USER` takes
effect at once in a session that has logged in; `DELE /a/b` looks for
`//a/b`, replies 250 and removes nothing; `RETR b/a` in directory `/d` looks in
`/db`; with two users the second upload to the same path is received and lost; a
client lost before `AUTH` keeps its session and the processor busy; an accept error
stops the server from serving while its process lives on; a session without a
descriptor for its data acceptor stops the only thread; a kill while the default
configuration is written leaves a file that has to be removed by hand; a database that
cannot be renamed goes on with users who are configured no more; the data files of a
renamed database stay in `data/`, known to none.

## 6. Not modelled, and what is next

Done: the modules above, with proofs of every safety property the runs check. Next, in
this order:

1. Two uploads to one file, and whose session it is after a second `USER`: both need a
   statement first of what is right, which the code does not make.
2. Arguments with empty segments in `VirtualFs`.
3. The bytes of a transfer, chunk by chunk, with the buffers the operations share.

Not modelled, and why:

- The control writes. `control_send` passes `async_write` a buffer of a local string
  that is destroyed before the write need be finished, so every outcome is possible as
  soon as one is not finished at once. Replies are taken to arrive, in order.
- What `LIST` looks like, dates, `PASV`'s address and console output: formatting.
- The grammar of the configuration: one sequential call of Boost.JSON whose outcome
  `Startup` chooses. Of its port, only whether it can be bound.
- Ids that are drawn twice (`srand` with the time in seconds).
- SQLite that stays busy or fails, which `run_param_query` takes for an empty result:
  the databases of one process are used by one thread, and statements do not overlap.
- A power failure, which may lose a commit under `synchronous = normal`.
- TLS, Asio and SQLite themselves: external, modelled by how the code uses them.
