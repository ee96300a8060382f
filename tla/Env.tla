-------------------------------- MODULE Env --------------------------------
(***************************************************************************)
(* The environment: variables in RAM that setenv changes and commands      *)
(* read (common/cmd_nvedit.c, env_common.c), the copy in a serial EEPROM   *)
(* that saveenv writes page by page (env_eeprom.c, cmd_eeprom.c), and the  *)
(* values that other code keeps of it (bd_t, NetInitLoop in net/net.c).    *)
(*                                                                         *)
(* A cell stands for a few characters.  The checksum of some data is       *)
(* modelled by the data itself: crc32 collisions are left out.             *)
(***************************************************************************)
EXTENDS Integers, Sequences, FiniteSetsExt

CONSTANTS
  Name,          \* variables that are used
  Value,         \* their values
  Size,          \* Size[n][v]: cells of "n=v"
  Default,       \* default_environment, a sequence of cells
  Console,       \* stdin, stdout and stderr
  Baudrate,      \* the variables whose new value is looked up in a table
  Supported,     \* the values in that table
  Cached,        \* variables setenv copies elsewhere: ipaddr, loadaddr, bootfile
  Loads,         \* those of them whose copy commands write, too: loadaddr, bootfile
  Preset,        \* loadaddr, which a network command reads again
  NetNames,      \* variables NetInitLoop reads; ipaddr comes from the copy
  Leases,        \* those of them whose copy BOOTP and RARP write: ipaddr, serverip ...
  ENV_SIZE,      \* cells of data
  PAGE,          \* EEPROM_PAGE_SIZE
  I2C_RXTX_LEN,
  Unset,         \* no value
  Junk,          \* a cell that no environment contains
  Ranges,        \* from and to of the eeprom commands that are used
  MaxOps         \* bound: writes to the environment, its copies and the EEPROM in a behaviour

NUL == <<>>
Cell == (Name \X Value \X Nat) \cup {NUL, Junk}
Data == [1 .. ENV_SIZE -> Cell]
Address == 0 .. ENV_SIZE          \* of the EEPROM: the checksum, then the data

ASSUME SizeAssumption == ENV_SIZE \in Nat \ {0, 1} /\ \A n \in Name, v \in Value : Size[n][v] \in Nat \ {0}
ASSUME PageAssumption == PAGE \in Nat \ {0} /\ I2C_RXTX_LEN \in Nat \ {0} /\ MaxOps \in Nat
ASSUME NameAssumption == Cached \subseteq Name /\ NetNames \subseteq Name
ASSUME WriterAssumption ==
  Preset \subseteq Loads /\ Loads \subseteq Cached \ NetNames /\ Leases \subseteq NetNames
ASSUME ValueAssumption == Unset \notin Value /\ Supported \subseteq Value
ASSUME RangeAssumption == \A r \in Ranges : r[1] \in Address /\ r[2] \in r[1] + 1 .. ENV_SIZE + 1
ASSUME JunkAssumption == Junk # NUL /\ DOMAIN Junk # 1 .. ENV_SIZE

VARIABLES
  up,            \* 1 from the end of env_relocate to the next reset
  data, crc,     \* *env_ptr
  cache,         \* bi_ip_addr, load_addr, BootFile
  told,          \* history: copies that a command has written since their variable was read
  net,           \* NetOurIP, NetServerIP ...
  leased,        \* history: what BOOTP or RARP has written since NetInitLoop has read it
  changed,       \* 1 when env_id differs from NetInitLoop's env_changed_id
  rom,           \* the EEPROM
  op,            \* who runs eeprom_write: "save", "cmd", or "none"
  buf,           \* buffer of eeprom_write, by address of its destination
  offset, end, rcode,
  start, before, \* history: offset and rom at the call of eeprom_write
  saved,         \* history: checksums handed to eeprom_write since the last complete saveenv, with that one
  promise,       \* history: *env_ptr at the last saveenv, if it returned 0 and nothing was written since
  ops

ram == <<data, crc, cache, told>>
netVars == <<net, leased, changed>>
writeVars == <<op, buf, offset, end, rcode, start, before>>
vars == <<up, ram, netVars, rom, writeVars, saved, promise, ops>>
-----------------------------------------------------------------------------
(* The layout: "n=v" NUL ... "n=v" NUL NUL, and anything after that.       *)

Chars(n, v) == [k \in 1 .. Size[n][v] |-> <<n, v, k>>] \o <<NUL>>

\* The search for the double NUL; its first cell belongs to the last variable,
\* if there is one.
Ends(d) == {i \in 1 .. ENV_SIZE - 1 : d[i] = NUL /\ d[i + 1] = NUL}
Used(d) == LET env == Min(Ends(d)) IN IF env = 1 THEN 0 ELSE env

\* s and a closing NUL are written over the beginning of d.
Store(d, s) ==
  [i \in 1 .. ENV_SIZE |-> IF i <= Len(s) THEN s[i]
                           ELSE IF i = Len(s) + 1 \/ (s = <<>> /\ i = 2) THEN NUL ELSE d[i]]

\* Where the scans for a name look: at the beginning, and after each NUL.
Starts(d) == {i \in 1 .. Used(d) : d[i] # NUL /\ (i = 1 \/ d[i - 1] = NUL)}

\* envmatch compares from the first character of the name.
envmatch(d, n) == {i \in Starts(d) : d[i][1] = n /\ d[i][3] = 1}

Defined(d, n) == envmatch(d, n) # {}
Place(d, n) == Min(envmatch(d, n))
getenv(d, n) == IF Defined(d, n) THEN d[Place(d, n)][2] ELSE Unset

\* Mutant: the variables behind the deleted one are not moved up.
DeleteRest(d, n) == IF Defined(d, n) THEN Store(d, SubSeq(d, 1, Place(d, n) - 1)) ELSE d

\* The rest is moved over the variable and its NUL.
Delete(d, n) ==
  IF ~ Defined(d, n) THEN d
  ELSE LET env == Place(d, n)
           nxt == Min({i \in env .. Used(d) : d[i] = NUL})
       IN  Store(d, SubSeq(d, 1, env - 1) \o SubSeq(d, nxt + 1, Used(d)))

\* Mutant: one of the two closing NULs is forgotten.
OverflowsOneNul(d, n, v) == Size[n][v] + 1 > ENV_SIZE - Used(d)

Overflows(d, n, v) == Size[n][v] + 2 > ENV_SIZE - Used(d)
Append1(d, n, v) == Store(d, SubSeq(d, 1, Used(d)) \o Chars(n, v))

DefaultData == Store([i \in 1 .. ENV_SIZE |-> NUL], Default)

\* The definition of n with value v, and its NUL, begin at cell i.
At(d, i, n, v) == d[i + Size[n][v]] = NUL /\ \A k \in 1 .. Size[n][v] : d[i + k - 1] = <<n, v, k>>

\* An environment: closed inside the buffer, all definitions complete, no
\* variable twice.
Sound(d) ==
  /\ \E env \in Ends(d) : \A i \in Ends(d) : env <= i
  /\ d[1] = NUL => Used(d) = 0
  /\ \A i \in Starts(d) : \E n \in Name, v \in Value : At(d, i, n, v)
  /\ \A i, j \in Starts(d) : d[i][1] = d[j][1] => i = j

\* default_environment, with the settings of include/configs/Sam460ex.h, is one.
ASSUME DefaultAssumption == DefaultData \in Data /\ Sound(DefaultData)
-----------------------------------------------------------------------------
Image(c, d) == [a \in Address |-> IF a = 0 THEN c ELSE d[a]]
Content(r) == [i \in 1 .. ENV_SIZE |-> r[i]]

\* Mutant: the last cell is left out of the checksum.
env_validShort(r) == r[0] # Junk /\ \A i \in 1 .. ENV_SIZE - 1 : r[0][i] = r[i]

\* env_init: the checksum of the data against the stored one.
env_valid(r) == r[0] = Content(r)

NoWrite == /\ op' = "none" /\ start' = 0 /\ offset' = 0 /\ end' = 0 /\ rcode' = 0
           /\ buf' = rom /\ before' = rom /\ UNCHANGED rom

Idle == up = 1 /\ op = "none"
Operation == Idle /\ ops < MaxOps /\ ops' = ops + 1

Init ==
  /\ up = 0
  /\ data = DefaultData /\ crc = DefaultData
  /\ cache = [n \in Cached |-> Unset] /\ told = {}
  /\ net = [n \in NetNames |-> Unset] /\ leased = {} /\ changed = 1
  /\ \/ rom = [a \in Address |-> Junk] /\ saved = {}
     \/ rom = Image(DefaultData, DefaultData) /\ saved = {DefaultData}
  /\ op = "none" /\ start = 0 /\ offset = 0 /\ end = 0 /\ rcode = 0 /\ buf = rom /\ before = rom
  /\ promise = NUL
  /\ ops = 0

\* env_init, env_relocate and the reads of board_init_r.  An i2c_read that
\* fails in env_init makes the checksum wrong.
Started(d) ==
  /\ up = 0 /\ up' = 1
  /\ data' = d
  /\ cache' = [n \in Cached |-> getenv(d, n)] /\ told' = {}
  /\ net' = [n \in NetNames |-> Unset] /\ leased' = {} /\ changed' = 1
  /\ UNCHANGED <<rom, writeVars, saved, promise, ops>>

Boot == \/ env_valid(rom) /\ Started(Content(rom)) /\ crc' = rom[0]
        \/ ~ env_valid(rom) /\ Started(DefaultData) /\ crc' = DefaultData

BootReadFails == Started(DefaultData) /\ crc' = DefaultData

\* A reset or a loss of power, at any moment.
Reset ==
  /\ up = 1 /\ up' = 0 /\ NoWrite
  /\ data' = DefaultData /\ crc' = DefaultData         \* RAM is lost
  /\ cache' = [n \in Cached |-> Unset] /\ told' = {}
  /\ net' = [n \in NetNames |-> Unset] /\ leased' = {} /\ changed' = 1
  /\ UNCHANGED <<saved, promise, ops>>
-----------------------------------------------------------------------------
(* _do_setenv: setenv, askenv, and the commands that record a result.      *)

\* Mutant: env_id stays.
SettingSameId == /\ Operation
                 /\ UNCHANGED <<up, netVars, rom, writeVars, saved, promise>>

Setting == /\ Operation
           /\ changed' = 1                              \* env_id++
           /\ UNCHANGED <<up, net, leased, rom, writeVars, saved, promise>>

\* v is Unset when the variable is deleted.  console_assign may fail; the
\* rate to delete "baudrate" for is read through a null pointer.
Refused(n, v) ==
  /\ Setting
  /\ n \in Console \/ (n \in Baudrate /\ Defined(data, n) /\ v \notin Supported)
  /\ UNCHANGED ram

Allowed(n, v) ==
  /\ n \in Console => v # Unset
  /\ n \in Baudrate /\ Defined(data, n) => v \in Supported \cup {Unset}

Deleted(n) ==
  /\ Setting /\ Allowed(n, Unset)
  /\ data' = Delete(data, n)
  /\ crc' = data'
  /\ UNCHANGED <<cache, told>>

Overflown(n, v) ==
  /\ Setting /\ Allowed(n, v)
  /\ Overflows(Delete(data, n), n, v)
  /\ data' = Delete(data, n)
  /\ UNCHANGED <<crc, cache, told>>

\* Mutant: the copies are not updated.
StoredOnly(n, v) ==
  /\ Setting /\ Allowed(n, v)
  /\ ~ Overflows(Delete(data, n), n, v)
  /\ data' = Append1(Delete(data, n), n, v)
  /\ crc' = data'
  /\ told' = told \ {n} /\ UNCHANGED cache

Stored(n, v) ==
  /\ Setting /\ Allowed(n, v)
  /\ ~ Overflows(Delete(data, n), n, v)
  /\ data' = Append1(Delete(data, n), n, v)
  /\ crc' = data'
  /\ cache' = [m \in Cached |-> IF m = n THEN v ELSE cache[m]]
  /\ told' = told \ {n}
-----------------------------------------------------------------------------
(* The copies, and what else writes them.                                  *)

\* A loader notes where it put a file, or its name.
Load(n, v) ==
  /\ Operation
  /\ cache' = [cache EXCEPT ![n] = v] /\ told' = told \cup {n}
  /\ UNCHANGED <<up, data, crc, netVars, rom, writeVars, saved, promise>>

\* The beginning of netboot_common: load_addr is set from its variable before
\* the arguments are looked at; arg[n] is Unset when there is none.
netboot_common(arg) ==
  LET read == {n \in Preset : Defined(data, n)}
      given == {n \in Loads : arg[n] # Unset}
  IN  /\ Operation
      /\ cache' = [n \in Cached |-> IF n \in given THEN arg[n]
                                    ELSE IF n \in read THEN getenv(data, n) ELSE cache[n]]
      /\ told' = (told \ read) \cup given
      /\ UNCHANGED <<up, data, crc, netVars, rom, writeVars, saved, promise>>

NetInitLoop ==
  /\ Idle /\ changed = 1 /\ changed' = 0
  /\ net' = [n \in NetNames |-> IF n \in Cached THEN cache[n] ELSE getenv(data, n)]
  /\ leased' = {}
  /\ UNCHANGED <<up, ram, rom, writeVars, saved, promise, ops>>

\* NetLoop clears NetOurIP before a BOOTP or RARP request, and the reply sets
\* it and others, without a change of env_id: netboot_update_env, which sets
\* the variables, is only called when the whole command succeeds.
Lease(n, v) ==
  /\ Operation
  /\ net' = [net EXCEPT ![n] = v] /\ leased' = leased \cup {n}
  /\ UNCHANGED <<up, ram, changed, rom, writeVars, saved, promise>>
-----------------------------------------------------------------------------
(* eeprom_write, called by saveenv and by the eeprom command.              *)

eeprom_write(who, b, from, to) ==
  /\ Operation
  /\ op' = who /\ buf' = b
  /\ start' = from /\ offset' = from /\ end' = to /\ rcode' = 0
  /\ before' = rom
  /\ promise' = NUL
  /\ UNCHANGED <<up, ram, netVars, rom>>

saveenv ==
  /\ eeprom_write("save", Image(crc, data), 0, ENV_SIZE + 1)
  /\ saved' = saved \cup {crc}

do_eeprom(from, to) ==
  /\ eeprom_write("cmd", [a \in Address |-> Junk], from, to)
  /\ UNCHANGED saved

\* Mutants: the start of the page, or the end of the range, is not considered.
ChunkLenPage == Min({end - offset, PAGE, I2C_RXTX_LEN})
ChunkLenEnd == Min({PAGE - (offset % PAGE), I2C_RXTX_LEN})

ChunkLen == Min({end - offset, PAGE - (offset % PAGE), I2C_RXTX_LEN})

\* The address counter of the device stays in the page.
Written(len) ==
  LET page == offset - (offset % PAGE)
      hit(a) == {j \in 0 .. len - 1 : a = page + ((offset + j) % PAGE)}
  IN  [a \in Address |-> IF hit(a) = {} THEN rom[a] ELSE buf[offset + Max(hit(a))]]

\* Mutant: the result of i2c_write is ignored.
WriteChunkBlind(len, fails) ==
  /\ up = 1 /\ op # "none" /\ offset < end
  /\ rom' = Written(len)
  /\ offset' = offset + ChunkLen
  /\ UNCHANGED <<up, ram, netVars, op, buf, end, rcode, start, before, saved, promise, ops>>

\* i2c_write fails after some of the cells were written.
WriteChunk(len, fails) ==
  /\ up = 1 /\ op # "none" /\ offset < end
  /\ rom' = Written(len)
  /\ rcode' = IF fails THEN 1 ELSE rcode
  /\ offset' = offset + ChunkLen
  /\ UNCHANGED <<up, ram, netVars, op, buf, end, start, before, saved, promise, ops>>

WriteEnd ==
  /\ up = 1 /\ op # "none" /\ offset = end /\ NoWrite
  /\ promise' = IF op = "save" /\ rcode = 0 THEN <<crc, data>> ELSE NUL
  /\ saved' = IF op = "save" /\ rcode = 0 THEN {crc} ELSE saved
  /\ UNCHANGED <<up, ram, netVars, ops>>

Next ==
  \/ Boot \/ BootReadFails \/ Reset
  \/ \E n \in Name, v \in Value \cup {Unset} : Refused(n, v)
  \/ \E n \in Name : Deleted(n)
  \/ \E n \in Name, v \in Value : Overflown(n, v) \/ Stored(n, v)
  \/ \E n \in Loads, v \in Value : Load(n, v)
  \/ \E arg \in [Loads -> Value \cup {Unset}] : netboot_common(arg)
  \/ NetInitLoop
  \/ \E n \in Leases, v \in Value \cup {Unset} : Lease(n, v)
  \/ saveenv \/ \E r \in Ranges : do_eeprom(r[1], r[2])
  \/ WriteChunk(ChunkLen, FALSE) \/ \E len \in 0 .. ChunkLen : WriteChunk(len, TRUE)
  \/ WriteEnd

Spec == Init /\ [][Next]_vars
-----------------------------------------------------------------------------
(* Properties.                                                             *)

\* The state of the environment, of its copies and of a write to the EEPROM.
TypeOK ==
  /\ up \in 0 .. 1 /\ changed \in 0 .. 1 /\ ops \in 0 .. MaxOps
  /\ data \in Data /\ crc \in Data
  /\ cache \in [Cached -> Value \cup {Unset}] /\ net \in [NetNames -> Value \cup {Unset}]
  /\ told \subseteq Loads /\ leased \subseteq Leases
  /\ op \in {"none", "save", "cmd"} /\ rcode \in 0 .. 1
  /\ start \in Address /\ offset \in start .. end /\ end \in 0 .. ENV_SIZE + 1
  /\ \A a \in Address : {rom[a], buf[a], before[a]} \subseteq (IF a = 0 THEN Data \cup {Junk} ELSE Cell)

\* The data always ends with a double NUL inside the buffer, every definition
\* in it is complete, and none is there twice, whatever was set, deleted,
\* refused or did not fit.
WellFormed == Sound(data)

\* All variables but n keep their value, and the order they are listed in.
OthersKept(d, e, n) ==
  LET others == {m \in Name \ {n} : Defined(d, m)}
  IN  /\ \A m \in Name \ {n} : getenv(e, m) = getenv(d, m)
      /\ \A m, k \in others : Place(e, m) < Place(e, k) <=> Place(d, m) < Place(d, k)

\* _do_setenv as the list of variables sees it: n is taken out, and put at the
\* end with its new value when that fits; all others keep value and order.
SetenvMeaning ==
  [][\A n \in Name :
       /\ Deleted(n) \/ (\E v \in Value : Overflown(n, v)) =>
            OthersKept(data, data', n) /\ ~ Defined(data', n)
       /\ \A v \in Value :
            Stored(n, v) => /\ OthersKept(data, data', n) /\ getenv(data', n) = v
                            /\ \A m \in Name \ {n} : Defined(data', m) => Place(data', m) < Place(data', n)]_vars

\* A variable that is defined has the same value in bd_t, load_addr or BootFile
\* (_do_setenv), unless a command has been told another load address or file
\* since setenv or netboot_common last copied it.
CacheCurrent ==
  up = 1 => \A n \in Cached \ told : Defined(data, n) => cache[n] = getenv(data, n)

\* NetInitLoop skips its reads when env_id has not changed: then what it has
\* read before is still what the environment says, also of variables that were
\* deleted, except for those whose copy a deletion leaves behind (_do_setenv)
\* and those that BOOTP or RARP has written since.
NetCurrent ==
  up = 1 /\ changed = 0 =>
    \A n \in NetNames \ leased :
      net[n] = getenv(data, n) \/ (n \in Cached /\ ~ Defined(data, n))

\* eeprom_write changes nothing outside of its range and, when it returns 0,
\* has written all of it, although the device wraps around at page ends.
WriteExact ==
  \A a \in Address :
    /\ a < start \/ a >= end => rom[a] = before[a]
    /\ start <= a /\ a < offset /\ rcode = 0 => rom[a] = buf[a]

\* An EEPROM that env_init accepts holds an environment whose checksum was
\* handed to saveenv, and not one older than the last saveenv that returned 0;
\* power may fail and pages may be lost in any saveenv.
OnlySaved == env_valid(rom) => Content(rom) \in saved

\* saveenv, "save environment variables to persistent storage": when it
\* returned 0, the next start finds the variables it was called with.
SavedComesBack == [][Boot /\ promise # NUL => data' = promise[2]]_vars

\* The same, if the last setenv before saveenv did not overflow.
FreshComesBack == [][Boot /\ promise # NUL /\ promise[1] = promise[2] => data' = promise[2]]_vars

=============================================================================
