----------------------------- MODULE EnvProofs -----------------------------
(***************************************************************************)
(* Module Env for every size of the environment and of the pages, every    *)
(* set of variables and every number of commands, failed writes and        *)
(* resets.  First the EEPROM, where the characters of the data play no     *)
(* part: the only fact used of them is that data and crc are arrays.  Then *)
(* the environment in RAM, with the layout lemmas of EnvLayoutProofs.      *)
(***************************************************************************)
EXTENDS EnvLayoutProofs

Array(d) == d = [i \in 1 .. ENV_SIZE |-> d[i]]

\* eeprom_write's counters, its buffer, and how far it has come.
WriteInv ==
  /\ up \in {0, 1} /\ op \in {"none", "save", "cmd"} /\ rcode \in {0, 1}
  /\ up = 0 => op = "none"
  /\ start \in Address /\ end \in 0 .. ENV_SIZE + 1 /\ offset \in start .. end
  /\ rom = [a \in Address |-> rom[a]]
  /\ Array(data) /\ Array(crc)
  /\ WriteExact
  /\ op = "save" => /\ buf = Image(crc, data) /\ start = 0 /\ end = ENV_SIZE + 1
                    /\ crc \in saved
  /\ op = "cmd" => buf = [a \in Address |-> Junk]

\* The checksum cell of the EEPROM is one that was handed to saveenv; after a
\* complete saveenv the EEPROM is what saveenv was given.
RomInv ==
  /\ rom[0] \in saved \cup {Junk}
  /\ promise # NUL => op = "none" /\ promise = <<rom[0], Content(rom)>>

IInv == WriteInv /\ RomInv

-----------------------------------------------------------------------------
\* A remainder grows with its dividend until it reaches the divisor.
LEMMA ModAdd ==
  ASSUME NEW o \in Nat, NEW j \in Nat, NEW p \in Nat \ {0}, (o % p) + j < p
  PROVE  (o + j) % p = (o % p) + j
<1> DEFINE q == o \div p
           r == o % p
           u == (o + j) \div p
           w == (o + j) % p
<1>1. q \in Int /\ r \in 0 .. p - 1 /\ o = p * q + r
  OBVIOUS
<1>2. u \in Int /\ w \in 0 .. p - 1 /\ o + j = p * u + w
  OBVIOUS
<1> HIDE DEF q, r, u, w
<1>3. ASSUME u >= q + 1 PROVE FALSE
  <2>1. p * u >= p * (q + 1)
    BY <1>1, <1>2, <1>3
  <2>2. p * (q + 1) = p * q + p
    BY <1>1
  <2>q. QED
    BY <1>1, <1>2, <2>1, <2>2 DEF r
<1>4. ASSUME q >= u + 1 PROVE FALSE
  <2>1. p * q >= p * (u + 1)
    BY <1>1, <1>2, <1>4
  <2>2. p * (u + 1) = p * u + p
    BY <1>2
  <2>q. QED
    BY <1>1, <1>2, <2>1, <2>2
<1>5. u = q
  BY <1>1, <1>2, <1>3, <1>4
<1>q. QED
  BY <1>1, <1>2, <1>5 DEF r, w

\* eeprom_write's length: within the range and within the page.
LEMMA ChunkFacts ==
  ASSUME offset \in Nat, end \in Nat, offset < end
  PROVE  /\ ChunkLen \in Nat \ {0} /\ offset + ChunkLen <= end
         /\ (offset % PAGE) + ChunkLen <= PAGE
<1> DEFINE S == {end - offset, PAGE - (offset % PAGE), I2C_RXTX_LEN}
<1>1. /\ end - offset \in Nat \ {0} /\ PAGE - (offset % PAGE) \in Nat \ {0} /\ I2C_RXTX_LEN \in Nat \ {0}
      /\ offset % PAGE \in Nat
  BY PageAssumption
<1>2. \E x \in S : \A y \in S : x <= y
  BY <1>1
<1>3. ChunkLen \in S /\ \A y \in S : ChunkLen <= y
  BY Zenon, <1>2 DEF ChunkLen, Min
<1>q. QED
  BY <1>1, <1>3, PageAssumption

\* A chunk goes where it should: the addresses from offset on, and no other.
LEMMA WrittenFacts ==
  ASSUME offset \in Nat, end \in Nat, offset < end, NEW len \in 0 .. ChunkLen,
         NEW a \in Address
  PROVE  Written(len)[a] = IF offset <= a /\ a < offset + len THEN buf[a] ELSE rom[a]
<1> DEFINE page == offset - (offset % PAGE)
           hit == {j \in 0 .. len - 1 : a = page + ((offset + j) % PAGE)}
<1>1. ChunkLen \in Nat \ {0} /\ (offset % PAGE) + ChunkLen <= PAGE /\ offset % PAGE \in Nat
      /\ PAGE \in Nat \ {0} /\ a \in Int
  BY ChunkFacts, PageAssumption, SizeAssumption DEF Address
<1>2. ASSUME NEW j \in 0 .. len - 1
      PROVE  page + ((offset + j) % PAGE) = offset + j
  <2>1. j \in Nat /\ (offset % PAGE) + j < PAGE
    BY <1>1
  <2>2. (offset + j) % PAGE = (offset % PAGE) + j
    BY <1>1, <2>1, ModAdd, Zenon
  <2>q. QED
    BY <1>1, <2>1, <2>2
<1>3. hit = {j \in 0 .. len - 1 : a = offset + j}
  BY <1>2, Zenon
<1>4. Written(len)[a] = IF hit = {} THEN rom[a] ELSE buf[offset + Max(hit)]
  BY Zenon DEF Written
<1> HIDE DEF hit
<1>5. CASE offset <= a /\ a < offset + len
  <2>0. len \in Nat /\ a - offset \in 0 .. len - 1 /\ a = offset + (a - offset)
    BY <1>1, <1>5
  <2>1. hit = {a - offset}
    <3>1. a - offset \in hit
      BY Zenon, <1>3, <2>0
    <3>2. ASSUME NEW j \in hit PROVE j = a - offset
      BY <1>1, <1>3, <2>0, <3>2
    <3>q. QED
      BY Zenon, <3>1, <3>2
  <2>2. Max(hit) = a - offset
    BY <1>1, <2>1 DEF Max
  <2>q. QED
    BY <1>1, <1>4, <1>5, <2>1, <2>2
<1>6. CASE ~(offset <= a /\ a < offset + len)
  <2>1. hit = {}
    BY <1>1, <1>3, <1>6
  <2>q. QED
    BY Zenon, <1>4, <1>6, <2>1
<1>q. QED
  BY Zenon, <1>5, <1>6

-----------------------------------------------------------------------------
\* setenv leaves an array behind.
LEMMA StoreArray == ASSUME NEW d, NEW s PROVE Array(Store(d, s))
  BY Zenon DEF Array, Store

LEMMA DeleteArray == ASSUME NEW d, NEW n, Array(d) PROVE Array(Delete(d, n))
  BY Zenon, StoreArray DEF Delete

LEMMA ContentArray == ASSUME NEW r PROVE Array(Content(r))
  BY Zenon DEF Array, Content

LEMMA DefaultArray == Array(DefaultData)
  BY Zenon, StoreArray DEF DefaultData

\* The image of an array contains it.
LEMMA ImageContent ==
  ASSUME NEW c, NEW d, Array(d)
  PROVE  Image(c, d)[0] = c /\ Content(Image(c, d)) = d
<1>1. 0 \in Address /\ \A i \in 1 .. ENV_SIZE : i \in Address /\ i # 0
  BY SizeAssumption DEF Address
<1>2. Content(Image(c, d)) = [i \in 1 .. ENV_SIZE |-> d[i]]
  BY Zenon, <1>1 DEF Content, Image
<1>q. QED
  BY <1>1, <1>2, Zenon DEF Image, Array

-----------------------------------------------------------------------------
LEMMA InvInit == Init => IInv
<1> SUFFICES ASSUME Init PROVE IInv
  BY Zenon
<1>1. 0 \in Address /\ Array(data) /\ Array(crc)
  BY SizeAssumption, DefaultArray DEF Init, Address
<1>2. rom = [a \in Address |-> rom[a]] /\ rom[0] \in saved \cup {Junk}
  BY Zenon, <1>1 DEF Init, Image
<1>3. WriteExact
  BY Zenon DEF Init, WriteExact
<1>4. WriteInv
  BY <1>1, <1>2, <1>3, SizeAssumption DEF Init, WriteInv, Address
<1>5. RomInv
  BY Zenon, <1>2 DEF Init, RomInv
<1>q. QED
  BY Zenon, <1>4, <1>5 DEF IInv

\* Steps that do not touch the EEPROM or a write in progress.
LEMMA RamStep ==
  ASSUME IInv, UNCHANGED <<rom, writeVars, saved, promise>>, up' \in {0, 1}, op = "none",
         Array(data'), Array(crc')
  PROVE  IInv'
<1>1. UNCHANGED <<rom, op, buf, offset, end, rcode, start, before>>
  BY Zenon DEF writeVars
<1>2. WriteExact'
  BY Zenon, <1>1 DEF IInv, WriteInv, WriteExact
<1>3. WriteInv'
  BY Zenon, <1>1, <1>2 DEF IInv, WriteInv
<1>4. RomInv'
  BY Zenon, <1>1 DEF IInv, RomInv, Content
<1>q. QED
  BY Zenon, <1>3, <1>4 DEF IInv

\* A write begins: saveenv hands over its image, the eeprom command its own.
LEMMA BeginStep ==
  ASSUME IInv, NEW who \in {"save", "cmd"}, NEW b, NEW from \in Address, NEW to \in from .. ENV_SIZE + 1,
         eeprom_write(who, b, from, to), saved \subseteq saved',
         who = "save" => /\ b = Image(crc, data) /\ from = 0 /\ to = ENV_SIZE + 1 /\ crc \in saved',
         who = "cmd" => b = [a \in Address |-> Junk]
  PROVE  IInv'
<1>1. /\ up = 1 /\ UNCHANGED <<up, data, crc, rom>>
      /\ op' = who /\ buf' = b /\ start' = from /\ offset' = from /\ end' = to /\ rcode' = 0
      /\ before' = rom /\ promise' = NUL
  BY Zenon DEF eeprom_write, Operation, Idle, ram
<1>2. from \in Nat /\ to \in 0 .. ENV_SIZE + 1 /\ from \in from .. to
  BY SizeAssumption DEF Address
<1>3. WriteExact'
  BY <1>1, <1>2, SizeAssumption DEF WriteExact, Address
<1>4. WriteInv'
  <2>1. Array(data)' /\ Array(crc)' /\ rom' = [a \in Address |-> rom'[a]]
    BY Zenon, <1>1 DEF IInv, WriteInv, Array
  <2>2. Image(crc, data)' = Image(crc, data)
    BY Zenon, <1>1 DEF Image
  <2>3. op' = "save" => /\ buf' = Image(crc, data)' /\ start' = 0 /\ end' = ENV_SIZE + 1 /\ crc' \in saved'
    BY Zenon, <1>1, <2>2
  <2>q. QED
    BY <1>1, <1>2, <1>3, <2>1, <2>3 DEF WriteInv
<1>5. RomInv'
  BY Zenon, <1>1 DEF IInv, RomInv
<1>q. QED
  BY Zenon, <1>4, <1>5 DEF IInv

\* A chunk is written, completely or in part.
LEMMA ChunkStep ==
  ASSUME IInv, NEW len \in 0 .. ChunkLen, NEW fails \in BOOLEAN, ~fails => len = ChunkLen,
         WriteChunk(len, fails)
  PROVE  IInv'
<1>1. /\ up = 1 /\ op # "none" /\ offset < end /\ rom' = Written(len)
      /\ rcode' \in {0, 1} /\ (rcode' = 0 => rcode = 0 /\ ~fails) /\ offset' = offset + ChunkLen
      /\ UNCHANGED <<up, data, crc, op, buf, end, start, before, saved, promise>>
  <2>1. rcode \in {0, 1}
    BY Zenon DEF IInv, WriteInv
  <2>q. QED
    BY <2>1 DEF WriteChunk, ram, netVars
<1>2. /\ offset \in Nat /\ end \in Nat /\ start \in Nat /\ start <= offset
  BY SizeAssumption DEF IInv, WriteInv, Address
<1>3. /\ ChunkLen \in Nat \ {0} /\ offset + ChunkLen <= end /\ len \in Nat /\ len <= ChunkLen
  BY <1>1, <1>2, ChunkFacts
<1>4. ASSUME NEW a \in Address
      PROVE  rom'[a] = IF offset <= a /\ a < offset + len THEN buf[a] ELSE rom[a]
  BY Zenon, <1>1, <1>2, WrittenFacts
<1>5. WriteExact'
  <2> SUFFICES ASSUME NEW a \in Address
               PROVE  /\ a < start \/ a >= end => rom'[a] = before[a]
                      /\ start <= a /\ a < offset' /\ rcode' = 0 => rom'[a] = buf[a]
    BY Zenon, <1>1 DEF WriteExact
  <2>1. a \in Nat /\ (a < start \/ a >= end => rom[a] = before[a])
        /\ (start <= a /\ a < offset /\ rcode = 0 => rom[a] = buf[a])
    BY SizeAssumption DEF IInv, WriteInv, WriteExact, Address
  <2>2. a < start \/ a >= end => rom'[a] = before[a]
    BY <1>2, <1>3, <1>4, <2>1
  <2>3. start <= a /\ a < offset' /\ rcode' = 0 => rom'[a] = buf[a]
    BY <1>1, <1>2, <1>3, <1>4, <2>1
  <2>q. QED
    BY Zenon, <2>2, <2>3
<1>6. rom' = [a \in Address |-> rom'[a]]
  BY Zenon, <1>1 DEF Written
<1>7. offset' \in start' .. end'
  BY <1>1, <1>2, <1>3
<1>8. WriteInv'
  BY Zenon, <1>1, <1>5, <1>6, <1>7 DEF IInv, WriteInv, Array
<1>9. rom'[0] \in saved \cup {Junk}
  <2>1. 0 \in Address
    BY SizeAssumption DEF Address
  <2>2. buf[0] \in saved \cup {Junk}
    <3>1. CASE op = "save"
      BY Zenon, <2>1, <3>1 DEF IInv, WriteInv, Image
    <3>2. CASE op = "cmd"
      BY Zenon, <2>1, <3>2 DEF IInv, WriteInv
    <3>q. QED
      BY Zenon, <1>1, <3>1, <3>2 DEF IInv, WriteInv
  <2>q. QED
    BY Zenon, <1>4, <2>1, <2>2 DEF IInv, RomInv
<1>10. RomInv'
  BY Zenon, <1>1, <1>9 DEF IInv, RomInv
<1>q. QED
  BY Zenon, <1>8, <1>10 DEF IInv

\* A write ends with the image complete, or with a failure; or power fails.
LEMMA EndStep == ASSUME IInv, WriteEnd PROVE IInv'
<1>1. /\ up = 1 /\ op # "none" /\ offset = end /\ UNCHANGED <<up, data, crc, rom>>
      /\ op' = "none" /\ start' = 0 /\ offset' = 0 /\ end' = 0 /\ rcode' = 0 /\ before' = rom /\ buf' = rom
      /\ promise' = (IF op = "save" /\ rcode = 0 THEN <<crc, data>> ELSE NUL)
      /\ saved' = (IF op = "save" /\ rcode = 0 THEN {crc} ELSE saved)
  BY Zenon DEF WriteEnd, NoWrite, ram, netVars
<1>2. WriteExact'
  BY Zenon, <1>1 DEF WriteExact
<1>3. Array(data)' /\ Array(crc)' /\ rom' = [a \in Address |-> rom'[a]]
  BY Zenon, <1>1 DEF IInv, WriteInv, Array
<1>4. WriteInv'
  BY <1>1, <1>2, <1>3, SizeAssumption DEF WriteInv, Address
<1>5. ASSUME op = "save", rcode = 0 PROVE rom[0] = crc /\ Content(rom) = data
  <2>1. \A a \in Address : rom[a] = Image(crc, data)[a]
    <3>1. \A a \in Address : 0 <= a /\ a < ENV_SIZE + 1
      BY SizeAssumption DEF Address
    <3>q. QED
      BY Zenon, <1>1, <1>5, <3>1 DEF IInv, WriteInv, WriteExact
  <2>2. rom = Image(crc, data)
    <3>1. Image(crc, data) = [a \in Address |-> Image(crc, data)[a]]
      BY Zenon DEF Image
    <3>2. rom = [a \in Address |-> rom[a]]
      BY Zenon DEF IInv, WriteInv
    <3>q. QED
      BY Zenon, <2>1, <3>1, <3>2
  <2>q. QED
    BY Zenon, <2>2, ImageContent DEF IInv, WriteInv
<1>6. RomInv'
  <2>1. CASE op = "save" /\ rcode = 0
    BY Zenon, <1>1, <1>5, <2>1 DEF RomInv, Content
  <2>2. CASE ~(op = "save" /\ rcode = 0)
    BY Zenon, <1>1, <2>2 DEF IInv, RomInv
  <2>q. QED
    BY Zenon, <2>1, <2>2
<1>q. QED
  BY Zenon, <1>4, <1>6 DEF IInv

LEMMA ResetStep == ASSUME IInv, Reset PROVE IInv'
<1>1. /\ up' = 0 /\ UNCHANGED <<rom, saved, promise>> /\ data' = DefaultData /\ crc' = DefaultData
      /\ op' = "none" /\ start' = 0 /\ offset' = 0 /\ end' = 0 /\ rcode' = 0 /\ before' = rom /\ buf' = rom
  BY Zenon DEF Reset, NoWrite
<1>2. WriteExact'
  BY Zenon, <1>1 DEF WriteExact
<1>3. Array(data)' /\ Array(crc)' /\ rom' = [a \in Address |-> rom'[a]]
  <2>1. Array(data') /\ Array(crc')
    BY Zenon, <1>1, DefaultArray
  <2>q. QED
    BY Zenon, <1>1, <2>1 DEF IInv, WriteInv, Array
<1>4. WriteInv'
  BY <1>1, <1>2, <1>3, SizeAssumption DEF WriteInv, Address
<1>5. RomInv'
  BY Zenon, <1>1 DEF IInv, RomInv, Content
<1>q. QED
  BY Zenon, <1>4, <1>5 DEF IInv

LEMMA InvNext == IInv /\ [Next]_vars => IInv'
<1> SUFFICES ASSUME IInv, [Next]_vars PROVE IInv'
  BY Zenon
<1> USE DEF IInv
<1>0. Array(data) /\ Array(crc) /\ (up = 0 => op = "none") /\ up \in {0, 1}
  BY Zenon DEF WriteInv
<1>1. CASE Boot
  <2>1. /\ UNCHANGED <<rom, writeVars, saved, promise>> /\ up' = 1 /\ up = 0
        /\ \/ env_valid(rom) /\ data' = Content(rom) /\ crc' = rom[0]
           \/ data' = DefaultData /\ crc' = DefaultData
    BY Zenon, <1>1 DEF Boot, Started
  <2>2. Array(data') /\ Array(crc')
    BY Zenon, <2>1, ContentArray, DefaultArray DEF env_valid
  <2>q. QED
    BY Zenon, <1>0, <2>1, <2>2, RamStep
<1>2. CASE BootReadFails
  BY Zenon, <1>0, <1>2, DefaultArray, RamStep DEF BootReadFails, Started
<1>3. CASE Reset
  BY Zenon, <1>3, ResetStep
<1>4. ASSUME NEW n \in Name, NEW v \in Value \cup {Unset}, Refused(n, v) PROVE IInv'
  BY Zenon, <1>0, <1>4, RamStep DEF Refused, Setting, Operation, Idle, ram
<1>5. ASSUME NEW n \in Name, Deleted(n) PROVE IInv'
  BY Zenon, <1>0, <1>5, DeleteArray, RamStep DEF Deleted, Setting, Operation, Idle
<1>6. ASSUME NEW n \in Name, NEW v \in Value, Overflown(n, v) PROVE IInv'
  BY Zenon, <1>0, <1>6, DeleteArray, RamStep DEF Overflown, Setting, Operation, Idle
<1>7. ASSUME NEW n \in Name, NEW v \in Value, Stored(n, v) PROVE IInv'
  <2>1. Array(data') /\ Array(crc')
    BY Zenon, <1>7, StoreArray DEF Stored, Append1
  <2>q. QED
    BY Zenon, <1>0, <1>7, <2>1, RamStep DEF Stored, Setting, Operation, Idle
<1>8. CASE NetInitLoop
  BY Zenon, <1>0, <1>8, RamStep DEF NetInitLoop, Idle, ram
<1>15. CASE \/ \E n \in Loads, v \in Value : Load(n, v)
            \/ \E arg \in [Loads -> Value \cup {Unset}] : netboot_common(arg)
            \/ \E n \in Leases, v \in Value \cup {Unset} : Lease(n, v)
  BY Zenon, <1>0, <1>15, RamStep DEF Load, netboot_common, Lease, Operation, Idle, ram
<1>9. CASE saveenv
  <2>1. 0 \in Address /\ ENV_SIZE + 1 \in 0 .. ENV_SIZE + 1
    BY SizeAssumption DEF Address
  <2>2. eeprom_write("save", Image(crc, data), 0, ENV_SIZE + 1) /\ saved' = saved \cup {crc}
    BY Zenon, <1>9 DEF saveenv
  <2>q. QED
    BY Zenon, <2>1, <2>2, BeginStep
<1>10. ASSUME NEW r \in Ranges, do_eeprom(r[1], r[2]) PROVE IInv'
  <2>1. r[1] \in Address /\ r[2] \in r[1] .. ENV_SIZE + 1
    BY RangeAssumption, SizeAssumption DEF Address
  <2>2. eeprom_write("cmd", [a \in Address |-> Junk], r[1], r[2]) /\ saved' = saved
    BY Zenon, <1>10 DEF do_eeprom
  <2>q. QED
    BY Zenon, <2>1, <2>2, BeginStep
<1>11. ASSUME WriteChunk(ChunkLen, FALSE) PROVE IInv'
  <2>1. ChunkLen \in 0 .. ChunkLen
    <3>1. offset \in Nat /\ end \in Nat /\ offset < end
      BY <1>11, SizeAssumption DEF WriteInv, WriteChunk, Address
    <3>q. QED
      BY <3>1, ChunkFacts
  <2>q. QED
    BY <1>11, <2>1, ChunkStep, Zenon
<1>12. ASSUME NEW len \in 0 .. ChunkLen, WriteChunk(len, TRUE) PROVE IInv'
  BY <1>12, ChunkStep, Zenon
<1>13. CASE WriteEnd
  BY Zenon, <1>13, EndStep
<1>14. CASE UNCHANGED vars
  <2>1. UNCHANGED <<up, data, crc, rom, op, buf, offset, end, rcode, start, before, saved, promise>>
    BY Zenon, <1>14 DEF vars, ram, netVars, writeVars
  <2>2. Array(data)' /\ Array(crc)' /\ WriteExact' /\ Image(crc, data)' = Image(crc, data)
    BY Zenon, <2>1 DEF WriteInv, WriteExact, Array, Image
  <2>3. WriteInv'
    BY Zenon, <2>1, <2>2 DEF WriteInv
  <2>4. RomInv'
    BY Zenon, <2>1 DEF RomInv, Content
  <2>q. QED
    BY Zenon, <2>3, <2>4
<1>q. QED
  BY <1>1, <1>2, <1>3, <1>4, <1>5, <1>6, <1>7, <1>8, <1>9, <1>10, <1>11, <1>12, <1>13, <1>14, <1>15, Zenon DEF Next

-----------------------------------------------------------------------------
\* The inductive invariant of the EEPROM: how far a write has come, which
\* checksum the EEPROM may hold, and what a complete saveenv has left there.
THEOREM EepromInv == Spec => []IInv
  BY InvInit, InvNext, PTL DEF Spec

\* eeprom_write changes nothing outside of its range and, as long as no
\* i2c_write has failed, has written everything up to its offset.
THEOREM WritesExactly == Spec => []WriteExact
<1>1. IInv => WriteExact
  BY Zenon DEF IInv, WriteInv
<1>q. QED
  BY <1>1, EepromInv, PTL

\* An EEPROM that env_init accepts holds an environment whose checksum was
\* handed to saveenv since (or by) the last saveenv that returned 0, wherever
\* power failed and whichever pages were lost.
THEOREM NothingElseBoots == Spec => []OnlySaved
<1>1. IInv => OnlySaved
  <2> SUFFICES ASSUME IInv, env_valid(rom) PROVE Content(rom) \in saved
    BY Zenon DEF OnlySaved
  <2>1. Content(rom) # Junk
    BY Zenon, JunkAssumption DEF Content
  <2>q. QED
    BY Zenon, <2>1 DEF IInv, RomInv, env_valid
<1>q. QED
  BY <1>1, EepromInv, PTL

\* If saveenv returned 0 and its checksum was that of its data, the next start
\* finds that data.
THEOREM SaveIsDurable == Spec => FreshComesBack
<1>1. IInv /\ [Next]_vars => [Boot /\ promise # NUL /\ promise[1] = promise[2] => data' = promise[2]]_vars
  <2> SUFFICES ASSUME IInv, Boot, promise # NUL, promise[1] = promise[2] PROVE data' = promise[2]
    BY Zenon
  <2>1. promise[1] = rom[0] /\ promise[2] = Content(rom)
    BY DEF IInv, RomInv
  <2>2. env_valid(rom)
    BY <2>1, Zenon DEF env_valid
  <2>q. QED
    BY <2>1, <2>2, Zenon DEF Boot, Started
<1>q. QED
  BY <1>1, EepromInv, PTL DEF Spec, FreshComesBack

-----------------------------------------------------------------------------
(* The inductive invariant of the RAM side, and its steps.                 *)

\* An image of the EEPROM, or part of one.
Cells(r) == \A a \in Address : r[a] \in (IF a = 0 THEN Data \cup {Junk} ELSE Cell)

RamType ==
  /\ up \in 0 .. 1 /\ changed \in 0 .. 1 /\ ops \in 0 .. MaxOps
  /\ data \in Data /\ crc \in Data
  /\ cache \in [Cached -> Value \cup {Unset}] /\ net \in [NetNames -> Value \cup {Unset}]
  /\ told \subseteq Loads /\ leased \subseteq Leases

\* crc is the environment before the last setenv if that overflowed, and what
\* was handed to saveenv may be found at the next start.
RamInv ==
  /\ RamType /\ Cells(rom) /\ Cells(buf) /\ Cells(before)
  /\ WellFormed /\ Sound(crc)
  /\ \A d \in saved : d \in Data /\ Sound(d)
  /\ CacheCurrent /\ NetCurrent

\* The buffer of the eeprom command.
LEMMA JunkCells == Cells([a \in Address |-> Junk])
  BY Zenon DEF Cells, Cell

\* The buffer of saveenv.
LEMMA ImageCells == ASSUME NEW c \in Data, NEW d \in Data PROVE Cells(Image(c, d))
<1> SUFFICES ASSUME NEW a \in Address PROVE Image(c, d)[a] \in (IF a = 0 THEN Data \cup {Junk} ELSE Cell)
  BY Zenon DEF Cells
<1>1. CASE a = 0
  BY Zenon, <1>1 DEF Image
<1>2. CASE a # 0
  <2>1. a \in 1 .. ENV_SIZE
    BY <1>2, SizeAssumption DEF Address
  <2>2. d[a] \in Cell
    BY Zenon, <2>1 DEF Data
  <2>q. QED
    BY Zenon, <1>2, <2>2 DEF Image
<1>q. QED
  BY Zenon, <1>1, <1>2

\* The environment in RAM does not change, nor do its copies.
LEMMA RamStays ==
  ASSUME RamInv, UNCHANGED <<up, data, crc, cache, told, net, leased, changed>>
  PROVE  WellFormed' /\ Sound(crc') /\ CacheCurrent' /\ NetCurrent'
<1>1. WellFormed' /\ Sound(crc')
  BY Zenon DEF RamInv, WellFormed
<1>2. CacheCurrent' /\ NetCurrent'
  BY Zenon DEF RamInv, CacheCurrent, NetCurrent
<1>q. QED
  BY Zenon, <1>1, <1>2

\* Initially.
LEMMA RamInit == Init => RamInv
<1> SUFFICES ASSUME Init PROVE RamInv
  BY Zenon
<1>1. DefaultData \in Data /\ Sound(DefaultData)
  BY Zenon, DefaultAssumption
<1>2. RamType
  BY <1>1, PageAssumption DEF Init, RamType
<1>3. Cells(rom) /\ \A d \in saved : d = DefaultData
  BY Zenon, <1>1, JunkCells, ImageCells DEF Init
<1>4. buf = rom /\ before = rom /\ data = DefaultData /\ crc = DefaultData /\ up = 0
  BY Zenon DEF Init
<1>5. CacheCurrent /\ NetCurrent
  BY <1>4 DEF CacheCurrent, NetCurrent
<1>q. QED
  BY Zenon, <1>1, <1>2, <1>3, <1>4, <1>5 DEF RamInv, WellFormed

\* env_relocate, with d.
LEMMA StartStep ==
  ASSUME RamInv, NEW d \in Data, Sound(d), Started(d), crc' = d
  PROVE  RamInv'
<1>1. /\ up' = 1 /\ data' = d /\ changed' = 1
      /\ cache' = [n \in Cached |-> getenv(d, n)] /\ net' = [n \in NetNames |-> Unset]
      /\ told' = {} /\ leased' = {}
      /\ UNCHANGED <<rom, buf, before, saved, ops>>
  BY Zenon DEF Started, writeVars
<1>2. RamType'
  BY <1>1, SoundRead DEF RamInv, RamType
<1>3. CacheCurrent' /\ NetCurrent'
  BY <1>1 DEF CacheCurrent, NetCurrent
<1>4. WellFormed' /\ Sound(crc)'
  BY Zenon, <1>1 DEF WellFormed
<1>q. QED
  BY Zenon, <1>1, <1>2, <1>3, <1>4 DEF RamInv, Cells

\* What env_init accepts was handed to saveenv.
LEMMA Bootable == ASSUME IInv, env_valid(rom) PROVE Content(rom) \in saved
<1>1. Content(rom) # Junk
  BY Zenon, JunkAssumption DEF Content
<1>q. QED
  BY Zenon, <1>1 DEF IInv, RomInv, env_valid

\* setenv and the like.
LEMMA SettingStep ==
  ASSUME RamInv, Setting, data' \in Data, Sound(data'), crc' \in Data, Sound(crc'),
         cache' \in [Cached -> Value \cup {Unset}], told' \subseteq told, CacheCurrent'
  PROVE  RamInv'
<1>1. /\ changed' = 1 /\ ops < MaxOps /\ ops' = ops + 1
      /\ UNCHANGED <<up, net, leased, rom, buf, before, saved>>
  BY Zenon DEF Setting, Operation, writeVars
<1>2. RamType'
  BY <1>1, PageAssumption DEF RamInv, RamType
<1>3. NetCurrent' /\ WellFormed' /\ Sound(crc)'
  BY <1>1 DEF NetCurrent, WellFormed
<1>q. QED
  BY Zenon, <1>1, <1>2, <1>3 DEF RamInv, Cells

\* The copies still agree when at most n differs, and n's copy is right.
LEMMA CacheStep ==
  ASSUME RamInv, up = 1, Sound(data'), NEW n \in Name, OthersKept(data, data', n),
         told \subseteq told' \cup {n},
         \A m \in Cached \ {n} : cache'[m] = cache[m],
         n \in Cached /\ Defined(data', n) => cache'[n] = getenv(data', n)
  PROVE  CacheCurrent'
<1> SUFFICES ASSUME NEW m \in Cached \ told', Defined(data', m) PROVE cache'[m] = getenv(data', m)
  BY Zenon DEF CacheCurrent
<1>1. CASE m = n
  BY Zenon, <1>1
<1>2. CASE m # n
  <2>1. m \in Name \ {n} /\ getenv(data', m) = getenv(data, m) /\ cache'[m] = cache[m]
    BY Zenon, <1>2, NameAssumption DEF OthersKept
  <2>2. Defined(data, m)
    BY Zenon, <2>1, SoundRead DEF RamInv, WellFormed
  <2>q. QED
    BY Zenon, <2>1, <2>2 DEF RamInv, CacheCurrent
<1>q. QED
  BY Zenon, <1>1, <1>2

\* Deleted and Overflown: the checksum may stay behind.
LEMMA DeletedStep ==
  ASSUME RamInv, NEW n \in Name, Setting, data' = Delete(data, n), crc' \in {crc, data'}, UNCHANGED <<cache, told>>
  PROVE  RamInv'
<1>1. data \in Data /\ Sound(data) /\ crc \in Data /\ Sound(crc) /\ cache \in [Cached -> Value \cup {Unset}]
  BY Zenon DEF RamInv, RamType, WellFormed
<1>2. data' \in Data /\ Sound(data') /\ ~ Defined(data', n) /\ OthersKept(data, data', n)
  BY Zenon, <1>1, SoundDelete
<1>3. up = 1
  BY Zenon DEF Setting, Operation, Idle
<1>4. CacheCurrent'
  BY Zenon, <1>2, <1>3, CacheStep
<1>5. crc' \in Data /\ Sound(crc')
  BY Zenon, <1>1, <1>2
<1>q. QED
  BY Zenon, <1>1, <1>2, <1>4, <1>5, SettingStep

\* Stored: the copy of the variable is renewed with it.
LEMMA StoredStep ==
  ASSUME RamInv, NEW n \in Name, NEW v \in Value, Stored(n, v)
  PROVE  RamInv'
<1>1. /\ Setting /\ ~ Overflows(Delete(data, n), n, v) /\ data' = Append1(Delete(data, n), n, v) /\ crc' = data'
      /\ cache' = [m \in Cached |-> IF m = n THEN v ELSE cache[m]] /\ told' = told \ {n} /\ up = 1
  BY Zenon DEF Stored, Setting, Operation, Idle
<1>2. data \in Data /\ Sound(data) /\ cache \in [Cached -> Value \cup {Unset}]
  BY Zenon DEF RamInv, RamType, WellFormed
<1>3. data' \in Data /\ Sound(data') /\ OthersKept(data, data', n) /\ getenv(data', n) = v
  BY Zenon, <1>1, <1>2, SoundSet
<1>4. /\ cache' \in [Cached -> Value \cup {Unset}]
      /\ \A m \in Cached \ {n} : cache'[m] = cache[m]
      /\ n \in Cached => cache'[n] = v
  BY Zenon, <1>1, <1>2
<1>5. CacheCurrent'
  BY Zenon, <1>1, <1>3, <1>4, CacheStep
<1>q. QED
  BY Zenon, <1>1, <1>3, <1>4, <1>5, SettingStep

\* NetInitLoop reads from the copies, which are current.
LEMMA NetStep == ASSUME RamInv, NetInitLoop PROVE RamInv'
<1>1. /\ up = 1 /\ changed' = 0
      /\ net' = [n \in NetNames |-> IF n \in Cached THEN cache[n] ELSE getenv(data, n)]
      /\ leased' = {} /\ UNCHANGED <<up, data, crc, cache, told, rom, buf, before, saved, ops>>
  BY Zenon DEF NetInitLoop, Idle, ram, writeVars
<1>2. cache \in [Cached -> Value \cup {Unset}] /\ Sound(data)
  BY Zenon DEF RamInv, RamType, WellFormed
<1>3. net' \in [NetNames -> Value \cup {Unset}]
  BY Zenon, <1>1, <1>2, SoundRead
<1>4. RamType'
  BY <1>1, <1>3 DEF RamInv, RamType
<1>5. CacheCurrent' /\ WellFormed' /\ Sound(crc)'
  BY Zenon, <1>1 DEF RamInv, CacheCurrent, WellFormed
<1>6. NetCurrent'
  <2> SUFFICES ASSUME NEW n \in NetNames
               PROVE  net'[n] = getenv(data, n) \/ (n \in Cached /\ ~ Defined(data, n))
    BY Zenon, <1>1 DEF NetCurrent
  <2>1. n \in Cached => n \in Cached \ told
    BY Zenon, WriterAssumption DEF RamInv, RamType
  <2>q. QED
    BY Zenon, <1>1, <2>1 DEF RamInv, CacheCurrent
<1>q. QED
  BY Zenon, <1>1, <1>4, <1>5, <1>6 DEF RamInv, Cells

\* A command or a protocol writes a copy, which is noted.
LEMMA CopyStep ==
  ASSUME RamInv, Operation, UNCHANGED <<up, data, crc, changed, rom, buf, before, saved>>,
         cache' \in [Cached -> Value \cup {Unset}], told' \subseteq Loads,
         net' \in [NetNames -> Value \cup {Unset}], leased \subseteq leased', leased' \subseteq Leases,
         \A n \in Cached \ told' : (cache'[n] = cache[n] /\ n \notin told) \/ cache'[n] = getenv(data, n),
         \A n \in NetNames \ leased' : net'[n] = net[n]
  PROVE  RamInv'
<1>1. up = 1 /\ ops < MaxOps /\ ops' = ops + 1
  BY Zenon DEF Operation, Idle
<1>2. RamType'
  BY <1>1, PageAssumption DEF RamInv, RamType
<1>3. CacheCurrent'
  BY Zenon DEF RamInv, CacheCurrent
<1>4. NetCurrent'
  BY Zenon DEF RamInv, NetCurrent
<1>5. WellFormed' /\ Sound(crc)' /\ Cells(rom)' /\ Cells(buf)' /\ Cells(before)'
  BY Zenon DEF RamInv, WellFormed, Cells
<1>q. QED
  BY Zenon, <1>2, <1>3, <1>4, <1>5 DEF RamInv

\* eeprom_write does not touch RAM.
LEMMA WriteStep ==
  ASSUME RamInv, UNCHANGED <<up, data, crc, cache, told, net, leased, changed>>, ops' \in 0 .. MaxOps,
         Cells(rom'), Cells(buf'), Cells(before'), saved' \subseteq saved \cup {crc}
  PROVE  RamInv'
<1>1. RamType'
  BY Zenon DEF RamInv, RamType
<1>2. \A d \in saved' : d \in Data /\ Sound(d)
  BY Zenon DEF RamInv, RamType
<1>3. WellFormed' /\ Sound(crc') /\ CacheCurrent' /\ NetCurrent'
  BY Zenon, RamStays
<1>4. Cells(rom)' /\ Cells(buf)' /\ Cells(before)'
  BY Zenon DEF Cells
<1>q. QED
  BY Zenon, <1>1, <1>2, <1>3, <1>4 DEF RamInv

\* Every step.
LEMMA RamNext == IInv /\ RamInv /\ [Next]_vars => RamInv'
<1> SUFFICES ASSUME IInv, RamInv, [Next]_vars PROVE RamInv'
  BY Zenon
<1>0. /\ Cells(rom) /\ Cells(buf) /\ Cells(before) /\ data \in Data /\ crc \in Data /\ ops \in 0 .. MaxOps
      /\ \A d \in saved : d \in Data /\ Sound(d)
      /\ DefaultData \in Data /\ Sound(DefaultData)
  BY Zenon, DefaultAssumption DEF RamInv, RamType
<1>1. CASE Boot
  <2>1. CASE env_valid(rom)
    <3>1. Started(Content(rom)) /\ crc' = Content(rom)
      BY Zenon, <1>1, <2>1 DEF Boot, env_valid
    <3>2. Content(rom) \in Data /\ Sound(Content(rom))
      BY Zenon, <1>0, <2>1, Bootable
    <3>q. QED
      BY Zenon, <3>1, <3>2, StartStep
  <2>2. CASE ~ env_valid(rom)
    BY Zenon, <1>0, <1>1, <2>2, StartStep DEF Boot
  <2>q. QED
    BY Zenon, <2>1, <2>2
<1>2. CASE BootReadFails
  BY Zenon, <1>0, <1>2, StartStep DEF BootReadFails
<1>3. CASE Reset
  <2>1. /\ up' = 0 /\ data' = DefaultData /\ crc' = DefaultData /\ changed' = 1
        /\ cache' = [n \in Cached |-> Unset] /\ net' = [n \in NetNames |-> Unset]
        /\ told' = {} /\ leased' = {} /\ buf' = rom /\ before' = rom /\ UNCHANGED <<rom, saved, ops>>
    BY Zenon, <1>3 DEF Reset, NoWrite
  <2>2. RamType'
    BY <1>0, <2>1 DEF RamType
  <2>3. CacheCurrent' /\ NetCurrent' /\ WellFormed' /\ Sound(crc)'
    BY <1>0, <2>1 DEF CacheCurrent, NetCurrent, WellFormed
  <2>q. QED
    BY Zenon, <1>0, <2>1, <2>2, <2>3 DEF RamInv, Cells
<1>4. ASSUME NEW n \in Name, NEW v \in Value \cup {Unset}, Refused(n, v) PROVE RamInv'
  <2>1. Setting /\ data' = data /\ crc' = crc /\ cache' = cache /\ told' = told /\ up' = up
    BY Zenon, <1>4 DEF Refused, Setting, ram
  <2>2. CacheCurrent' /\ Sound(data') /\ Sound(crc') /\ cache' \in [Cached -> Value \cup {Unset}]
    BY Zenon, <2>1 DEF RamInv, RamType, CacheCurrent, WellFormed
  <2>q. QED
    BY Zenon, <1>0, <2>1, <2>2, SettingStep
<1>5. ASSUME NEW n \in Name, Deleted(n) PROVE RamInv'
  BY Zenon, <1>5, DeletedStep DEF Deleted
<1>6. ASSUME NEW n \in Name, NEW v \in Value, Overflown(n, v) PROVE RamInv'
  BY Zenon, <1>6, DeletedStep DEF Overflown
<1>7. ASSUME NEW n \in Name, NEW v \in Value, Stored(n, v) PROVE RamInv'
  BY Zenon, <1>7, StoredStep
<1>8. CASE NetInitLoop
  BY Zenon, <1>8, NetStep
<1>16. cache \in [Cached -> Value \cup {Unset}] /\ net \in [NetNames -> Value \cup {Unset}]
       /\ told \subseteq Loads /\ leased \subseteq Leases /\ Loads \subseteq Cached /\ Leases \subseteq NetNames
  BY Zenon, WriterAssumption DEF RamInv, RamType
<1>17. ASSUME NEW n \in Loads, NEW v \in Value, Load(n, v) PROVE RamInv'
  <2>1. /\ Operation /\ UNCHANGED <<up, data, crc, net, leased, changed, rom, buf, before, saved>>
        /\ cache' = [cache EXCEPT ![n] = v] /\ told' = told \cup {n}
    BY Zenon, <1>17 DEF Load, netVars, writeVars
  <2>2. cache' \in [Cached -> Value \cup {Unset}] /\ \A m \in Cached \ told' : cache'[m] = cache[m]
    BY <1>16, <2>1
  <2>q. QED
    BY Zenon, <1>16, <2>1, <2>2, CopyStep
<1>18. ASSUME NEW arg \in [Loads -> Value \cup {Unset}], netboot_common(arg) PROVE RamInv'
  <2> DEFINE read == {n \in Preset : Defined(data, n)}
             given == {n \in Loads : arg[n] # Unset}
  <2>1. /\ Operation /\ UNCHANGED <<up, data, crc, net, leased, changed, rom, buf, before, saved>>
        /\ cache' = [n \in Cached |-> IF n \in given THEN arg[n]
                                      ELSE IF n \in read THEN getenv(data, n) ELSE cache[n]]
        /\ told' = (told \ read) \cup given
    BY Zenon, <1>18 DEF netboot_common, netVars, writeVars
  <2>2. \A n \in Cached : getenv(data, n) \in Value \cup {Unset}
    BY Zenon, NameAssumption, SoundRead DEF RamInv, RamType, WellFormed
  <2>3. cache' \in [Cached -> Value \cup {Unset}] /\ told' \subseteq Loads
    BY Zenon, <1>16, <2>1, <2>2
  <2>4. \A n \in Cached \ told' : (cache'[n] = cache[n] /\ n \notin told) \/ cache'[n] = getenv(data, n)
    BY Zenon, <2>1
  <2>q. QED
    BY Zenon, <1>16, <2>1, <2>3, <2>4, CopyStep
<1>19. ASSUME NEW n \in Leases, NEW v \in Value \cup {Unset}, Lease(n, v) PROVE RamInv'
  <2>1. /\ Operation /\ UNCHANGED <<up, data, crc, cache, told, changed, rom, buf, before, saved>>
        /\ net' = [net EXCEPT ![n] = v] /\ leased' = leased \cup {n}
    BY Zenon, <1>19 DEF Lease, ram, writeVars
  <2>2. net' \in [NetNames -> Value \cup {Unset}] /\ \A m \in NetNames \ leased' : net'[m] = net[m]
    BY <1>16, <2>1
  <2>q. QED
    BY Zenon, <1>16, <2>1, <2>2, CopyStep
<1>9. ASSUME NEW who, NEW b, NEW from, NEW to, eeprom_write(who, b, from, to), Cells(b),
             saved' \subseteq saved \cup {crc}
      PROVE  RamInv'
  <2>1. /\ ops < MaxOps /\ ops' = ops + 1 /\ buf' = b /\ before' = rom
        /\ UNCHANGED <<up, data, crc, cache, told, net, leased, changed, rom>>
    BY Zenon, <1>9 DEF eeprom_write, Operation, ram, netVars
  <2>2. ops' \in 0 .. MaxOps
    BY <1>0, <2>1, PageAssumption
  <2>3. Cells(rom') /\ Cells(buf') /\ Cells(before')
    BY <1>0, <1>9, <2>1, Zenon
  <2>q. QED
    BY Zenon, <1>9, <2>1, <2>2, <2>3, WriteStep
<1>10. CASE saveenv
  BY Zenon, <1>0, <1>9, <1>10, ImageCells DEF saveenv
<1>11. ASSUME NEW r \in Ranges, do_eeprom(r[1], r[2]) PROVE RamInv'
  BY Zenon, <1>9, <1>11, JunkCells DEF do_eeprom
<1>12. ASSUME NEW len \in 0 .. ChunkLen, NEW fails, WriteChunk(len, fails) PROVE RamInv'
  <2>1. /\ offset < end /\ rom' = Written(len) /\ saved' = saved
        /\ UNCHANGED <<up, data, crc, cache, told, net, leased, changed, buf, before, ops>>
    BY Zenon, <1>12 DEF WriteChunk, ram, netVars
  <2>2. offset \in Nat /\ end \in Nat
    BY SizeAssumption DEF IInv, WriteInv, Address
  <2>3. \A a \in Address : rom'[a] = IF offset <= a /\ a < offset + len THEN buf[a] ELSE rom[a]
    BY Zenon, <2>1, <2>2, WrittenFacts
  <2>4. Cells(rom') /\ Cells(buf') /\ Cells(before')
    BY Zenon, <1>0, <2>1, <2>3 DEF Cells
  <2>q. QED
    BY Zenon, <1>0, <2>1, <2>4, WriteStep
<1>13. ASSUME WriteChunk(ChunkLen, FALSE) PROVE RamInv'
  <2>1. offset \in Nat /\ end \in Nat /\ offset < end
    BY <1>13, SizeAssumption DEF IInv, WriteInv, WriteChunk, Address
  <2>2. ChunkLen \in 0 .. ChunkLen
    BY <2>1, ChunkFacts
  <2>q. QED
    BY <1>12, <1>13, <2>2, Zenon
<1>14. CASE WriteEnd
  <2>1. /\ UNCHANGED <<up, data, crc, cache, told, net, leased, changed, rom, ops>> /\ buf' = rom /\ before' = rom
        /\ saved' \subseteq saved \cup {crc}
    BY Zenon, <1>14 DEF WriteEnd, NoWrite, ram, netVars
  <2>2. Cells(rom') /\ Cells(buf') /\ Cells(before')
    BY Zenon, <1>0, <2>1 DEF Cells
  <2>q. QED
    BY Zenon, <1>0, <2>1, <2>2, WriteStep
<1>15. CASE UNCHANGED vars
  <2>1. UNCHANGED <<up, data, crc, cache, told, net, leased, changed, rom, buf, before, saved, ops>>
    BY Zenon, <1>15 DEF vars, ram, netVars, writeVars
  <2>2. Cells(rom') /\ Cells(buf') /\ Cells(before') /\ saved' \subseteq saved \cup {crc}
    BY Zenon, <1>0, <2>1 DEF Cells
  <2>q. QED
    BY Zenon, <1>0, <2>1, <2>2, WriteStep
<1>q. QED
  BY <1>1, <1>2, <1>3, <1>4, <1>5, <1>6, <1>7, <1>8, <1>10, <1>11, <1>12, <1>13, <1>14, <1>15,
     <1>17, <1>18, <1>19, Zenon DEF Next

-----------------------------------------------------------------------------
\* The inductive invariant of the RAM side, beside that of the EEPROM.
THEOREM EnvironmentInv == Spec => [](IInv /\ RamInv)
<1>1. Init => IInv /\ RamInv
  BY Zenon, InvInit, RamInit
<1>2. IInv /\ RamInv /\ [Next]_vars => (IInv /\ RamInv)'
  BY Zenon, InvNext, RamNext
<1>q. QED
  BY <1>1, <1>2, PTL DEF Spec

\* Data, copies, EEPROM and the counters of eeprom_write keep their types.
THEOREM Types == Spec => []TypeOK
<1>1. IInv /\ RamInv => TypeOK
  <2> SUFFICES ASSUME IInv, RamInv PROVE TypeOK
    BY Zenon
  <2>1. /\ op \in {"none", "save", "cmd"} /\ rcode \in 0 .. 1
        /\ start \in Address /\ offset \in start .. end /\ end \in 0 .. ENV_SIZE + 1
    BY DEF IInv, WriteInv
  <2>2. \A a \in Address : {rom[a], buf[a], before[a]} \subseteq (IF a = 0 THEN Data \cup {Junk} ELSE Cell)
    BY Zenon DEF RamInv, Cells
  <2>q. QED
    BY Zenon, <2>1, <2>2 DEF RamInv, RamType, TypeOK
<1>q. QED
  BY <1>1, EnvironmentInv, PTL

\* After every sequence of setenv, askenv, saveenv, eeprom commands, failed
\* writes and resets, the environment is closed by a double NUL inside its
\* buffer, its definitions are complete, and none is there twice.
THEOREM StaysWellFormed == Spec => []WellFormed
<1>1. RamInv => WellFormed
  BY Zenon DEF RamInv
<1>q. QED
  BY <1>1, EnvironmentInv, PTL

\* The copies in bd_t, load_addr and BootFile agree with every variable that
\* is defined, unless a command has written the copy since it was last read:
\* the copy in bd_t, which no command writes, always does.
THEOREM CopiesAgree == Spec => []CacheCurrent
<1>1. RamInv => CacheCurrent
  BY Zenon DEF RamInv
<1>q. QED
  BY <1>1, EnvironmentInv, PTL

\* When NetInitLoop skips its reads, what it has is what the environment says,
\* but for the copies that a deletion leaves behind and for what BOOTP or RARP
\* has written since it read.
THEOREM NetAgrees == Spec => []NetCurrent
<1>1. RamInv => NetCurrent
  BY Zenon DEF RamInv
<1>q. QED
  BY <1>1, EnvironmentInv, PTL

\* _do_setenv takes its variable out, puts it last with its new value when
\* that fits, and leaves the values and the order of all others alone.
THEOREM SetenvDoesWhatItSays == Spec => SetenvMeaning
<1> DEFINE Meaning ==
      \A n \in Name :
        /\ Deleted(n) \/ (\E v \in Value : Overflown(n, v)) =>
             OthersKept(data, data', n) /\ ~ Defined(data', n)
        /\ \A v \in Value :
             Stored(n, v) => /\ OthersKept(data, data', n) /\ getenv(data', n) = v
                             /\ \A m \in Name \ {n} : Defined(data', m) => Place(data', m) < Place(data', n)
<1>1. RamInv => Meaning
  <2> SUFFICES ASSUME RamInv, NEW n \in Name
               PROVE  /\ Deleted(n) \/ (\E v \in Value : Overflown(n, v)) =>
                           OthersKept(data, data', n) /\ ~ Defined(data', n)
                      /\ \A v \in Value :
                           Stored(n, v) => /\ OthersKept(data, data', n) /\ getenv(data', n) = v
                                           /\ \A m \in Name \ {n} : Defined(data', m) => Place(data', m) < Place(data', n)
    BY Zenon
  <2>1. data \in Data /\ Sound(data)
    BY Zenon DEF RamInv, RamType, WellFormed
  <2>2. ASSUME data' = Delete(data, n) PROVE OthersKept(data, data', n) /\ ~ Defined(data', n)
    BY Zenon, <2>1, <2>2, SoundDelete
  <2>3. ASSUME NEW v \in Value, Stored(n, v)
        PROVE  /\ OthersKept(data, data', n) /\ getenv(data', n) = v
               /\ \A m \in Name \ {n} : Defined(data', m) => Place(data', m) < Place(data', n)
    <3>1. ~ Overflows(Delete(data, n), n, v) /\ data' = Append1(Delete(data, n), n, v)
      BY Zenon, <2>3 DEF Stored
    <3>q. QED
      BY Zenon, <2>1, <3>1, SoundSet
  <2>4. Deleted(n) \/ (\E v \in Value : Overflown(n, v)) => data' = Delete(data, n)
    BY Zenon DEF Deleted, Overflown
  <2>q. QED
    BY Zenon, <2>2, <2>3, <2>4
<1>2. (IInv /\ RamInv) /\ [Next]_vars => [Meaning]_vars
  BY Zenon, <1>1
<1>q. QED
  BY <1>2, EnvironmentInv, PTL DEF Spec, SetenvMeaning
=============================================================================
