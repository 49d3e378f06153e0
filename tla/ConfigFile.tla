------------------------------- MODULE ConfigFile -------------------------------
(***************************************************************************)
(* The configuration file of util/config.c: lines that are items (a key    *)
(* and a value), comments or others.  A read goes through the lines for    *)
(* the first item of its key; a write reads all items, replaces one, and   *)
(* writes the file anew, line by line.  A mutex keeps the threads of the   *)
(* program apart, but the program may end in the middle of a write, and a  *)
(* file may fail to open or hold more items than the array of a write:     *)
(* whole is false from the moment the file may have lost something to one  *)
(* of these.  A program that fails to open its file at the start ends.     *)
(***************************************************************************)
EXTENDS Integers, Sequences

CONSTANTS
  Keys, Values,
  Words,          \* the values that are no number
  NoValue,        \* the result of a read that finds no item
  CfgFiles,       \* the files the program may start with
  MaxItems,       \* items the array of a write holds (20)
  CfgWrites       \* bound on the writes and on the ends of the program

Line == [kind : {"item", "comment", "other"}, key : Keys, value : Values]

ASSUME ValuesAssumption ==
  Words \subseteq Values /\ Values \subseteq Int /\ NoValue \in Int \ Values
ASSUME CfgFilesAssumption == CfgFiles \subseteq Seq(Line)
ASSUME MaxItemsAssumption == MaxItems \in Nat \ {0}

VARIABLES
  cfgfile,
  cfgMutex,       \* the thread that holds ghCfgMutex: none, reader, writer
  rpc, rkey, rline, ext,   \* the reader: idle, lock or lines; its key, the line it is at;
                           \* whether it is read_conf_value_ext
  wpc, wkey, wvalue,    \* the writer: idle, lock, gather, garbled, lines; its key and value
  wline, items,         \* the line it reads next, the items it has read, those to write
  truth,          \* the value of each key in the file at the start, or as the last write left it
  whole,          \* nothing of the file was lost to a crash, a failed read or the array's end
  seen,           \* the values the key of the read has had since the read began
  given,          \* what the last read or getter returned
  writes

cfgvars == <<cfgfile, cfgMutex, rpc, rkey, rline, ext, wpc, wkey, wvalue, wline, items,
             truth, whole, seen, given, writes>>
rvars == <<rpc, rkey, rline, ext, given>>
wvars == <<wpc, wkey, wvalue, wline, items, writes>>

Item(k, v) == [kind |-> "item", key |-> k, value |-> v]

\* Mutant: a commented item is taken for an item.
IsItem_Comment(line) == line.kind \in {"item", "comment"}

\* get_item_from_line returns 0: no blank line, comment or line without the separator.
IsItem(line) == line.kind = "item"

\* What a read of key k gives on lines f.
Lookup(f, k) ==
  LET hits == {n \in 1 .. Len(f) : f[n].kind = "item" /\ f[n].key = k}
  IN  IF hits = {} THEN NoValue ELSE f[CHOOSE n \in hits : \A o \in hits : n <= o].value

-----------------------------------------------------------------------------
(* read_conf_value, read_conf_value_ext *)

ReadCall(k, e) ==
  /\ rpc = "idle"
  /\ rpc' = "lock" /\ rkey' = k /\ ext' = e /\ rline' = 1
  /\ seen' = {truth[k]}
  /\ UNCHANGED <<cfgfile, cfgMutex, given, truth, whole, wvars>>

ReadLock ==
  /\ rpc = "lock" /\ cfgMutex = "none"
  /\ cfgMutex' = "reader" /\ rpc' = "lines"
  /\ UNCHANGED <<cfgfile, rkey, rline, ext, given, truth, whole, seen, wvars>>

\* The getters by their key, CfgGetUartPort to CfgGetLogLevel, and the default of each kind.
KindOf == [uartPort |-> "text", sca |-> "text", masterIp |-> "address", slaveIp |-> "address",
           notifyServerIp |-> "address", udpPort |-> "port", tcpPort |-> "port",
           notifyServerPort |-> "port", logStdOut |-> "flag", logLevel |-> "flag"]
Default == [text |-> NoValue, address |-> 0, port |-> 0, flag |-> -1]

ASSUME KeysAssumption == Keys \subseteq DOMAIN KindOf

\* What sscanf leaves of a word is the uninitialised variable it was to fill.
Leftover == {0, 9}

\* What a getter can return for the value r it read.
Converted(kind, r) ==
  CASE r = NoValue \/ (kind = "address" /\ r \in Words) -> {Default[kind]}
    [] kind \in {"port", "flag"} /\ r \in Words -> Leftover
    [] kind = "port" /\ r \notin Words -> {r % 65536}
    [] OTHER -> {r}

Returns(r) == given' \in IF ext THEN {r} ELSE Converted(KindOf[rkey], r)

\* The line is an item of the key.  read_conf_value_ext parses from the key on, where no # precedes
\* it, so that it honours a commented item.
Found == LET line == cfgfile[rline]
         IN  line.key = rkey /\ (IsItem(line) \/ (ext /\ line.kind = "comment"))

ReadLine ==
  /\ rpc = "lines" /\ rline <= Len(cfgfile) /\ ~Found
  /\ rline' = rline + 1
  /\ UNCHANGED <<cfgfile, cfgMutex, rpc, rkey, ext, given, truth, whole, seen, wvars>>

ReadReturn ==
  /\ rpc = "lines"
  /\ \/ rline > Len(cfgfile) /\ Returns(NoValue)
     \/ rline <= Len(cfgfile) /\ Found /\ Returns(cfgfile[rline].value)
  /\ rpc' = "idle" /\ cfgMutex' = "none"
  /\ UNCHANGED <<cfgfile, rkey, rline, ext, truth, whole, seen, wvars>>

-----------------------------------------------------------------------------
(* write_conf_value, which no program calls yet *)

WriteCall(k, v) ==
  /\ wpc = "idle" /\ writes < CfgWrites
  /\ wpc' = "lock" /\ wkey' = k /\ wvalue' = v /\ writes' = writes + 1
  /\ UNCHANGED <<cfgfile, cfgMutex, wline, items, truth, whole, seen, rvars>>

WriteLock ==
  /\ wpc = "lock" /\ cfgMutex = "none"
  /\ cfgMutex' = "writer" /\ wpc' = "gather" /\ wline' = 1 /\ items' = <<>>
  /\ UNCHANGED <<cfgfile, wkey, wvalue, writes, truth, whole, seen, rvars>>

\* What an array that was not filled, or was filled beyond its end, may hold: nothing, what was
\* read into it, or anything else, for which one item stands.
Unfilled == {<<>>, items} \cup {<<Item(k, v)>> : k \in Keys, v \in Values}

\* file_to_items; the item that finds the array full goes over what lies behind it.
Gather ==
  /\ wpc = "gather" /\ wline <= Len(cfgfile)
  /\ IF IsItem(cfgfile[wline]) /\ Len(items) = MaxItems
     THEN wpc' = "garbled" /\ items' \in Unfilled
     ELSE /\ items' = IF IsItem(cfgfile[wline]) THEN Append(items, cfgfile[wline]) ELSE items
          /\ UNCHANGED wpc
  /\ wline' = wline + 1
  /\ UNCHANGED <<cfgfile, cfgMutex, wkey, wvalue, writes, truth, whole, seen, rvars>>

\* The file cannot be opened for reading: neither the items nor their number are set, and nobody
\* looks at what file_to_items returns.
GatherFails ==
  /\ wpc = "gather" /\ wline = 1
  /\ wpc' = "garbled" /\ items' \in Unfilled
  /\ UNCHANGED <<cfgfile, cfgMutex, wkey, wvalue, wline, writes, truth, whole, seen, rvars>>

\* file_to_items has returned.
AllRead == wpc = "garbled" \/ (wpc = "gather" /\ wline > Len(cfgfile))

\* The first item of the key has the new value; a key without an item is not added.
Replaced(all) ==
  [n \in 1 .. Len(all) |->
     IF all[n].key = wkey /\ \A m \in 1 .. n - 1 : all[m].key # wkey
     THEN Item(wkey, wvalue) ELSE all[n]]

\* The replacement, and fopen, which empties the file.
WriteOpen ==
  /\ AllRead
  /\ wpc' = "lines" /\ items' = Replaced(items) /\ cfgfile' = <<>>
  /\ whole' = (whole /\ wpc = "gather")
  /\ UNCHANGED <<cfgMutex, wkey, wvalue, wline, writes, truth, seen, rvars>>

\* fopen fails, and leaves the file as it is.
WriteOpenFails ==
  /\ AllRead
  /\ wpc' = "idle" /\ cfgMutex' = "none" /\ wline' = 1 /\ items' = <<>>
  /\ UNCHANGED <<cfgfile, wkey, wvalue, writes, truth, whole, seen, rvars>>

WriteLine ==
  /\ wpc = "lines" /\ items # <<>>
  /\ cfgfile' = Append(cfgfile, items[1]) /\ items' = Tail(items)
  /\ UNCHANGED <<cfgMutex, wpc, wkey, wvalue, wline, writes, truth, whole, seen, rvars>>

WriteReturn ==
  /\ wpc = "lines" /\ items = <<>>
  /\ wpc' = "idle" /\ wline' = 1 /\ cfgMutex' = IF cfgMutex = "writer" THEN "none" ELSE cfgMutex
  /\ truth' = [k \in Keys |-> Lookup(cfgfile, k)]
  /\ seen' = seen \cup {truth'[rkey]}
  /\ UNCHANGED <<cfgfile, wkey, wvalue, items, writes, whole, rvars>>

-----------------------------------------------------------------------------

\* The program ends; what it has written so far is the file of the next.
CfgCrash ==
  /\ writes < CfgWrites /\ writes' = writes + 1
  /\ whole' = (whole /\ wpc # "lines")
  /\ cfgMutex' = "none" /\ rpc' = "idle" /\ wpc' = "idle" /\ wline' = 1 /\ items' = <<>>
  /\ seen' = {} /\ given' = NoValue
  /\ UNCHANGED <<cfgfile, rkey, rline, ext, wkey, wvalue, truth>>

CfgInit ==
  /\ cfgfile \in CfgFiles /\ cfgMutex = "none"
  /\ rpc = "idle" /\ rkey \in Keys /\ rline = 1 /\ ext = FALSE
  /\ wpc = "idle" /\ wkey = rkey /\ wvalue \in Values /\ wline = 1 /\ items = <<>>
  /\ truth = [k \in Keys |-> Lookup(cfgfile, k)] /\ seen = {} /\ given = NoValue
  /\ whole = TRUE /\ writes = 0

CfgNext ==
  \/ \E k \in Keys : \E e \in BOOLEAN : ReadCall(k, e)
  \/ ReadLock \/ ReadLine \/ ReadReturn
  \/ \E k \in Keys, v \in Values : WriteCall(k, v)
  \/ WriteLock \/ Gather \/ GatherFails \/ WriteOpen \/ WriteOpenFails \/ WriteLine \/ WriteReturn
  \/ CfgCrash

CfgSpec == CfgInit /\ [][CfgNext]_cfgvars

-----------------------------------------------------------------------------
(* Properties *)

\* Every variable has a value the code can give it, and a thread that is past its lock holds it.
CfgTypeOK ==
  /\ cfgfile \in Seq(Line) /\ items \in Seq(Line)
  /\ truth \in [Keys -> Values \cup {NoValue}] /\ given \in Int
  /\ whole \in BOOLEAN /\ Len(items) <= MaxItems
  /\ rpc = "lines" => cfgMutex = "reader"
  /\ wpc \in {"gather", "garbled", "lines"} => cfgMutex = "writer"

\* As long as the file is whole, a getter gives what it makes of a value the key had in a complete
\* file while the read lasted: not that of a file half written, and not that of a comment
\* (config.c:215, 300).  After a crash in the middle of a write the half written file is all there is.
ReadsWhole ==
  [][rpc = "lines" /\ rpc' = "idle" /\ seen' # {} /\ ~ext /\ whole
       => \E v \in seen : given' \in Converted(KindOf[rkey], v)]_cfgvars

\* As long as the file is whole, a write that ends with the file written leaves every other key its
\* value, and its own key the new one if it had an item (config.c:307, 325); a write that could not
\* read the file, or more items than its array holds, leaves what it may.
WritesOne ==
  [][wpc = "lines" /\ wpc' = "idle" /\ writes' = writes /\ whole
       => \A k \in Keys : truth'[k] = IF k = wkey /\ truth[k] # NoValue THEN wvalue ELSE truth[k]]_cfgvars

\* Reads and writes of a file that is whole keep to whole values, of the keys they are for.
FileKeepsValues == ReadsWhole /\ WritesOne
=============================================================================
