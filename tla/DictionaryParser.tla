-------------------------- MODULE DictionaryParser --------------------------
(***************************************************************************)
(* dictionary/parser/parser.go: Parse, and ParseFiles with the include     *)
(* directives.  The recursion of parseFile and handleInclude is the stack: *)
(* a frame is one activation of parse, with the file's lines still to be   *)
(* read, the open vendor block and the entries collected.  A line is a     *)
(* directive; its text, comments and flags are left out.  Dict keeps its   *)
(* attributes, values and vendors in one list each, in the order in which  *)
(* they are read; here they share one list.                                *)
(*                                                                         *)
(* External: the file system.  A path names one file (no links) and files  *)
(* do not change while they are read.                                      *)
(***************************************************************************)
EXTENDS Naturals, FiniteSets, Sequences, SequencesExt

CONSTANTS
    Files,      \* absolute paths
    Lines,      \* what a line may be: a directive and its operands
    Disks,      \* what may be on the disk: functions from Files
    Calls,      \* the arguments ParseFiles may be given
    Missing,    \* the content of a file that cannot be opened
    NoVendor    \* the empty vendor name

ASSUME FilesAreFinite == IsFiniteSet(Files)

ASSUME LinesAreDirectives ==
    \A line \in Lines :
        /\ line.is \in {"$INCLUDE", "ATTRIBUTE", "VALUE", "VENDOR", "BEGIN-VENDOR",
                       "END-VENDOR", "other", "malformed"}
        /\ line.is = "$INCLUDE" => line.path \in Files

ASSUME DisksHoldLines == Disks \subseteq [Files -> {Missing} \cup Seq(Lines)]

ASSUME CallsAreFiles == Calls \subseteq Seq(Files)

\* Value types as a file names them, as the parser passes them on.
Normalize(token) ==
    CASE token = "text" -> "string"
      [] token = "ipv4addr" -> "ipaddr"
      [] token \in {"octet", "abinary"} -> "octets"
      [] token \in {"string", "integer", "ipaddr", "ipv6addr", "octets", "vsa", "extended"}
            -> token
      [] OTHER -> "raw"

VARIABLES
    disk,       \* each file's lines, or Missing
    paths,      \* the arguments of ParseFiles
    read,       \* how many of them have been read
    reader,     \* is this Parse, which has no directory and no stack of files?
    stack,      \* the activations of parse, the innermost one last
    visited,    \* the files on the include stack
    dict,       \* the entries of the arguments read so far
    outcome     \* "parsing", or what the call returned

parserVars == <<disk, paths, reader, read, stack, visited, dict, outcome>>

ParserInit ==
    /\ disk \in Disks
    /\ paths \in Calls
    /\ reader \in BOOLEAN
    /\ reader => Len(paths) = 1 /\ disk[paths[1]] # Missing
    /\ read = 0
    /\ stack = <<>>
    /\ visited = {}
    /\ dict = <<>>
    /\ outcome = "parsing"

Frame(f) == [file |-> f, lines |-> disk[f], vendor |-> NoVendor, entries |-> <<>>]

Top == Last(stack)

\* The entry of an attribute in the block of a vendor.
AttributeOf(line, vendor) ==
    [is |-> "ATTRIBUTE", type |-> line.type, name |-> line.name,
     kind |-> Normalize(line.token), vendor |-> vendor]

\* The directive at hand, when there is one.
AtLine(is) ==
    /\ outcome = "parsing"
    /\ stack # <<>> /\ Top.lines # <<>>
    /\ Head(Top.lines).is = is

\* The line is done; the frame has a new vendor and new entries.
NextLine(vendor, entries) ==
    [Top EXCEPT !.lines = Tail(@), !.vendor = vendor, !.entries = @ \o entries]

Goes(frames) ==
    /\ stack' = frames
    /\ UNCHANGED <<disk, paths, reader, read, visited, dict, outcome>>

\* Every activation returns the error, and its deferred functions run.
Fail ==
    /\ outcome' = "failed"
    /\ stack' = <<>>
    /\ visited' = {}
    /\ dict' = <<>>
    /\ UNCHANGED <<disk, paths, reader, read>>

\* parseFile opens f on top of frames, unless f is on the stack already.
CanOpen(f) == f \notin visited /\ disk[f] # Missing

OpenOn(frames, f) ==
    /\ stack' = Append(frames, Frame(f))
    /\ visited' = visited \cup {f}
    /\ UNCHANGED <<disk, paths, reader, read, dict, outcome>>

-----------------------------------------------------------------------------
\* ParseFiles takes its next argument; Parse its reader.
OpenPath ==
    /\ outcome = "parsing" /\ stack = <<>> /\ read < Len(paths)
    /\ LET f == paths[read + 1]
       IN  IF reader THEN Goes(<<Frame(f)>>)
           ELSE IF CanOpen(f) THEN OpenOn(<<>>, f)
           ELSE Fail

\* $INCLUDE of a file: Parse has no directory to resolve it with.
Include ==
    /\ AtLine("$INCLUDE")
    /\ LET f == Head(Top.lines).path
       IN  IF ~reader /\ CanOpen(f)
           THEN OpenOn(Append(Front(stack), NextLine(Top.vendor, <<>>)), f)
           ELSE Fail

\* handleAttribute; the entry carries the vendor of the enclosing block.
Attribute ==
    /\ AtLine("ATTRIBUTE")
    /\ LET attr == AttributeOf(Head(Top.lines), Top.vendor)
       IN  Goes(Append(Front(stack), NextLine(Top.vendor, <<attr>>)))

\* handleValue and handleVendor.
ValueOrVendor ==
    /\ AtLine("VALUE") \/ AtLine("VENDOR")
    /\ Goes(Append(Front(stack), NextLine(Top.vendor, <<Head(Top.lines)>>)))

BeginVendor ==
    /\ AtLine("BEGIN-VENDOR")
    /\ Goes(Append(Front(stack), NextLine(Head(Top.lines).vendor, <<>>)))

EndVendor ==
    /\ AtLine("END-VENDOR")
    /\ Goes(Append(Front(stack), NextLine(NoVendor, <<>>)))

\* ALIAS, the markers of nested blocks, and directives the parser does not
\* know.
Ignored ==
    /\ AtLine("other")
    /\ Goes(Append(Front(stack), NextLine(Top.vendor, <<>>)))

\* A directive with too few fields, or a number out of range.
Malformed ==
    /\ AtLine("malformed")
    /\ Fail

\* Slip: the deferred delete of visited is lost.
EndOfFileSlip ==
    /\ outcome = "parsing"
    /\ stack # <<>> /\ Top.lines = <<>>
    /\ IF Len(stack) = 1
       THEN /\ stack' = <<>>
            /\ dict' = dict \o Top.entries
            /\ read' = read + 1
       ELSE /\ stack' = [Front(stack) EXCEPT ![Len(stack) - 1].entries = @ \o Top.entries]
            /\ UNCHANGED <<dict, read>>
    /\ UNCHANGED <<disk, paths, reader, visited, outcome>>

\* parse returns: its entries go to the including file, or to the result.
EndOfFile ==
    /\ outcome = "parsing"
    /\ stack # <<>> /\ Top.lines = <<>>
    /\ IF Len(stack) = 1
       THEN /\ stack' = <<>>
            /\ dict' = dict \o Top.entries
            /\ read' = read + 1
       ELSE /\ stack' = [Front(stack) EXCEPT ![Len(stack) - 1].entries = @ \o Top.entries]
            /\ UNCHANGED <<dict, read>>
    /\ visited' = IF reader THEN visited ELSE visited \ {Top.file}
    /\ UNCHANGED <<disk, paths, reader, outcome>>

ParseReturns ==
    /\ outcome = "parsing" /\ stack = <<>> /\ read = Len(paths)
    /\ outcome' = "parsed"
    /\ UNCHANGED <<disk, paths, reader, read, stack, visited, dict>>

ParserNext ==
    \/ OpenPath \/ Include \/ Attribute \/ ValueOrVendor \/ BeginVendor \/ EndVendor
    \/ Ignored \/ Malformed \/ EndOfFile \/ ParseReturns

-----------------------------------------------------------------------------
(* What the files on a disk say, without reading them step by step: the    *)
(* entries, or that they cannot be read.                                   *)

Reads(entries) == [ok |-> TRUE, entries |-> entries]
Bad == [ok |-> FALSE, entries |-> <<>>]

\* Readings one after the other: all are read or none is.
Together(readings) ==
    IF \A i \in DOMAIN readings : readings[i].ok
    THEN Reads(FlattenSeq([i \in DOMAIN readings |-> readings[i].entries]))
    ELSE Bad

\* The vendor block that line i of a file is in: blocks do not nest, and an
\* including or included file has its own.
VendorAt(file, i) ==
    LET marks == {j \in 1..(i - 1) : file[j].is \in {"BEGIN-VENDOR", "END-VENDOR"}}
        latest == CHOOSE j \in marks : \A m \in marks : m <= j
    IN  IF marks = {} \/ file[latest].is = "END-VENDOR"
        THEN NoVendor ELSE file[latest].vendor

\* The entries of line i of a file, given what the files it may include say.
LineSays(file, i, says) ==
    LET line == file[i] IN
    CASE line.is = "$INCLUDE" -> says[line.path]
      [] line.is = "ATTRIBUTE" -> Reads(<<AttributeOf(line, VendorAt(file, i))>>)
      [] line.is \in {"VALUE", "VENDOR"} -> Reads(<<line>>)
      [] line.is = "malformed" -> Bad
      [] OTHER -> Reads(<<>>)

FileSays(file, says) ==
    IF file = Missing THEN Bad
    ELSE Together([i \in 1..Len(file) |-> LineSays(file, i, says)])

\* Included files in place of their directives, to a depth: a file that is
\* included deeper than that cannot be read.
Says(files) ==
    LET says[depth \in Nat] ==
            [f \in Files |-> IF depth = 0 THEN Bad ELSE FileSays(files[f], says[depth - 1])]
    IN  says

\* Among Cardinality(Files) files nested deeper than that one must include
\* itself; Parse includes none.
Depth == IF reader THEN 1 ELSE Cardinality(Files)

\* What the arguments say, one by one and together.
PathsSay == [i \in 1..Len(paths) |-> Says(disk)[Depth][paths[i]]]
FilesSay == Together(PathsSay)

\* The call succeeds exactly when every file is there and well formed and
\* none includes itself, however often a file is included; its result is
\* every file's entries in the place where the file is included, each
\* attribute with the vendor of its own file's block.
ParsesWhatFilesSay ==
    /\ outcome = "parsed" => FilesSay = Reads(dict)
    /\ outcome = "failed" => FilesSay = Bad
=============================================================================
