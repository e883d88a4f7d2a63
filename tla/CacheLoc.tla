------------------------------ MODULE CacheLoc ------------------------------
(***************************************************************************)
(* How the cache locations come out of the -L options (parser/             *)
(* parser_main.c parse_cacheloc).  The scan has two pointers into the      *)
(* argument: s, where the current location starts, and p.  An argument is  *)
(* a sequence of characters of which only the comma and the backslash      *)
(* matter; a location is the pair of positions it was cut at.              *)
(***************************************************************************)
EXTENDS Integers, Sequences, FiniteSets

CONSTANTS
    MAX_CACHE_LOCS,
    Given             \* the sequences of -L arguments that may be given

Comma == ","
Backslash == "\\"
Chars == {"x", Comma, Backslash}

ASSUME MaxAssumption == MAX_CACHE_LOCS \in Nat \ {0}
ASSUME GivenAssumption == Given \subseteq Seq(Seq(Chars))

VARIABLES
    args, k,          \* the -L arguments, and the one being processed
    s, p, n,
    cacheloc,         \* [slot -> location]
    cacheloc_n,
    pc                \* "options" -> "scan" ... -> "main" or "exit"

locvars == <<args, k, s, p, n, cacheloc, cacheloc_n, pc>>

arg == args[k]
Slots == 1 .. MAX_CACHE_LOCS
Null == <<0, 0>>            \* no location
Default == <<-1, -1>>       \* /var/cache/apparmor
AtEnd == p = Len(arg) + 1

LocInit ==
    /\ args \in Given
    /\ k = 0 /\ s = 1 /\ p = 1 /\ n = 0
    /\ cacheloc = [i \in Slots |-> Null] /\ cacheloc_n = 0
    /\ pc = "options"

(* process_arg, case 'L': the scan starts over, the slots are kept. *)
NextOption ==
    /\ pc = "options" /\ k < Len(args)
    /\ k' = k + 1 /\ s' = 1 /\ p' = 1 /\ n' = 0
    /\ pc' = "scan"
    /\ UNCHANGED <<args, cacheloc, cacheloc_n>>

(* Mutant: the backslash is passed over only where it escapes a comma. *)
ScanBackslash_waits ==
    /\ pc = "scan" /\ ~AtEnd /\ arg[p] = Backslash
    /\ p' = IF p < Len(arg) /\ arg[p + 1] = Comma THEN p + 1 ELSE p
    /\ UNCHANGED <<args, k, s, n, cacheloc, cacheloc_n, pc>>

(* Mutant: two characters are passed over, whether or not there are two. *)
ScanBackslash_two ==
    /\ pc = "scan" /\ ~AtEnd /\ arg[p] = Backslash
    /\ p' = p + 2
    /\ UNCHANGED <<args, k, s, n, cacheloc, cacheloc_n, pc>>

(* A backslash: on to the next character, which is then looked at as any other. *)
ScanBackslash ==
    /\ pc = "scan" /\ ~AtEnd /\ arg[p] = Backslash
    /\ p' = IF p < Len(arg) THEN p + 1 ELSE p
    /\ UNCHANGED <<args, k, s, n, cacheloc, cacheloc_n, pc>>

ScanChar ==
    /\ pc = "scan" /\ ~AtEnd /\ arg[p] = "x"
    /\ p' = p + 1
    /\ UNCHANGED <<args, k, s, n, cacheloc, cacheloc_n, pc>>

(* Mutant: an empty location is kept. *)
Cut_empty(next) ==
    /\ n # MAX_CACHE_LOCS
    /\ cacheloc' = [cacheloc EXCEPT ![n + 1] = <<s, p>>]
    /\ n' = n + 1
    /\ pc' = next

(***************************************************************************)
(* What lies between s and p, if anything, is a location.  The option is   *)
(* refused if there is no slot left (E2BIG) or no memory.                  *)
(***************************************************************************)
Cut(next) ==
    \/ p = s /\ pc' = next /\ UNCHANGED <<n, cacheloc>>
    \/ p # s /\ pc' = "exit" /\ UNCHANGED <<n, cacheloc>>
    \/ /\ p # s /\ n # MAX_CACHE_LOCS
       /\ cacheloc' = [cacheloc EXCEPT ![n + 1] = <<s, p>>]
       /\ n' = n + 1
       /\ pc' = next

ScanComma ==
    /\ pc = "scan" /\ ~AtEnd /\ arg[p] = Comma
    /\ Cut("scan")
    /\ p' = p + 1 /\ s' = p + 1
    /\ cacheloc_n' = IF pc' = "exit" THEN -1 ELSE cacheloc_n
    /\ UNCHANGED <<args, k>>

(* The end of the argument; process_arg takes the number over or exits. *)
ScanEnd ==
    /\ pc = "scan" /\ AtEnd
    /\ Cut("options")
    /\ cacheloc_n' = IF pc' = "exit" THEN -1 ELSE n'
    /\ UNCHANGED <<args, k, s, p>>

(* main: without a first location, the default. *)
UseLocations ==
    /\ pc = "options" /\ k = Len(args)
    /\ IF cacheloc[1] = Null
       THEN cacheloc' = [cacheloc EXCEPT ![1] = Default] /\ cacheloc_n' = 1
       ELSE UNCHANGED <<cacheloc, cacheloc_n>>
    /\ pc' = "main"
    /\ UNCHANGED <<args, k, s, p, n>>

LocNext == NextOption \/ ScanBackslash \/ ScanChar \/ ScanComma \/ ScanEnd \/ UseLocations

LocSpec == LocInit /\ [][LocNext]_locvars

-----------------------------------------------------------------------------
LocTypeOK ==
    /\ args \in Seq(Seq(Chars)) /\ k \in 0 .. Len(args)
    /\ s \in Nat /\ p \in Nat /\ n \in Nat
    /\ cacheloc \in [Slots -> Int \X Int]
    /\ cacheloc_n \in -1 .. MAX_CACHE_LOCS
    /\ pc \in {"options", "scan", "main", "exit"}

(***************************************************************************)
(* Neither pointer leaves the argument, s does not overtake p (p - s is a  *)
(* size for malloc and memcpy), and no slot beyond the last is written.    *)
(***************************************************************************)
InBounds ==
    pc = "scan" => 1 <= s /\ s <= p /\ p <= Len(arg) + 1 /\ n <= MAX_CACHE_LOCS

(***************************************************************************)
(* The locations that an argument names, read as the comment of            *)
(* parse_cacheloc says: "comma separated", "Commas can be escaped by \,".  *)
(* A comma is escaped if it follows an odd number of backslashes.          *)
(***************************************************************************)
Escaped(a, i) ==
    Cardinality({ j \in 1 .. i - 1 : \A m \in j .. i - 1 : a[m] = Backslash }) % 2 = 1
Separates(a, i) == a[i] = Comma /\ ~Escaped(a, i)
Locations(a) == { r \in (1 .. Len(a)) \X (2 .. Len(a) + 1) :
                    /\ r[1] < r[2]
                    /\ \A i \in r[1] .. r[2] - 1 : ~Separates(a, i)
                    /\ r[1] = 1 \/ Separates(a, r[1] - 1)
                    /\ r[2] = Len(a) + 1 \/ Separates(a, r[2]) }

(* The exception: the scan passes over the backslash only, and cuts at the *)
(* comma behind it all the same.                                           *)
EscapesComma(a) == \E i \in 1 .. Len(a) : a[i] = Comma /\ Escaped(a, i)

(***************************************************************************)
(* When main uses them, the locations are those of the last -L, all of     *)
(* them and in their order, whatever an earlier -L left in the slots.      *)
(* Nothing is said of an argument in which a comma is escaped: there the   *)
(* code does not do what its comment says (EscapesComma).                  *)
(***************************************************************************)
LastOptionCounts ==
    (pc = "main" /\ k > 0 /\ Locations(arg) # {} /\ ~EscapesComma(arg)) =>
        /\ {cacheloc[i] : i \in 1 .. cacheloc_n} = Locations(arg)
        /\ \A i \in 2 .. cacheloc_n : cacheloc[i - 1][2] < cacheloc[i][1]

(***************************************************************************)
(* The scan of an argument comes to its end, unless a backslash is the     *)
(* last character: then the loop never leaves it.                          *)
(***************************************************************************)
ScanEnds ==
    (pc = "scan" /\ ~(arg # <<>> /\ arg[Len(arg)] = Backslash)) ~> (pc # "scan")

=============================================================================
