# A TLA+ model of the AppArmor user space

AppArmor's user space turns profiles into binary policy, loads that policy
into the kernel, keeps compiled policy in caches, and lets programs move
themselves into hats and profiles. This directory holds specifications of the
parts that keep state or transform policy: the driver of `apparmor_parser`,
its caches, the path a rule takes from its text to the compressed automaton,
and the task interfaces of libapparmor with the modules that use them. Each
module is translated from the code it names; `PROJECT.json` maps every
definition to its lines.

## The system and its parts

| Part | State | Operations | Interacts with |
|---|---|---|---|
| Job options (`parser/parser_main.c`) | `jobs`, `jobs_max`, `jobs_scale` | `-j`, `--max-jobs`, `auto_tune_parameters`, `setup_parallel_compile` | sets the work queue up |
| Work queue (`parser/parser_main.c`) | `njobs`, `last_error`, `abort_on_error`, the children | `work_spawn`, `work_sync_one`, `work_sync`, `handle_work_result`, the directory callbacks | forks a child per profile; walks directories with `_aa_dirat_for_each` |
| Processing of a profile (`parser_main.c`, `policy_cache.c`, `parser_interface.c`) | `write_cache`, `skip_cache`, `skip_read_cache`, `zstd_compress_policy`, `mru_skip_cache`, `force_complain` | `process_profile`, `setup_cache_policy`, `process_binary`, `load_policy`, `install_cache` | the cache, the kernel, the front end |
| Cache time stamps (`parser/policy_cache.c`, `parser_lex.l`) | `cache_tstamp`, `mru_policy_tstamp` | `set_cache_tstamp`, `update_mru_tstamp`, `cache_hit`, `install_cache` | other parsers, editors of the policy files |
| Cache locations (`parser_main.c`) | `cacheloc`, `cacheloc_n` | `parse_cacheloc` | the policy cache |
| Policy cache directories (`libapparmor/src/policy_cache.c`) | one directory per feature set, read-only overlays | `aa_policy_cache_new`, `add_ro_dir`, `remove`, `open`, `replace_all` | features, the kernel, other programs on the same directories |
| Overlay walk (`libapparmor/src/private.c`) | sorted entry lists | `readdirfd`, `merge`, `insert`, `overlaydirat` | policy cache |
| Features (`libapparmor/src/features.c`) | the feature string, its hash | load, compare, `aa_features_supports` | kernel, cache |
| Kernel interface (`libapparmor/src/kernel_interface.c`) | descriptors into apparmorfs | load, replace, remove | the kernel |
| DFA cache (`parser/parser_regex.c`) | files named by a hash of a profile's file rules | lookup and store in `process_profile_rules` | other parsers on the same directory |
| Variables and aliases (`parser/variable.cc`, `symtab.cc`, `parser_variable.c`, `parser_alias.c`, `cond_expr.cc`) | symbol table with cached expansions, alias tree | assignment, expansion, conditionals, aliases | the profiles of a file, one after the other |
| Blocks and rules (`parser/block.cc`, `block_rules.cc`, `rule.h`, `all_rule.cc`, `network.*`) | the tree of blocks and the rules in it | parsing actions, `add_prefix`, post-parse, implied rules, merge | variables, rule patterns |
| Rule patterns (`parser/parser_regex.c`, `dbus.cc`, `signal.cc`, ..., `libapparmor_re/parse.y`) | pattern buffers | `convert_aaregex_to_pcre`, `process_dfa_entry`, `gen_policy_re` of the rule classes, `process_profile_policydb` | pattern compiler |
| Pattern compiler (`parser/libapparmor_re/`) | expression trees, automaton, tables | simplification, construction, minimisation, encoding, compression | serialization |
| Task interfaces (`libapparmor/src/kernel.c`) | what the library found out about the kernel, once per process | `aa_change_hat`, `aa_change_profile`, `aa_stack_*`, `aa_getcon`, `aa_query_label` | the kernel |
| Hat-changing modules (`changehat/`), `aa-exec` | token, `inside_default_hat`, hat order | request and session hooks | task interfaces |
| Front end, serialization, log parsing, utilities, Python tools, init scripts | | | see "Not modelled" |

What is hard to get right here, and hard to test:

* children that end in any order, are killed or fail while the parent forks,
  waits or aborts; a result handler that runs a nested wait loop and never
  returns;
* option globals that one profile changes and the next one inherits;
* a sequence of steps - load, write, hats, install - of which each may fail
  alone, while one return value decides about the cache entry;
* caches that several programs read, write, purge and leave half written;
* qualifiers, limits and tables that nested blocks hand outwards, in an order
  the grammar decides;
* a chain of optional compiler passes that rewrite trees and tables in place;
* an interface to the kernel that is chosen once, and may be denied, missing
  or another security module's later;
* small arithmetic and pointer loops at their limits.

The list with lines is under `hazards` in `PROJECT.json`.

## Modules and runs

Every run is a `MC` module with a `.cfg`. A run whose `MC` module lists many
small setups (`MCBlock`, `MCVariables`, `MCPatternCompiler`, ...) does so
because one setup with everything in it would be out of reach; each setup
holds the pieces of one interplay.

### JobOptions, CacheLoc, Options (run `options`)

`Options` is `main` up to the first profile: the config file and the command
line, one option after the other, then the tuning of the jobs and the opening
of the caches. It composes two components that share nothing but that order.

`JobOptions`. State: the three globals, the options still to be processed, and what the
system answers. `ProcessJobs` and `ProcessMaxJobs` are the two cases of
`process_arg` (the config file goes through the same code, first);
`SampleSystem` and `AutoTuneParameters` are `auto_tune_parameters`,
`SetupParallelCompile` is the function of that name. `LONG_MAX` is a constant
larger than any number given. `get_memstat` is abstracted to the number of
jobs it allows for, low memory, or no answer.

* `JobsCapped`: at the start of the queue `0 <= jobs <= jobs_max`, and the
  sampling budget is not negative (it is decremented while it is not zero).
* `PlainNumberObeyed`: a `-jN` given last is obeyed whatever came before it.

`CacheLoc` is `parse_cacheloc`, character by character because the pointers
are the point: of the characters only comma and backslash differ. A location is
the pair of positions it was cut at. The reference, `Locations`, reads an
argument as the comment of `parse_cacheloc` does: commas separate, a backslash
escapes a comma.

* `InBounds`: the pointers stay in the argument, in order, and the slots
  suffice.
* `LastOptionCounts`: the locations used are exactly those of the last `-L`.
  Arguments with an escaped comma are its named exception (`EscapesComma`): the
  code cuts there all the same, see below.
* `ScanEnds`: under weak fairness of `main` (one thread that waits for nothing)
  the scan ends, except for an argument that ends in a backslash, on which it
  loops for ever.

The run covers all sequences of up to two job options over the kinds of values,
one to four cpus (or none reported) and estimates on each side of every
comparison; all single `-L` arguments of up to six characters and all pairs of
up to three, with two slots; and each job option with each `-L` of up to two
characters. Two options suffice for "one overrides the other"; each option
assigns without looking at older ones than the last two values.

### WorkQueue and WorkPool (run `work_queue`)

`WorkQueue` is the parent process, statement by statement where it matters,
and one child per unit of work. `pc` names the place: `main` (the loop over
arguments), `dir` (inside `_aa_dirat_for_each`), `unit` (`work_spawn`), `full`
(its wait for a slot), `fork`, `sync` (the final `work_sync`), `abort` (the
`work_sync` inside `handle_work_result`), `exited`. `HandleWorkResult` has the
caller's frame as a parameter: `work_sync_one` decrements `njobs` after the
handler returns, so when the handler exits instead, one decrement is missing;
`suspended` counts it. `WaitFails` is the extra `wait` that follows: it fails
and the uninitialised `status` is any wait status. `UnitExits` is `exit(1)` in
a unit that runs in the main process (`jobs = 0`).

* `JobBound`, `Accounting`: the number of children against `jobs`, `jobs_max`
  and `njobs`, with the cpus sampled again at any fork.
* `NoOrphans`: no exit with a child left. `FailureReported`: the exit status
  is non-zero exactly if something failed. `ErrorSticks`, `ContinuesOnError`:
  an error survives later successes; without `--abort-on-error` everything is
  processed and the last error is the exit status.
* `PoolSpec`: `WorkQueue` implements `WorkPool`, a pool with a cap in which
  each task is started and collected at most once and which closes empty
  (a child is active from its fork to its `wait`).
* `Terminates`, under weak fairness of the parent and of each child: the
  operating system schedules them, `wait` returns when a child has ended, and
  a compile is assumed to end (or to be killed).

Bounds: two arguments, directories of up to two entries, so up to four units;
caps 0, 1, 3 and one that scales from 1 to 2, so that a full queue, a queue
that grows, a partly filled one and no queue all occur; return values 0, 1 and
-2 (which `exit` turns into 254).

### ProcessProfile (run `process_profile`)

One process that handles its profiles one after the other; with `jobs = 0` it
is the parser itself, otherwise a child with a single profile. `OpenProfile`
is everything up to `yyparse` including `setup_cache_policy` (the operator
`SetupCachePolicy`), `Parse` the parse with the namespace test and
`cache_hit`, `CachedOk`/`CachedFails` `process_binary` on the entry,
`StopEarly` the exits of `-p`, `-N`, `-d` and of `post_process_policy`,
`SetupTmp` the temporary file, `LoadPolicy`/`CompressFails`
`__sd_serialize_profile` with its hats, `Install` the two installers. `Out`
is the common exit with its `reset_parser`. A cache entry is abstracted to
the form the code can tell (bad, plain, compressed below or at the level in
use), stale or not, written completely or not. The kernel is external: it may
refuse anything, and refuses to add what it has.

* `LoadsAreRight`: no stale entry is loaded, and what is loaded is compressed
  as asked and as the kernel supports, except after a precompressed entry.
* `ReportsAreTrue`: what is reported and installed is what the kernel took,
  for profiles without hats (with hats it is not so, see below), and a load
  that is refused was refused for a reason the code states.
* `CacheAsAllowed`: no inherited global makes a profile use or write an entry
  it must not; the one way to a cache write without `-W` is recompression.

The run has two profiles - globals pass from one to the next, and a third
would meet the same values - all four actions, each option alone and the
combinations that act on the same global, all forms of entries.

### CacheStamp (run `cache_stamp`)

Several parsers, one cache entry, the profile and its includes. Each edit
gets a time stamp of its own, later than all others, so a stamp also names the
contents. A parser opens a file (`fd`), asks for its mtime (`at`), reads it
(`seen`); an edit in place is seen through an open descriptor, one by rename
is not. Entries are looked at before the parse (`SetupCachePolicy`) and loaded
by name after it (`LoadCached`); `InstallCache` dates the entry by the newest
file opened and renames it into place. Runs may be abandoned at any step and
the entry purged at any time.

`TornUpdates = FALSE` is an assumption on the editor: nobody changes a file
that a running parser has yet to open after a file that parser has opened was
changed. Without it the scheme does not work (set it to TRUE in the cfg and
`StampSound` fails): the entry gets the date of the second file with the old
contents of the first.

* `StampSound`: a file not newer than the entry is the one it was compiled
  from.
* `LoadsCurrentPolicy`: what a hit loads is not older than anything the run
  opened, unless an older entry was put in place of the one compared; and an
  undisturbed run leaves the current policy in the kernel.

Bounds: two parsers, two files, two edits (three edits and 13 million states
pass as well, in four minutes). Two parsers are enough for every race on one
entry: one writes, one looks; two files are enough for a torn update.

### PolicyCache, Features (runs `policy_cache`, `policy_overlay`)

`PolicyCache` is one or more programs on one cache location. A directory is
named by the hash of its features and a number; its inode holds the text of
`.features`, the entries, and who has `.features` open for writing.
`LoadFeatures` to `WriteFeatures` are `aa_policy_cache_new` cut at every call
that another program can come in between: the look for a directory with
matching features (`Look`, `CacheMiss`, `NoMatch`), its creation (`OpenDir`,
`MkDir`), the test of `.features` (`InitCacheFeatures`), the clearing of a
directory that has none or other ones, and the truncation and writing of the
new one. `AddRoDir`, `CacheOpen`, `ReplaceAllPolicy` with one step per entry,
`Unref` and `PurgeFiles`/`PurgeDir` are the other calls; `Crash` kills a
program anywhere. `Features` reads a directory tree into a string of bounded
size and finds a path in it; in `PolicyCache`, `OverlayOf` merges
sorted directory lists into one and `WriteToIface` cuts a file into its
profiles and writes them. Their loops (`MergeFrom`, `OverlayFrom`,
`PiecesFrom`, `ReadFrom`) are functions on the variables of the loop, one turn
per application, so that they can be reasoned about turn by turn.

* `FeaturesRight`: a feature string that is accepted is the whole directory,
  and a path is found in it exactly if it is there (up to a component that is
  the suffix of a longer name).
* `CacheMatches`: a directory with a whole `.features` holds entries of these
  features only. `raced` records the exceptions, all of them between programs
  whose features have the same hash, as nothing is locked: two of them open
  their cache at the same time; one looks for its directory while another
  uses one that has lost its `.features` (a third program of the same features
  was killed while it cleared the directory: this was met while proving, as it
  takes three programs); or a purge empties a directory in use.
* `OverlayRight`: what a load has still to do is in order and has each name
  once, in the directory in which `aa_policy_cache_open` finds it, however the
  names of the directories interleave.
* `LoadedIsVisible`: what `replace_all` loads is what the overlay shows, each
  profile of each file once, if nobody changes the directories meanwhile.
* `OpeningEnds`: opening a cache ends, under weak fairness of each program's
  own steps (it is a straight call that the system schedules).

`policy_overlay` is expected to fail. `insert` decides whether its array grows
by comparing the addresses of its two size variables instead of their values
(`private.c:295`), so the outcome is one of the build: the constant `Grows`.
`policy_cache` is about a build in which the array grows, `policy_overlay`
about one in which it does not: there the first insertion writes through a null
pointer (`OverlayInBounds`; the program ends at `overrun`). Where the array
grows it grows at every insertion, so the bound is not stated as a property of
its own.

`next_profile_buffer` bounds its scan by `size - sizeof(header_version)`
counted from the place it has reached, so its `memcmp` may read up to a
header's length behind the buffer, and the unsigned bound wraps for a buffer
shorter than a header. The model takes a header that only begins in the buffer
for none, that is, it assumes that the bytes behind the buffer are not the rest
of a header, and `IsPolicy` keeps files shorter than a header out (an empty
file is a whiteout and is not read).

Bounds: two programs (the theorem below is about any number), one hash (so
that all feature sets collide), numbers up to two, two entry names written by
the programs, as policies or as whiteouts, one read-only location with the same
names (one a link) and a suffixed one, one crash or purge, feature strings of
24 bytes with one set that fills the buffer exactly and one that is a byte too
long.

### DfaCache (run `dfa_cache`)

`process_profile_rules` with the lookup and the store of a file automaton, by
several parsers in one directory. `Open`, `ReadHeader`, `ReadDfa`,
`ReadPerms` are `dfa_cache_lookup_disk`, `OpenTmp`, `Write`, `Close` and
`Rename` `dfa_cache_store_disk`; a write may be short, a close may lose what
was buffered, a parser may be killed in between and leave its temporary file
to the next one with its pid. The file name is a hash that may collide (the
constant `Fnv`), the hash in the header is its argument. Rules are gathered
by `CollectFileRuleBlocks`, and compiled in the order of `GenPolicyRe`. A
header is a miss also if its table of permissions is larger than
`DFA_CACHE_MAX_PERMS` (`MaxPerms`).

* `CachedDfaIsOwn`: a profile that is processed has the automaton of its own
  rules, of the options and features of this run, with the permission table
  that belongs to it. Two features are in neither hash and are exempt:
  stacking, and which of the usable `permstable32` versions the kernel has.

Bounds: two parsers (interchangeable), two runs in all, five profiles with
the same rules in different blocks, other rules with the same key, one whose
automaton is too large, one with too many permissions, and none; three sets of
globals.

### Prefix and Block (run `block_rules`)

`Block` is the tree of blocks as the actions of the grammar build it: a
statement is added to the innermost open block, and closing a block applies
its qualifiers (`BlockAddPrefix`, with the rules of `Prefix`) and hands its
tables outwards (`CloseBlock`, `CloseCond`, `CloseHat`). `EndProfile` numbers
the named transitions; `AddImpliedRules`, and the merge of duplicates, are what
`post_process_policy` does afterwards. `stmts`, `given` and `before` only
record what was written. A loop is `Run`: a sequence of steps, each a function
on the variables of the loop; `for_each_recursive` is `Walk`, with the list of
blocks still to visit in place of the call stack. An `owner` or `other` block
also takes away the index of the exec transition together with the
permissions, as both are bits of one word.

* `BlocksMean`: what every rule, capability and network table ends up with
  is what its own qualifiers and those of all blocks around it say together,
  and only a contradiction is refused.
* `ProfileTables`: a limit set in any block is the profile's, the last one if
  several set it, and the index of an exec transition names the profile the
  rule gives.
* `MergeKeepsPolicy`: merging duplicates changes no permission, exec type,
  mode or logging.

Bounds: up to three nested or sequential blocks, up to three statements of
the kinds an interplay needs, two slots for transitions (so that the table
fills), and a hat with a named transition inside a qualified block: the hat is
closed, and its transitions are numbered, before the block's qualifiers reach
its rules.

### Variables (run `variables`)

The first part of `Variables` is the symbol table, variables with their
assigned values, their cached expansion and the mark of an expansion under
way, and the conditions and aliases; the second goes
through a preamble, then for every profile sets the built-in variables,
expands its name and rules, restores the variables and applies the aliases.
Text is a sequence of tokens, slashes included since expansion squeezes them.

* `ExpansionRight`: a rule becomes exactly the texts its variables stand for,
  conditionals included, and a cycle or an undefined variable is refused,
  except where a cached expansion is out of date (see below).
* `BuiltinsRestored`: after a profile the variables are what the preamble
  left, but for expansions.
* `AliasesOnce`: every alias adds one copy of each rule whose path or link
  name it matches, and none of a copy, also where one alias leads to another.

Bounds: preambles of up to five statements chosen from a small set each, one
or two profiles with up to three rules.

### ExprTree, MatchPerms, Hfa, Chfa, PatternCompiler, AaRegex, RuleClass, MountRule, ProfileRegex (run `pattern_compiler`)

The path of a rule to the kernel's tables. `AaRegex` converts a glob as
`convert_aaregex_to_pcre` does, character by character because quotes,
classes and groups are decided that way, and parses the result with the lexer
and grammar of `parse.y`; a character is one of a handful that differ.
`RuleClass` has the strings that dbus, ptrace, signal, mqueue, userns and
io_uring rules become and the rules that show a class as mediated;
`MountRule` turns the options of a mount rule into required and optional
flags and these into the patterns of the commands (remount, bind, change of
type, move, new mount) as `gen_flag_rules` chooses them.
`ProfileRegex` takes a job - the file rules of a profile, its attachment, the
rules of its policydb, or a ready-made list of rules - writes the patterns
and goes on with `PatternCompiler`, which is `create_chfa`, one step per
pass: add the rules (`AddRule`), simplify (`BuildTree`, in `ExprTree`),
construct the automaton one work item at a time (`WorkQueue`, in `Hfa`),
filter deny rules, minimise, remove unreachable states, build equivalence
classes, encode differentially, compute the permission table, and insert the
states into the comb one by one (`Insert`, in `Chfa`). `MatchPerms` is
`perms_t` and the conversion to the permission table. A permission word is
the set of its bits, of which those with rules of their own are kept. Where
the code sorts by address, `addr` is any order.

* `TreesFaithful`: simplification keeps the language of a tree and its accept
  nodes, and `min_match_len` is not above the shortest match.
* `PermsAreRules`: after every pass each word has the permissions that the
  rules matching it give, by priority, mode and exactness (words with an out
  of band separator only until the differential encoding, see below). The
  reference (`Together`) is a definition on the set of the rules, without an
  order: what the strongest rules about a permission say decides. So the
  property also says that the order of the accept nodes in memory does not
  matter, with one named exception: whether two exec modifiers that contradict
  each other are refused when a stronger rule overrides both. An `m` that `ix`
  implies does not undo a weaker deny.
* `TablesFaithful`: the comb gives the transitions of the automaton for every
  state and character, no cell belongs to two states, and the free list is
  what is free.
* `EntriesMean`: globs match what `apparmor.d(5)` says and only bad ones are
  refused. What a star may be is decided in the reference after `{}` is
  expanded, as the manual page has it; a star beside a brace or a comma of a
  group is the named exception (`StarAtGroup`), for which the code decides
  before the expansion and matches more. Patterns that lose a quote in a class
  are left out, and the pattern lexer hangs only on a quoted comma in a class
  (`QuotedComma`). Links need and get both of their rules; changes of profile and
  attachments match the names and programs they give.
* `ClassesMean`: a request finds the permissions of the rules about it - a
  mount by its command, place, source, type and flags -, a rule is refused
  only if it contradicts itself, and no deny rule of a policy makes a mediated
  class look unmediated. What the options of a mount rule grant is defined
  from their words by `apparmor.d(5)` (`OptionsOf`, `AnyOptions`, `SameOptions`)
  and not from the flag words of the code. Four exceptions are named, see
  below: `NoneListed`, `ClearedSet`, `SourceAsPoint` and `Misfit`.

Bounds: five characters (NUL, slash, two letters, one that stands for what
has a meaning of its own), words of up to three for the automata and longer
fixed ones for rule classes, groups nested three deep (50 in the code), all
combinations of the passes for the rule sets in which they matter. Of the
mount flags eight are kept, of every group that is treated alike one or two;
the byte of a flag is written with two characters of the small alphabet.

### ChangeHat, ModApparmor, PamApparmor, ReadLabel, QueryLabel, TaskInterface (runs `task_interface`, `task_query`)

The first part of `ChangeHat` chooses between the system call, the private and
the shared files as `kernel.c` does, and keeps what the library keeps for
good; on top of it are `aa_change_hat(v)`, `aa_change_profile`,
`aa_change_onexec` and `aa_stack_*`, with the kernel's side from
`aa_change_hat(2)` (external). A null name is not an empty one: `aa_change_hat`
refuses the first without a token, and `aa_change_profile` and the others
always, with `EINVAL`, while an empty name is sent and is the kernel's to
refuse.
`ModApparmor` is the Apache module with a parent, a child and its threads,
`PamApparmor` the session module and `aa-exec`, which parse their options one
by one (an option that fails leaves what the earlier ones stored), `ReadLabel` the reading of a
context while its owner changes it, `QueryLabel` the query of a path.
`TaskInterface` composes them, one program at a time; access to an interface
may be denied and come back at any step.

* `CommandsDelivered`: a command goes to AppArmor if an interface of it can
  be reached, and never to another security module that owns the shared
  files (with the two exceptions below).
* `HatsFollowRequests`: a request runs in the first of its hats that exists,
  and a thread between requests in none of a request.
* `ConfinedOrRefused`: a PAM session or `aa-exec` that goes on runs in the
  hat or profile asked for; otherwise it is refused.
* `AnswersAreTrue`: a label that is read is one the target had, with its own
  mode, cut nowhere; `ENOENT` from a query means that the label or the
  interface is missing.
* `ReadingEnds`: a read ends, if its thread is scheduled (weak fairness) and
  the target stops changing.

`task_query` is expected to fail: `QueryWhole` says that a query holds the
whole path, which the sum in `aa_query_file_path_len` leaves a byte short.

Bounds: every kernel configuration for a plain caller and the reader, two
threads, two tokens, hat orders of up to three, contexts on both sides of the
first buffer's size, one change of the target.

## Disagreements between code and documentation

Two have a run of their own: `task_query`, above (`kernel.c:1535`, and the same
sum for links, which also writes a byte past the buffer), and `policy_overlay`
(`private.c:295`). The others were met
while translating. Where a property would fail because of one, the property
names the exception.

*Parser driver and its cache.* After an abort the exit status may be an
uninitialised wait status (`parser_main.c:1452`); with `jobs = 0`, also when
chosen because memory is low, one bad profile ends the run
(`parser_yacc.y:1756`). `-a` with a cached binary to be recompressed loads
twice and fails on its own first load (`:1370`). A failed profile is masked by
its hats, so a short write to the temporary file is installed
(`parser_interface.c:785`, comment at `policy_cache.c:249`). One precompressed
entry makes later profiles load uncompressed (`policy_cache.c:154`). Between
the look at an entry and its load another parser may install an older one
(`policy_cache.c:279`). An escaped comma in `-L` still ends the location
(`parser_main.c:311`, comment at `:301`; `EscapesComma`). A `--max-jobs` before `-jxN` is overwritten (`:856`,
manual page "hard cap"); without options `jobs` may be a multiple of the cpus
(`:1660`); a failed `stat` does not stop a directory walk under
`--abort-on-error` (`private.c:529`); `wait` is called once with no child
(`:1540`, comment at `:1447`); a profile for another namespace is cached
(`:1365`, comment at `:1357`); `-S -W` writes the cache (`:616`); an
uncompressed entry turns cache writing on without `-W`
(`policy_cache.c:177`). A parser that is killed leaves its temporary file
(`policy_cache.c:235`); two versions with one mtime are the same to the cache
(`:110`); an `include if exists` of an absent file leaves no stamp
(`parser_lex.l:193`).

*Cache directories.* A path component also matches as the suffix of a longer
name (`walk_one`); a features file that exactly fills the buffer is refused; a
relative cache path is resolved twice; a read-only directory without
`.features` is accepted unchecked; a half-written `.features` is taken for a
collision. `insert` compares the addresses of its two sizes (run
`policy_overlay`). A whiteout hides an entry from `replace_all` but not from
`aa_policy_cache_open`.

*DFA cache.* Two features are in neither hash (stacking, and version 2 against
3 of `permstable32`, `chfa.cc:66`), though the comment at
`parser_regex.c:1000` says that versions are told apart. The result of
`fclose` is not looked at; the size tests of the next lookup reject such a
file. An empty and an absent name hash alike.

*Blocks.* `deny { audit deny X }` ends up quiet (`rule.h:425`,
`apparmor.d.pod:2604`); modes of capability rules that contradict each other
are not noticed; the merge of duplicates stops at the first block that merged
something (`block.cc:228`, `:305`); `other//file` counts as an own child; a
rule with a priority inside a block is an error; `defined $bool` is always
false.

*Variables.* `@{A} = /a @{U}` with `U` undefined silently gives `/a` alone
(`symtab.cc:147`, `apparmor.d.pod:2313`); a cached expansion is used after the
variable was extended, and after the profile whose name is in it; an empty
expansion is dereferenced.

*Patterns.* Inside a class `*` and `?` are expanded as wildcards, a quoted `^`
or `-` loses its quote, and a quoted comma makes the pattern lexer return the
same backslash for ever (`parse.y:184`, comment "just skip it for now").
`/{*,p}` matches `/`, against `apparmor.d.pod:2497` and `:2509` and the comment
at `parser_regex.c:190` (`StarAtGroup`). A negated class matches NUL, the separator of pairs.
Invalid alternative names and attribute values are not refused. A link rule
keeps only the owner's bit for its subset test (`immunix.h:120`,
`apparmor.d.pod:1106` "MUST"). `deny change_profile x -> p` denies onexec on
`x` alone and on `p` alone. An mqueue rule with a label and no type needs the
label twice for its sysv part. Profile names are slash-filtered although
`parser_regex.c:490` says not to.

*Mount rules.* `mount /dev/foo,` is also written as a change of type of
`/dev/foo` as a mount point, with any source and all flags of that pattern
optional (`mount.cc:907`, `:1082`), and the kernel looks all commands up in
one place: it permits any mount onto `/dev/foo`, where `apparmor.d.pod:1811`
says only "mounting of /dev/foo anywhere" (`SourceAsPoint`). A command that
the other conditions rule out is not an error if another one fits: `mount
options=(remount, ro) /dev/foo -> /mnt` permits a new read-only mount and not
the remount (`Misfit`). `options in (ro)` also matches a mount without
options, against `apparmor.d.pod:1765` (`NoneListed`), and a list in which a
flag is cleared also matches with the flag set (`ClearedSet`). The data of a mount is matched by code
that no rule reaches, as the constructor never sets `opts`.

*Pattern compiler.* `make_relative` gives an out of band transition to a state
that had none (`hfa.cc:228`), so after differential encoding a separator is
accepted where no rule has one; conflicting exec modifiers are an error or not
depending on the order in which they are visited (comment at `hfa.cc:1657`);
`NotCharSet::contains_oob` makes `min_match_len` too small.

*Task interfaces.* If the module's parameters cannot be read, the shared files
of another module are used although `kernel.c:101` says not to; a library that
settled on the shared files never returns to its own (TODO at `:494`); an
error of the system call writes through `mode` even if it is NULL (`:876`); a
context that grows between two reads is returned torn; an access file that was
not mounted at the first query gives `ENOMEM` for ever. An unconfined PAM
application is refused with `PAM_SYSTEM_ERR` where the comment expects
`EINVAL`; `inside_default_hat` is shared by threads although hats are not; an
internal redirect without a matching hat stays in the previous one.

## What is proved

The proofs are in the `_proofs` modules and hold for all values of the
constants that satisfy the named assumptions.

* `Options_proofs`, about `JobOptions`: `JobsCapped`. The bound is not about
  the options as they are stored but about what `Setup` makes of them, so the
  lemmas are on the operators: `ComputeJobsBound` (a count is a natural number whatever the
  multiple), `SetupCapped` (and is capped); the invariant is then `TypeOK`
  with `JobsCapped` and that `jobs_scale` is zero until `Setup` has run.
  `PlainNumberObeyed` adds `ObeyInv`: the options left end in the last one
  given, so that one is processed last, and neither the tuning nor the scaling
  touches a plain number. The same module, about `CacheLoc`: `InBounds`, from
  the order of the two pointers. `LastOptionCounts` first relates the slots to
  the pieces between any two commas (`Runs`): `Scanned` says that the slots
  filled so far hold exactly the runs that end before the scan (`RunsBefore`),
  in order, and `CutHolds` that one more cut keeps that. `RunsAreLocations`
  shows that in an argument without an escaped comma these are the `Locations`
  it names. It holds for arguments of every length. `OptImplements` carries
  the four to `OptSpec`, whose steps are those of one component and leave the
  other alone.
* `WorkQueue_proofs`: `IInv` is `TypeOK`, `Order` (the units handed to
  children lie behind the parent), `Control` (what `pc` says of `njobs`,
  `jobs` and `suspended`), `Errors` (`last_error` is non-zero exactly if
  something failed, and statuses survive the eight bits of an exit status),
  `JobBound` and `Accounting`. From it `JobBound`, `Accounting`, `NoOrphans`,
  `FailureReported`, and with the cardinality lemmas on `Live` the refinement
  `Spec => PoolSpec`. The bound alone is not inductive: that `njobs = jobs` is
  tested for equality needs `njobs <= jobs`, and that the number of children
  is bounded needs the count. `ContinuesOnError` needs one more invariant,
  `NoAbort`: without the option the aborting states are never entered. The
  action property `ErrorSticks` follows from `IInv` step by step.
* `CacheStamp_proofs`: `StampSound` if `~TornUpdates`. `IInv` adds `TypeOK`,
  `Past` (no stamp is in the future), and of every run `Ordered` (its stamps
  are ordered: seen, asked, open, current, and `mru` is at least what it
  asked), `Phase` (what `pc` says of them), `Fresh` (a change under its feet
  is newer than `mru`) and `Settled` (a file it has yet to open is older than
  a change under its feet). `Fresh` is what makes the installed stamp right,
  and `Settled` is what keeps `Fresh` when one more file is opened.
  `LoadsCurrentPolicy`, under the same hypothesis, adds `HitInv`: `Covers`
  (every version that some run has read is in the entry or newer than it),
  `Beyond` (a run never holds an older version than the one it asked about)
  and `Compared` (what a hit has compared), and `RunsInv`, what a run that is
  `Alone` has put into the kernel at each place.
* `ProcessProfile_proofs`: `TypeOK` and the three properties, for any number
  of profiles. They speak of all profiles of a run but the globals carry over,
  so `IInv` says what each global still tells of the entries met before:
  `Options` (what the command line fixed), `Globals` (`write_cache` is on
  without `-W` only if a plain or less compressed entry was met and `zstd` was
  given, `PRECOMPRESSED` only after a compressed one, ...), `Ahead` (nothing
  is recorded of a profile to come), `Current` (what `pc` says of the profile
  in work) and `Right(p)` of those behind. None of the three properties is
  inductive without `Globals`.
* `TaskInterface_proofs`: the four safety properties of the task interfaces.
  `LibInv` ties what the library remembers to what the kernel shows (the
  parameters and the interfaces do not change, only access to them does), and
  the lemmas `ParamChecked`, `BaseKept`, `OpenKept`, `SelfKept` say so of the
  operators; `BaseInv` is `LibInv` with what is recorded of commands that went
  to another module, and gives `CommandsDelivered`.
  `HatsFollowRequests` needs `HttpInv`: of every thread `GoodTask` (in its
  profile, or in a hat from which the child's token leads back) and `AtStage`
  (the hat that the stage of its request promises), and that
  `inside_default_hat`, which threads share, tells the truth in a child of one
  thread only. `KernelEnters`, `KernelGoesBack` and `KernelRefuses` are the
  kernel's side, `RequestEffect`, `DefaultHatEffect` and `BackEffect` the
  module's. `ConfinedOrRefused` needs `PamInv` (the hats tried so far do not
  exist, and the task is where it started) and `ExecInv`.
  Both have the hypothesis `Reaches`: where AppArmor is active for the
  program, nothing is denied to it, and the private interface, if it is the
  only one, has its directory; without it a module cannot deliver a command
  and goes on, which `CommandsDelivered` is about. TLC evaluates the
  hypothesis on the instance (`MCReaches`).
  `AnswersAreTrue` has no hypothesis: `ReadInv` says of a read under way that
  the bytes it has are a prefix of the text of some context the target had (or
  the target changed), that the buffer is as large as it says, and which
  errors are due; the lemmas `TextIs`, `SplitsThere`, `SplitText` and
  `SplitsBack` show that a context is split exactly where the kernel joined
  label and mode, also when the label has blanks and parentheses of its own.
  `QueryInv` is the same for `.access`.
* `PolicyCache_proofs`: `CacheMatches`, for any number of programs,
  directories, features and collisions. `IInv` is `Shape` and, as long as
  `raced` is false, `Orderly`. `Shape` says that names lead to live inodes, no
  two to the same, that a program holds a directory exactly at the places
  where it should (`ProcOk`), and that those who share one have the same hash.
  `Orderly` says of inodes that one without a name is empty and that only a
  `.features` that is there is open for writing (`Clean`); of a program that
  its directory has its own `.features`, none or a truncated one and, once it
  uses it, its own entries, and while it clears it that what is not its own is
  still on its list (`Found`); and of two programs (`Apart`) that openers of
  one hash have the same features, that an opener meets no user of other
  features whose `.features` is lost, and that those who share a live
  directory agree. The property alone is not inductive: a program that writes
  `.features` last must know that all entries are its own, which is `Found`,
  and that no other user adds one, which is `Apart`. `ShapeKept` and
  `OrderlyKept` are for steps that leave the files alone, `ShapeTouched` and
  `OrderlyTouched` for those that change one directory; there is one lemma per
  action.
  `OverlayRight` and `LoadedIsVisible` rest on what the loops compute, for
  lists of any length. A loop is a partial step with a measure that each turn
  lowers (`IsLoop`); `LoopExists` shows that its function is what its recursive
  definition says and `LoopKeeps` that what every turn keeps holds of the
  result, both from a least counterexample. From them `MergeRight` (the overlay
  after a merge is sorted and holds the names of both, the earlier directory's
  first, within what was allocated), the same of the overlay of all
  directories, that the pieces of a buffer are its profiles, each once, and
  that a file is read whole. `LInv` carries this through the load: `Listing`
  and `Content` type what is loaded from, `Due` is what is wanted of the
  directories if nobody has touched them since, and `InLoad` and `Loading` say
  that what was loaded is what the entries behind have, and what is wanted is
  that and what those ahead have. Neither theorem depends
  on `Grows`: a program that writes past its array does not go on.
* `DfaCache_proofs`: `CachedDfaIsOwn`, for any number of parsers, policies and
  runs and any hash, also one under which all keys collide. `IInv` is `Shape`
  (every file is empty or one that some profile stores, cut anywhere),
  `Private` (a temporary file is nobody else's and never one that has its
  final name) and `AtWork(p)` (what a parser holds at each place). The proof
  needs that a file with the same hashed contents was compiled from the same
  rules (`SameHash`). The code walks the blocks twice, once for the hash and
  once for the rules; that both take the rules in one order is the hypothesis
  `SameOrder`, which TLC evaluates on the blocks of the run (`MCSameOrder`).
* `Block_proofs`, for policies of any size. First, `MergeKeepsPolicy`. Merging
  two file rules joins their permissions, and the exec type and the index of the
  transition are kept in the same word. That the result says what the two said
  is true only if a rule that grants no exec has neither, for user and others
  each (`XPlaced`); that is not inductive by itself, as it depends on what the
  grammar, the qualifiers of every block and the numbering of the transitions
  do to a rule, so `BInv` says it of all blocks (`GoodBlocks`) from the first
  statement on, together with their shape. There is a lemma per operator
  (`EntryAddPrefixGood`, `BlockAddPrefixGood`, `PostParseGood`,
  `AddImpliedToGood`, ...) and one per action. `MergedSays` is the merge of two
  rules, `MergeEntryKeeps` and `MergeFileKeeps` that of a block's files,
  `MergeRuleTKeeps` that of its other rules, `MergeAllKeeps` that of the tree;
  `Recorded` ties it to the policy noted before. The loops are taken apart by
  `RunKeeps` (what each step passes on holds of the result) and `RunStays`.
  Second, `ProfileTables`. It speaks of statements as they were written, of which
  the blocks keep no trace, so `TInv` relates the two at every step of the
  parsing: the blocks are a tree and the open ones the path to the current one
  (`Rooted`, `IsOpen`); the limits of a block are those set in it or in what has
  closed below it (`LimitsHeld`); the entry of a statement is found by counting
  from the end of its block's files (`EntriesRight`, `OnlyWritten`), names the
  target that was written or, once its profile or hat has ended, an index that
  leads there (`Right`, `NamesDone`). `WalkReaches` shows that the walk visits
  exactly what is below a block: a loop whose invariant (`Walked`) says that what
  is still to visit and what was visited are disjoint and closed under children.
  Qualifiers may take permissions from an entry at any time, also after it got
  its index, and the entries put in front for `change_profile` move all others
  (`Onto` is what every such change keeps). That a child transition still counts
  as one after `owner` or `other` took half of the permissions is true because
  what is written is given to both (`ForBoth`).

Assumptions on the constants, besides types: `SystemsAssumption` (a kernel's
interfaces belong together as `Possible` says), `PoliciesAssumption` (no hat
has a name that stands for something else in the model), `RequestsAssumption`
(a request has a server name, and no name is longer than `PATH_MAX`),
`SizesAssumption` (the first buffer and the alignment are not zero),
`ContextsAssumption` (a context is a line of text whose mode, which only the
unconfined one lacks, is one word; a label may hold blanks and parentheses),
`DfaPoliciesAssumption` (a policy has a profile), `RoDirsAssumption` (what was
put into a read-only location is of its features, in files that are policies
under names that are not `.features`), `PoliciesAssumption` of `PolicyCache` (a
policy starts with a header, and headers are whole and do not overlap, as the
serialization writes them), `SetupsAssumption` (an exec type comes with the
exec permission, as `parse_sub_perms` has it, permissions are given to user and
others alike, as `parse_perms` does, and qualifiers and limits have their
types), `ExecSlotsAssumption` (the size of the transition table is a number),
`TextsAssumption` (a
kernel's features are some text, in one of the hashes), `NamesAssumption` (no
entry is named `.features`), `TreesAssumption` (the directories of a feature
tree are trees). TLC evaluates each of them
on every run.

Only model-checked: liveness (`Terminates`, `ScanEnds`, `OpeningEnds`,
`ReadingEnds`), as fairness and ENABLED are out of this prover's reach. And,
of the safety properties, those that compare what is computed from a whole tree
or expression with a reference definition over the same tree, which needs
induction over data: `FeaturesRight` (the feature tree and its string),
`BlocksMean` (its reference is a chain of qualifiers of any length around each
statement), and those of `Variables`, `PatternCompiler` and `ProfileRegex`, which
also use RECURSIVE operators. Those runs make the comparison over the bounded inputs
instead.

## Not modelled, and the plan

Left out for good: the lexer and grammar of the front end and of the log
reader (generated), byte formats, messages and dumps, the vendored cJSON and
the output of the utilities, the Python tools, the init scripts, translations
and tests.

Left out so far: the patterns of unix and network rules and the parsing of
the conditionals of the rule classes other than mount; removal of profiles through
the kernel interface.

Next, in this order:

1. Those patterns, as further rule classes of `RuleClass`.
2. Proofs: the part of `BlocksMean` about single rules, from the relation of
   statements and entries in `TInv`; then `BuiltinsRestored` of `Variables`, with
   its recursive operators written as functions.
3. An abstract specification "one directory per feature set" of the policy
   cache, with the race of colliding programs as its explicit exception.
