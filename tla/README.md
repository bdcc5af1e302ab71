# TLA+ models of the CLI / API reference generators and CI scripts

This directory holds TLA+ models of the Python scripts under `src/`. They are
checked with TLC. The core is the CLI reference pipeline. `scan_cli.py` probes a
command-line tool recursively and builds a command tree. Then
`transform_to_markdown.py` (cli_reference_generation) renders that tree as
Markdown. `spec.md` describes this pipeline.

## 1. Inventory

| Component | Source | State | Operations | Interacts with |
|---|---|---|---|---|
| Tree Prober | `scan_cli.py` `CLIScanner` | `visited` (set of path strings), `help_cache` (unused), the recursion stack of `scan_command` | `scan`, `scan_command` (visited guard, depth guard, probe, parent-help comparison, error markers, dialect dispatch, loop over commands) | calls `run_command` (subprocess, 60 s timeout) and the two parsers; returns a nested dict that `main` writes as JSON |
| Text Normalizer | `run_command` (scan_cli.py), `strip_ansi_colors` (process_flake_log.py) | none | ANSI stripping with `re.sub` | pure; feeds the dialect tests and the flake comment |
| Dialect Parsers | `parse_commander_help`, `parse_custom_help` | per call: section and option cursors | fold over lines | called by the prober |
| CLI Document Renderer | `cli_reference_generation/transform_to_markdown.py` `MarkdownGenerator` | config (defaults merged with the template) | `generate`, `generate_toc`, `generate_command_docs`, `render_*`, `slugify`, `escape_html_entities` | reads the JSON tree |
| Render config loader | `load_config_from_file`, `doc_template_example.py` | the CONFIG dict | executes a Python file | `custom_header`/`custom_footer` are defined but never called |
| API Document Renderer | `aztecjs_reference_generation/transform_to_markdown.py` | config | folder → file → export rendering, TOC, `slugify` | reads an export tree |
| Document verifier | `verify_docs.py` | issues list | seven line-scanning checks | reads the rendered file |
| Release-note dedupe | `scripts/dedupe_release_notes.py` | none (pure passes) | four dedupe passes | file in, file out |
| Issue auto-closing | `auto_close_issues.py`, `find_orphaned_issues_in_prs.py` | none | per commit → PR → referenced issue: check state, close | git and the GitHub API (calls can fail) |
| Flake comments | `post_flake_comment.py`, `process_flake_log.py` | the PR's marker comment (remote) | find the marker comment, then PATCH it or create one; threshold check | GitHub API; several CI jobs may run at once |

What makes this code hard:

* **Prober.** The recursion runs on a single thread, so nothing is concurrent.
  The hard part is what the probed tool prints. A probe can time out, print
  nothing, print an error, print its parent's help as a fallback, or list a
  name twice. The prober must still end, must not probe anything twice, must
  probe everything eligible, and must keep every result.
* **Renderer.** The TOC walk and the body walk are two recursions with their
  own depth counters. Both must cover the same nodes, and every heading must
  be valid Markdown.
* **CI scripts.** These read remote state and then act on it
  (check-then-act). Remote calls can fail, and concurrent CI jobs can
  interleave.

Properties that make each component correct:

* **Prober**
  * It probes exactly the paths that are eligible, each once and within the
    depth guard.
  * The tree records every probe's outcome.
* **Renderer**
  * Every node within `max_depth` gets exactly one section, and that section
    is a stub exactly when the node is an error.
  * Every TOC link resolves to a section.
  * Heading levels stay at 6 or below.
* **Text Normalizer:** on terminal text, every escape is removed and every
  other character is kept, in order. This holds for the help texts the
  parsers read and for the flake lines a comment lists.
* **Dedupe**
  * At least one entry survives for each description.
  * The output is what the four rules give when read off the whole input.
  * The statistics add up.
* **Auto-close:** only referenced issues of merged PRs are closed, and every
  reference a PR text asks to close is extracted.
* **Flake comments:** each PR has at most one marker comment.
* **aztec.js renderer and verifier:** every rendered document passes
  `verify_docs`, never skips a heading level, labels every export, and every
  TOC link reaches a heading. `slugify` gives the anchor spec.md 4.5 and 8
  describe.

## 2. Modules

* `HelpText.tla` models a captured help output. It is abstracted to the
  substring tests `scan_command` makes on it and the command list the
  Commander parser yields.
  * The tests are `Usage:`, `Commands:`, the section-header regex, the error
    markers and `BigInt`.
  * Texts that are equal after `.strip()` are equal records.
  * A timeout, an exception or empty output is the model value `NoOutput`.
* `ProbeSpec.tla` is the abstract prober. Its only variable is `log`, the
  sequence of `<<path, output>>` probes.
  * A path is eligible when it is the root, or a listed, non-`help` child of
    a probed path. That parent's help must be a Commander help that differs
    from its own parent's, and the child must be within the depth bound.
  * `Probe` appends one new eligible path, and weak fairness makes every
    eligible path eventually probed.
* `CLIScanner.tla` is the scanner, with the recursion written as an explicit
  stack of frames.
  * The actions are `AlreadyVisited` (lines 187-188), `TooDeep` (190-194),
    `Probe` (196-230, with `Classify` for 200-257), `SkipHelp` (235),
    `Descend` (236) and `FinishCommander` (241-257).
  * `Return` stores the node under its path. A name already present keeps
    its position in the dict and gets the new value, as Python dicts do.
  * `result` is the nested return value, flattened into a map from path to
    node.
  * `Abs == INSTANCE ProbeSpec` is the refinement. It needs no mapping,
    because `log` is shared.
* `CLIMarkdown.tla` models the renderer.
  * `GenerateToc` and `GenerateCommandDocs` are the recursive walks.
  * The document is reduced to its structure: TOC entries, heading blocks
    with their level, stub blocks and content blocks.
* `RenderConfig.tla` models the renderer's configuration:
  `get_default_config`, `load_config_from_file` (`CONFIG`, else `config`,
  else the `ValueError` that stops `main` before it writes anything), the
  `--template`/`--title` handling of `main` and the merge in `__init__`. A
  dict is a function from its keys and a template file the function from
  its global names, so `hasattr` is `DOMAIN`. `ExampleTemplate` is
  `doc_template_example.py`; its `custom_header` and `custom_footer` are
  never called by the renderer. `CLIMarkdown` takes `max_depth` and
  `include_toc` from the merged configuration.
* `CLIPipeline.tla` composes the scanner and the renderer. Rendering happens
  when the stack is empty, because `main` of each script hands the JSON over
  unchanged. This module holds the properties.
* `CommanderParser.tla` models `parse_commander_help` (lines 62-127). The
  line loop is a state machine: `lines` is fixed in `Init`, the index `i`
  moves one line per step, and each branch of the if/elif chain (lines
  76-106, `Branch`) is an action. A line is one of eleven classes
  (usage, description text, the three headers, option, dash line without a
  long flag, two-column entry, one-column line, `Additional`, blank), which
  is all that the branch tests see. Parsed items are recorded by the index of
  the line they came from.
* `CustomParser.tla` models `parse_custom_help` (lines 129-180) in the same
  way, with seven line classes. `curOpt` is the position of the dict that
  `current_option` refers to, so that a write through it lands where
  Python's would.
* `HelpParsers.tla` composes the two parsers the way `scan_command`
  dispatches to them (lines 225-256). Each parser is an `INSTANCE` with its
  variables renamed. `Init` gives a text to the Commander parser when it holds
  `Usage:` and `Commands:`, and to the custom parser when it holds a section
  header; the other parser stays idle. The parser properties are checked
  here, in one run.
* `TextNormalizer.tla` models the two ANSI strippers as `re.sub` over a
  string seen as the sequence of its characters. `Sub` is the scan of
  `re.sub`: drop a match and resume after it, or keep one character.
  `AnsiMatchLen` is `run_command`'s `\x1b\[[0-9;]*[a-zA-Z]` (scan_cli.py
  lines 49-52). `EscMatchLen` is `strip_ansi_colors`' ECMA-48 pattern
  (process_flake_log.py line 127): a two-character escape, or `ESC [`,
  parameter bytes, intermediate bytes and a final byte. The alphabet is
  ESC plus one character of each class the patterns tell apart. Each class
  is disjoint from the class tried after it, so each match is the greedy
  one, found without backtracking. `HelpParsers` checks `StripAnsi` and
  `FlakeComment` checks `StripAnsiColors`, each against a reference: text
  assembled from plain characters and complete escapes (three pieces from
  14 colour codes for `run_command`; two pieces from 79 escapes for
  `strip_ansi_colors`) must come out as its plain characters, in order.
* `FlakeComment.tla` models `main` of `process_flake_log.py` run by several
  CI jobs of one PR at once. The steps are: read the flakes file, load the
  flake groups with yq and check thresholds, resolve the PR, look up the
  marker comment, then PATCH it or create one. Each remote call is one step
  and may fail (`\E ok \in BOOLEAN`), so jobs interleave between the lookup
  and the create. A flake line is reduced to its `group:` tag; a comment is
  reduced to the job whose body it holds. `postFlag` is `--post-comment`
  (always on for `post_flake_comment.py`); without it `SkipComment` ends the
  job after the threshold check (lines 172, 182-189).
* `AutoCloseIssues.tla` models `auto_close_issues.py`: commits → PR numbers
  → merged PRs → issue references → check and close. Every git/gh call may
  fail. A PR text is a sequence of lines, each with a keyword flag and its
  references (URL, `owner/repo#N`, bare `#N`). `ExtractIssueRefs` is a fold
  over the lines that keeps the `cross_repo_refs` suppression. The issues of
  one PR are closed in any order (`list(set(...))`).
* `DedupeReleaseNotes.tla` models `deduplicate_release_notes`. Each of the
  four passes and the output build is one step. A line is reduced to what
  `parse_entry` reads: description, PR number, commit hash. Blank and header
  lines are `NonEntries`. `RefOutput` is a reference definition that reads
  the docstring's four rules off the whole input at once.
* `MCCLIPipeline.tla` sets up the checked configuration. Every probe may
  print any of seven texts or `NoOutput`:
  * `RootHelp` and `Mid`: Commander helps listing `a` (and `help`). They
    alternate to build chains down to the depth guard.
  * `Dup`: lists `a` twice.
  * `Failed`: a Commander help that also carries an error marker.
  * `BigInt`, `Custom`, `Raw`.
  * A child printing its parent's text is the fallback the scanner detects.

The bounds match the code: `MaxScanDepth = 5` (hard-coded in the code) and
`max_depth = 5` (the default, and the value of the example template the runs
load, with no `--title`). Only one name besides `help` is used.
Branching would multiply the state space without reaching new code, since each
branch is scanned by the same loop. Duplicate names are the only way to revisit
a path.

**Fairness.** `WF_vars(Next)`. The scanner is one thread that always takes its
next step. The tool's answer is part of the probe step, and a timeout is one of
the possible answers.

The parser runs enumerate every help text of up to 4 (Commander) or 5
(custom) lines. That is enough for every two-line interaction: a header
between an item and its continuation, two description or continuation
lines, and an item above the first header.

`FlakeComment` uses two jobs, `j1` running `process_flake_log.py` and `j2`
running `post_flake_comment.py` (its `PostStart` skips the thresholds and
the job always returns 0), two groups, up to two flakes per job and
thresholds 0..1. That is enough for a group to reach or miss its threshold,
and for the two jobs to race on the marker comment. The fairness is
`\A j : WF_vars(Step(j))`: each job is its own CI process that runs until
`main` returns. `AutoCloseIssues` uses two commits naming PRs `p1` and
`p2, p1`, one issue number in this and in one other repository, and PR texts
of up to two lines drawn from keyword/plain lines with each kind of
reference. `DedupeReleaseNotes` enumerates every file of up to four lines
over two descriptions, one PR, two commit hashes and a blank line (30,941
inputs). That is enough for each rule to fire and for two rules to interact
on one description.

The aztec.js pipeline is three modules. `ApiMarkdown.tla` holds the
renderer as operators: a string is the sequence of its lines, each line a
record `[k, lvl, key]` with the class the verifier's regexes put it in, the
level of a heading and the anchor key of a heading or TOC link. Then
`"\n".join(sections)` is `FlattenSeq` of the sections' lines and `""` is one
blank line, so every blank line the nested joins produce is kept. Each
`generate_*` method is one operator of the same name; an export and a member
are reduced to the fields that decide their lines. `DocVerifier.tla` holds
`verify_docs`: `LoadFile`, one `RunCheck` step per check in `verify_all`'s
order (each check is an operator translated from its loop), and `Report`.
`ApiDocs.tla` composes them: `Render` is `main` of the renderer (generate,
write, and read back with `readlines`), then the verifier's steps run on
that file. `MCApiDocs` draws one folder (with or without description) of up
to two files of up to two exports from seven exports that cover every export
kind, an unknown kind, every member kind and every return-type shape, with
and with both or neither of the package and date metadata lines (text
lines that only shift the lines below them): 13,230 documents. Two exports per
file and two files are enough for a section to be closed by the next one and
for an empty file or unknown export to sit between two sections.
`Slugify` is `slugify` on a string as the sequence of its characters, over
nine characters: a capital and a small letter, a digit, the four separators
it maps to `-`, `-` itself and `!`, which it drops. `SlugReference` states
the anchor declaratively (the alphanumerics, lowercased, with one `-` where
separators stood between two of them), and every string of up to five
characters is compared: five is the shortest text, `a---a`, on which a
single `replace('--', '-')` leaves a doubled hyphen.

`FindOrphanedIssues.tla` models `find_orphaned_issues_in_prs.py`. It
collects the PRs of the merge trains (a failing git call drops a train or one
train commit, so any subset of them survives), fetches each PR in sorted
order (the call may fail) and maps every key `extract_issue_refs` returns to
it. The keys stay raw strings, as in the code: `N` for a bare reference, and
`owner/repo#N` for a URL or a cross-repo reference. Then it sorts the keys
with `key=int`, looks each issue up in `--repo` and reports. `MCFindOrphanedIssues`
uses two trains naming PRs 10 and 20 (10 twice), one issue number in this and
in one other repository, and PR texts of up to two lines from the
`AutoCloseIssues` line menu.

## 3. Runs

| Run | cfg | Expect | Shows |
|---|---|---|---|
| cli_pipeline | `MCCLIPipeline.cfg` | pass (6834 states) | `TypeOK`. `AbstractScan`: the scanner refines `ProbeSpec`, so it never re-probes, never probes `help`, never probes below an error, invalid or non-Commander help, never probes deeper than 5, and eventually probes every eligible path. `EveryNodeRendered`: one section per node within `max_depth`, stubbed exactly for errors. |
| cli_result_kept | `MCCLIPipeline_ScannedResultKept.cfg` | violation | When a help lists `a` twice, the `already_visited` stub of the second visit overwrites the scanned result of the first (line 239). |
| cli_toc_anchors | `MCCLIPipeline_TocAnchorsResolve.cfg` | violation | The TOC starts at depth 0 and the body at depth 1, so level-5 commands have TOC links but no section. |
| help_parsers | `HelpParsers.cfg` | pass (66516 states) | `DescriptionParsed`: the first unindented line after usage and before any header. `OptionsParsed`: exactly the option-pattern lines under `Options:`. `CommandsParsed`: exactly the two-column non-flag lines under `Commands:`/`Arguments:`. `SectionsParsed`: one section per header, holding exactly its option lines. The references read each line's section off the layout. `HelpTextNormalized`: `run_command` removes every colour code of spec.md 4.1 and keeps every other character. |
| api_docs | `MCApiDocs.cfg` | pass (145530 states) | `TypeOK`. `RenderedDocVerifies`: every rendered document passes `verify_docs` (exit 0). `HeadingLevelsContiguous`: `check_heading_hierarchy` never warns. `ExportSectionsLabelled`: every "missing **Type:**" warning is at a renderer group heading (`#### Methods`, ...), never at an export. `SlugifyMatchesReference`: `slugify` gives the reference anchor on every text of up to five characters. |
| api_toc_anchors | `MCApiDocs_TocLinksResolve.cfg` | violation | Export links of the TOC point at `slugify(folder-file-name)` while the heading `#### name` has the anchor of the name alone (line 100), so no export link resolves; an `enum` export gets a link and no section at all. |
| flake_comment | `MCFlakeComment.cfg` | pass (257096 states) | `ExitMatchesLoadedConfig`: a job exits 1 exactly when a group it saw reached the threshold of the configuration it loaded (never the `post_flake_comment` job), whatever happened to the PR lookup and the comment, with or without `--post-comment`. `CommentTestsPlain`: every marker comment a `process_flake_log.py` job wrote lists its tests as plain text, because `strip_ansi_colors` removes every ECMA-48 escape of a flake line and keeps every other character; `post_flake_comment.py`'s `build_comment` strips nothing, so its comments are not covered. |
| flake_single_comment | `MCFlakeComment_AtMostOneMarker.cfg` | violation | Two jobs that both look up before either creates, or a job whose lookup fails, create a second marker comment (line 53; `post_flake_comment.py:50` is the same). |
| auto_close | `MCAutoCloseIssues.cfg` | pass (153532 states) | `ClosedOnlyReferenced`: only issues that a merged PR named by a pushed commit asks to close get closed. |
| auto_close_dropped_ref | `MCAutoCloseIssues_NoReferenceDropped.cfg` | violation | `Closes #1` is not extracted when the text also links issue 1 of another repository (line 65). |
| orphans_report | `MCFindOrphanedIssues.cfg` | violation | A PR text that links `https://github.com/other/r/issues/1` or names `other/r#1` gives `issue_to_prs` the key `other/r#1`, and `sorted(..., key=int)` (line 187) raises `ValueError` before any issue is checked. |
| dedupe | `DedupeReleaseNotes.cfg` | pass (185646 states) | `DescriptionsKept`: no description is lost. `StatsAddUp`: the four counters sum to original minus final lines. `OutputMatchesReference`: the passes keep exactly the lines the four rules keep when read off the whole input, in order. |

The passing runs use `CHECK_DEADLOCK FALSE` because each of these programs
really stops: the scan when its stack is empty, a parser at the last line,
every CI job when `main` returns, and the scripts after their last pass.
No termination property is checked for the scan. In this finite model, with
the depth guard bounding the recursion and a `for` loop that always
advances, termination follows from the shape of the model; `AbstractScan`
checks the part that could go wrong, that every eligible path is
eventually probed.

`close_issue` also reports an issue closed when `gh issue close` failed (line
101, `result or result == ""`). `CloseIssue` models this, but no run checks it
(see the hazard in `PROJECT.json`). Every passing property has a mutant in `PROJECT.json`:

* a child pushed at depth+2 breaks `TypeOK`;
* dropping error stubs breaks `EveryNodeRendered`;
* dropping the `help` test breaks `AbstractScan`;
* in the Commander parser, storing the next line as description breaks
  `TypeOK`, overwriting the description breaks `DescriptionParsed`, taking
  dash lines as options outside `Options:` breaks `OptionsParsed`, and
  dropping the dash test for commands breaks `CommandsParsed`;
* in the custom parser, an off-by-one `current_option` breaks `TypeOK`,
  and appending options to the first section breaks `SectionsParsed`;
* in `FlakeComment`, returning the number of exceeded groups breaks
  `TypeOK`, `>` for `>=` breaks `ExitMatchesLoadedConfig`, and leaving the
  intermediate bytes out of `strip_ansi_colors`' pattern breaks
  `CommentTestsPlain`;
* in `TextNormalizer`, writing `run_command`'s pattern `[0-9]*` instead of
  `[0-9;]*` breaks `HelpTextNormalized`;
* in `AutoCloseIssues`, running the commit loop one index too far breaks
  `TypeOK`, and dropping the cross-repo suppression breaks
  `ClosedOnlyReferenced`;
* in `DedupeReleaseNotes`, enumerating `lines` instead of
  `deduplicated_lines` in step 2 breaks `TypeOK`, removing no-PR entries
  without a PR sibling breaks `DescriptionsKept`, dropping the
  `lines_to_remove` skip of step 4 breaks `StatsAddUp`, and keeping the
  last duplicate in step 3 breaks `OutputMatchesReference`;
* in the aztec.js pipeline, losing the `if current_section:` test of
  `check_section_structure` breaks `TypeOK` (an issue at line 0), leaving
  out the closing fence of a multi-line return type breaks
  `RenderedDocVerifies`, a property heading at `######` breaks
  `HeadingLevelsContiguous`, and a const without its `**Type:** Constant`
  line breaks `ExportSectionsLabelled`, and collapsing hyphens with one
  `if` instead of the `while` loop breaks `SlugifyMatchesReference`.

Three violations found in earlier sittings are no longer run, for want of
run slots: a section header does not reset `current_option`
(`scan_cli.py:148`), so `hdr, option, hdr, cont` gives the first section's
option the second section's continuation, against spec.md 4.1; a commander with subcommands at body depth 5 emits `####### Subcommands`
(cli `transform_to_markdown.py:135`), and a failed `yq` call makes
`load_flake_groups` return `{}`, so a job over the repository's threshold
exits 0 (`process_flake_log.py:69`). Their hazards in `PROJECT.json` say so.

## 4. Not modelled (yet) and why

* **Subprocess handling, JSON/YAML I/O and argparse.** These are I/O. A
  probe's output is abstract in the scanner. ANSI stripping is checked on
  its own, on well-formed terminal text. `re.sub` makes a single pass, so
  a bare ESC just before a colour code leaves an escape behind
  (`ESC ESC[m [m` gives `ESC[m`). Real help output has no bare ESC, so no
  run is spent on this. `post_flake_comment.py`'s `build_comment` strips
  nothing, and its body text is not modelled.
* **Parsers inside the scanner.** The scanner's `HelpText` still carries
  the command list abstractly rather than running `CommanderParser` on it.
  The parsers are checked on their own. The regexes are abstracted to line
  classes; the default and env-var captures hold no control.
* **Release-note file I/O and the printed report.** Only the passes are
  modelled. Step 1 also removes repeated blank and header lines; the model
  keeps that behaviour.
* **aztec.js anchors and `load_input_file`.** `slugify` is checked on its
  own, but the document keeps anchors as keys (the name of a heading,
  folder-file-name for a TOC link): the anchor the Markdown processor gives
  a heading is not in this repository. Keys are enough to show they never
  match. Parameter lists are one item.
* **The CLI renderer's `slugify`** (lines 99-101) only lowercases and
  replaces spaces and slashes, less than the slug function of spec.md 4.5.
  TOC entries keep their command paths as anchors, and command names are
  single tokens without spaces, so no property depends on the difference.
* **`--title` and metadata lines.** `RenderConfig` carries the title, but
  the title and metadata lines hold no paths and no property is about
  them, so the body starts at the TOC.
* **Content formatting.** Option lists and tables, escaping, usage blocks and
  slug text are left out. No current property is about them.

## 5. Plan for later sittings

1. **Parsers (done: `CommanderParser.tla`, `CustomParser.tla`).** Left:
   make `HelpText` take `cmds` from a Commander line layout, so that the
   duplicate-name case of `cli_result_kept` arises from a layout.
2. **Prober extensions.**
   * A fixed-tool MC with the tool's real command tree, to state "no phantom
     paths" (fallback to a grandparent's help).
3. **aztec.js (done: `ApiMarkdown.tla`, `DocVerifier.tla`, `ApiDocs.tla`,
   `slugify`).** Left: anchor collisions between exports whose names differ
   only in separators, should the TOC anchors ever resolve.
4. **Run slots.** The runs retired above, should a slot free up.
   Also a candidate: an `Arguments:` entry parsed as the command `<arg>`
   (scan_cli.py line 82) reaches a heading unescaped. Showing it needs
   name characters in `HelpText` and the renderer.
5. **Done:** `DedupeReleaseNotes.tla`, `FlakeComment.tla` (both flake
   scripts), `AutoCloseIssues.tla` and `FindOrphanedIssues.tla`. Left: the
   `ReportedClosedIsClosed` question (line 101), should a run become free;
   a composition in which the orphan report runs after auto-closing.
