-------------------------------- MODULE Conf --------------------------------
(***************************************************************************)
(* The configuration file of pwrtray-backend (backend/conf.c): parsed line *)
(* by line into a hash table of sections, each with a hash table of items, *)
(* and looked up by name.                                                  *)
(*                                                                         *)
(* A line is what string_strip() leaves of it: nothing or a comment, a     *)
(* section header, an item, or something else.  White space is removed     *)
(* from the ends of a line only: an item with blanks around the "=" has    *)
(* another name.  A file that cannot be opened has no lines.               *)
(***************************************************************************)
EXTENDS Integers, Sequences

CONSTANTS
  Files,    (* bound: the lines of the configuration files                  *)
  Hash,     (* conf_hash(): of the names of sections and items              *)
  Missing   (* config_get(): the default                                    *)

ASSUME HashAssumption == \A name \in DOMAIN Hash : Hash[name] \in Nat
ASSUME FilesAssumption ==
  \A file \in Files : Len(file) \in Nat /\ DOMAIN file = 1..Len(file)

Blank              == [kind |-> "blank"]
Header(name)       == [kind |-> "section", name |-> name]
Item(name, value)  == [kind |-> "item", name |-> name, value |-> value]
NoItem             == [kind |-> "other"]

(* What a line can be.                                                     *)
Kinds(line) ==
  \/ line \in {Blank, NoItem}
  \/ line.kind = "section" /\ line = Header(line.name)
  \/ line.kind = "item" /\ line = Item(line.name, line.value)

ASSUME LinesAssumption == \A file \in Files : \A k \in DOMAIN file : Kinds(file[k])
(* config_get(): the default is a null pointer, and no value of an item.   *)
ASSUME MissingAssumption ==
  /\ Missing # "yes"
  /\ \A file \in Files : \A k \in DOMAIN file :
       file[k].kind = "item" => file[k].value # Missing

VARIABLES
  lines,           (* config_file_parse(): lines                            *)
  lineno,          (* ... and the line it parses next                       *)
  sections,        (* the sections, in the order of their headers: their    *)
                   (* names and item_hashtabs                               *)
  section_hashtab  (* struct config_file: section_hashtab, with the numbers *)
                   (* of the sections in place of pointers                  *)

confVars == <<lines, lineno, sections, section_hashtab>>

EmptyHashtab == [h \in {Hash[name] : name \in DOMAIN Hash} |-> <<>>]

ConfInit ==
  /\ lines \in Files
  /\ lineno = 1
  /\ sections = <<>>
  /\ section_hashtab = EmptyHashtab

(* Mutant of HashtabAdd: the chain of the bucket is lost.                  *)
HashtabAddAlone(tab, name, element) == [tab EXCEPT ![Hash[name]] = <<element>>]

(* hashtab_add(): at the end of the chain.                                 *)
HashtabAdd(tab, name, element) ==
  [tab EXCEPT ![Hash[name]] = Append(@, element)]

(* hashtab_get(): the first of the chain with the name, or none.           *)
HashtabGet(tab, name, NameOf(_)) ==
  LET chain == tab[Hash[name]]
      found == {k \in DOMAIN chain : NameOf(chain[k]) = name}
  IN  IF found = {} THEN {}
      ELSE {chain[CHOOSE k \in found : \A l \in found : k <= l]}

(* config_get(): Missing stands for the default.                           *)
ConfigGet(section, item) ==
  LET s == HashtabGet(section_hashtab, section, LAMBDA n : sections[n].name)
      i == UNION {HashtabGet(sections[n].item_hashtab, item, LAMBDA e : e.name) :
                    n \in s}
  IN  IF i = {} THEN Missing ELSE (CHOOSE e \in i : TRUE).value

(* config_get_bool(), with FALSE as the default; any other value is the    *)
(* default, too.                                                           *)
ConfigGetBool(section, item) == ConfigGet(section, item) = "yes"

-----------------------------------------------------------------------------
(* config_file_parse(), one line.  Characters outside of a section and     *)
(* lines without "=" are errors.                                           *)
SkipLine ==
  /\ lines[lineno] = Blank
  /\ UNCHANGED <<sections, section_hashtab>>

NewSection ==
  LET name == lines[lineno].name IN
  /\ lines[lineno].kind = "section"
  /\ sections' = Append(sections, [name |-> name, item_hashtab |-> EmptyHashtab])
  /\ section_hashtab' = HashtabAdd(section_hashtab, name, Len(sections'))

NewItem ==
  LET line == lines[lineno]
      e    == [name |-> line.name, value |-> line.value]
  IN
  /\ line.kind = "item"
  /\ sections # <<>>
  /\ sections' =
       [sections EXCEPT ![Len(sections)].item_hashtab = HashtabAdd(@, line.name, e)]
  /\ UNCHANGED section_hashtab

LineError ==
  \/ lines[lineno] = NoItem
  \/ lines[lineno].kind = "item" /\ sections = <<>>

ParseLine ==
  /\ lineno <= Len(lines)
  /\ lineno' = lineno + 1
  /\ SkipLine \/ NewSection \/ NewItem
  /\ UNCHANGED lines
-----------------------------------------------------------------------------
(***************************************************************************)
(* What a file says, by its lines: it is malformed if it has a line that   *)
(* is no item, or an item before the first header; otherwise the value of  *)
(* an item is the first one of its name in the first section of that name, *)
(* which ends at the next header.                                          *)
(***************************************************************************)
IsHeader(file, k) == file[k].kind = "section"

Malformed(file) ==
  \E k \in DOMAIN file :
    \/ file[k] = NoItem
    \/ file[k].kind = "item" /\ \A l \in 1..k : ~IsHeader(file, l)

Says(file, section, item, value) ==
  \E h, k \in DOMAIN file :
    /\ file[h] = Header(section)
    /\ \A l \in 1..(h - 1) : file[l] # Header(section)
    /\ h < k /\ \A l \in (h + 1)..k : ~IsHeader(file, l)
    /\ file[k] = Item(item, value)
    /\ \A l \in (h + 1)..(k - 1) :
         file[l].kind = "item" => file[l].name # item
=============================================================================
