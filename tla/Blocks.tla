------------------------------- MODULE Blocks -------------------------------
(***************************************************************************)
(* The blocks that hold no structures: what each makes of one that comes   *)
(* in, as an operator on a structure.  What SSLib may do with it in more   *)
(* than one way is a set of outcomes.  A structure is a record; its atoms  *)
(* are a sequence of records of an atom's species, whether it is in the    *)
(* shape of the pipe's CutAndPaste, where it is, and whether CutAndPaste   *)
(* has ever cut it out: it is at "home", where it was built, at a "random" *)
(* place of the shape, "placed" by a separator, or "moved" with the cell   *)
(* or by an optimiser.                                                     *)
(***************************************************************************)
EXTENDS EngineData

NewStructure(name, atoms) ==
  [name |-> name,      \* Unset for the empty name
   atoms |-> atoms,
   cell |-> TRUE,      \* has a unit cell
   flat |-> FALSE,     \* the cell has been scaled to nothing
   radii |-> Unset,    \* what the species database knew when it was built
   params |-> Unset,   \* POTENTIAL_PARAMS
   energy |-> FALSE,   \* has ENERGY_INTERNAL
   enthalpy |-> FALSE, \* has ENTHALPY
   sg |-> FALSE,       \* has SPACEGROUP_NUMBER
   saved |-> Unset]    \* LAST_ABS_FILE_PATH

Named(s, name) == [s EXCEPT !.name = name]
NameIfNone(s, name) == IF s.name = Unset THEN Named(s, name) ELSE s

(* BuildStructures: an attempt that succeeds, with the settings in GlobalData
   if there are any.  The name is generated and ends in the attempt's number. *)
Generated(global, shared, byDefault, name) ==
  [NewStructure(name, IF global.generation = Unset THEN byDefault ELSE global.generation)
   EXCEPT !.radii = shared.species]

(* Mutant of Cloned: one name is generated for all. *)
ClonedShareName(s, times, unique, names) ==
  [k \in 1..(IF times > 1 THEN times ELSE 1) |-> IF unique THEN Named(s, names[1]) ELSE s]

(* Clone::in: the structure itself and its clones, none if times is below two. *)
Cloned(s, times, unique, names) ==
  [k \in 1..(IF times > 1 THEN times ELSE 1) |-> IF unique THEN Named(s, names[k]) ELSE s]

(* Atoms that are put elsewhere, each into the shape or out of it. *)
Shifted(atoms, which, at) ==
  {[k \in DOMAIN atoms |->
      IF k \in which THEN [atoms[k] EXCEPT !.at = at, !.inShape = k \in inside] ELSE atoms[k]] :
     inside \in SUBSET which}
AllMoved(atoms) == Shifted(atoms, DOMAIN atoms, "moved")

(* Where a separator leaves the points that are not fixed: it moves them, or
   finds no place for them. *)
Separated(atoms, free) == {atoms} \cup Shifted(atoms, free, "placed")

(* The atoms that are in the shape, or those that are not, as they are come upon
   one after another. *)
Chosen(atoms, inside) ==
  LET first[k \in 0..Len(atoms)] ==
        IF k = 0 THEN <<>>
        ELSE IF atoms[k].inShape = inside THEN Append(first[k - 1], atoms[k])
        ELSE first[k - 1]
  IN first[Len(atoms)]

(* Mutant of CutAndPasted: what was cut is put in front. *)
CutAndPastedInFront(s, opts) ==
  LET kept == Chosen(s.atoms, FALSE)
      moved == Chosen(s.atoms, TRUE)
      pasted == [k \in DOMAIN moved |-> [moved[k] EXCEPT !.at = "random", !.cut = TRUE]]
      all == pasted \o kept
      free == DOMAIN all \ (IF opts.fixUntouched THEN 1..Len(kept) ELSE {})
  IN IF ~opts.paste THEN {[s EXCEPT !.atoms = kept]}
     ELSE IF ~opts.separate THEN {[s EXCEPT !.atoms = all]}
     ELSE {[s EXCEPT !.atoms = placed] : placed \in Separated(all, free)}

(* CutAndPaste::in: the atoms in the shape are cut out and put behind the rest
   at random places of the shape.  Atoms are fixed by their index. *)
CutAndPasted(s, opts) ==
  LET kept == Chosen(s.atoms, FALSE)
      moved == Chosen(s.atoms, TRUE)
      pasted == [k \in DOMAIN moved |-> [moved[k] EXCEPT !.at = "random", !.cut = TRUE]]
      all == kept \o pasted
      free == DOMAIN all \ (IF opts.fixUntouched THEN 1..Len(kept) ELSE {})
  IN IF ~opts.paste THEN {[s EXCEPT !.atoms = kept]}
     ELSE IF ~opts.separate THEN {[s EXCEPT !.atoms = all]}
     ELSE {[s EXCEPT !.atoms = placed] : placed \in Separated(all, free)}

(* PasteFragment::in; a fragment that could not be read is empty. *)
FragmentPasted(s, fragment) == [s EXCEPT !.atoms = @ \o fragment]

(* SeparateAtoms::in: the positions are taken over if there is a solution. *)
AtomsSeparated(s) ==
  {[s EXCEPT !.atoms = placed] : placed \in Separated(s.atoms, DOMAIN s.atoms)}

(* scale: the atoms go along with the cell.  A volume of zero leaves no cell
   that could be scaled again. *)
ScaledTo(s, natural) ==
  IF ~s.cell THEN {s}
  ELSE {[s EXCEPT !.atoms = moved, !.flat = @ \/ ~natural] : moved \in AllMoved(s.atoms)}

(* AutoScale::in and naturalVolume, the sum over the atoms whose species has a
   radius, which takes a distance in the database: of none it is zero. *)
Scaled(s, known) == ScaledTo(s, \E k \in DOMAIN s.atoms : s.atoms[k].species \in known)

(* Rescale::in, with SSLib's naturalVolume, which falls back on defaults. *)
Rescaled(s) == ScaledTo(s, s.atoms # <<>>)

(* NiggliReduce::in: the same lattice by shorter vectors. *)
NiggliReduced(s) == s

(* FindSymmetryGroup::in *)
SymmetryFound(s) == IF s.cell THEN [s EXCEPT !.sg = TRUE] ELSE s

(* GeomOptimise::in: the structure is marked with the parameters the potential
   holds, if it has any, and optimised, which leaves its atoms at any of the
   places relaxed; one that fails has no energy. *)
Optimised(s, held, failAction, relaxed) ==
  LET marked == IF held = Unset THEN s ELSE [s EXCEPT !.params = held]
  IN UNION {{[out |-> TRUE,
              structure |-> [marked EXCEPT !.atoms = atoms, !.energy = TRUE, !.enthalpy = TRUE]],
             [out |-> failAction = "continue",
              structure |-> [marked EXCEPT !.atoms = atoms]]} : atoms \in relaxed}

(* WriteStructures::pipelineStarting *)
WriterState(format, writers) ==
  IF format # Unset /\ format \in writers THEN "custom"
  ELSE IF writers # {} THEN "default" ELSE "disabled"

(* WriteStructures::generateLocator: one file for all if the format can hold
   several and the block is to write such, else one named for the structure. *)
SaveLocation(s, multi, shared, global) ==
  [path |-> Absolute(IF multi THEN OutputFileStemPath(shared, global)
                     ELSE Append(WorkingDir(shared, global), s.name)),
   id |-> s.name]

(* A successful write; the disk maps a location to what was last put there. *)
OnDisk(disk, s, location) ==
  [l \in DOMAIN disk \cup {location} |-> IF l = location THEN s ELSE disk[l]]
==============================================================================
