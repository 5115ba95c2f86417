------------------------------- MODULE MapUsers -------------------------------
(***************************************************************************)
(* The hash map of common/ and its users: create_icon(), through the       *)
(* palette, or anybody who calls what hmap.h declares in any order.  They  *)
(* have maps of their own: there is one user at a time.                    *)
(***************************************************************************)
EXTENDS Palette

CONSTANT SomeEntries      \* what the others keep in theirs

VARIABLE user

usersVars == <<allVars, user>>

NoImage ==
  /\ pixels = <<>> /\ transparency = {} /\ bit_count = Unset
  /\ phase = "none" /\ n = 1
  /\ color_index = [k \in Keys |-> 0] /\ next_index = 0 /\ it_init = FALSE
  /\ table = <<>> /\ data = <<>>

UsersInit ==
  \/ user = "palette" /\ PaletteInit
  \/ user = "others" /\ Init /\ NoImage

UsersNext ==
  /\ UNCHANGED user
  /\ \/ user = "palette" /\ PaletteNext
     \/ user = "others" /\ Next /\ Contents' \subseteq SomeEntries
                        /\ UNCHANGED createVars

UsersSpec == UsersInit /\ [][UsersNext]_usersVars
=============================================================================
