---------------------------- MODULE MCHidDevice ----------------------------
\* HidDevice for TLC, with configurations of a keyboard, of a keyboard with media
\* keys and a mouse, and of two maps with the same report.
EXTENDS HidDevice

R(id, type, md, usage) == [id |-> id, type |-> type, mode |-> md, usage |-> usage]
Keyboard(id) == <<R(id, "input", "report", "keyboard"), R(id, "input", "boot", "keyboard"),
                  R(id, "output", "report", "keyboard"), R(id, "output", "boot", "keyboard")>>
Mouse(id) == <<R(id, "input", "report", "mouse"), R(id, "input", "boot", "mouse")>>
Media(id) == <<R(id, "input", "report", "generic"), R(id, "feature", "report", "generic")>>

Some == {<<Keyboard(1)>>, <<Keyboard(1) \o Media(2), Mouse(3)>>, <<Media(1), Media(1)>>}
=============================================================================
