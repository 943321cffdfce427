SPECIFICATION Spec
CONSTANTS
  root = root  ann = ann  b1 = b1  b2 = b2  staff = staff  ops = ops
  Names = {root, ann}
  Seeded = root
  Browsers = {b1, b2}
  Groups = {staff, ops}
  Claims <- BothOrNone
  NewRoles = {"viewer", "admin"}
  Unset = Unset
  Configs <- TwoConfigs
  Off = Off
  MaxUsers = 4
  NoUser = NoUser
  Idle = Idle
SYMMETRY Symmetry
INVARIANTS TypeOK RoleFollowsGroups
PROPERTIES LocalKept AdministratorRemains
