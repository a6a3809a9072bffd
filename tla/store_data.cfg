CONSTANTS
  Threads = {t1, t2}
  Boards = {b1, b2}
  Users = {alice, bob}
  Texts = {x}
  Asked = {1}
  MaxSerial = 1
  MaxComments = 1
  NoThread = NoThread
SPECIFICATION Spec
INVARIANTS TypeOK IndexMatchesEntries ListsMatchPosts SerialsUnique Guarded NoCircularWait NoDanglingPost NoThrow
PROPERTIES PostsBelongToAuthors Linearizable
SYMMETRY StoreSymmetry
