SPECIFICATION Spec
CONSTANTS
  Accounts = {alice,bob}
  Browsers = {b1,b2}
  Keys = {k1,k2}
  Tokens = {t1,t2}
  Passwords = {p,q}
  None = None
  TwoFactor = {bob}
  Legacy = {alice}
  Lockers = {b1}
  MaxBusy = 2
  Main = b1
  First = alice
CONSTRAINT Focus
SYMMETRY Symmetry
INVARIANTS
  TypeOK
  KeyOpensWithPassword
  SignedInKeyIsTheAccounts
  
PROPERTIES
  PublishedKeyStays
