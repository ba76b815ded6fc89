SPECIFICATION Spec
CONSTANTS
  p1 = p1  p2 = p2  s1 = s1  keeper = keeper  loader = loader
  i1 = i1  i2 = i2  i3 = i3
  Process = {p1, p2}
  Session = {s1}
  Component = {keeper, loader}
  Reloads = {loader}
  Inode = {i1, i2, i3}
  MaxWork = 1
  Asset <- MCAsset
SYMMETRY Interchangeable
INVARIANT Remembered
PROPERTY StoreIsAtomic
VIEW Visible
