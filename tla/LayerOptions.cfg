CONSTANTS
  Layers = {"grid", "hex", "scatterplot"}
  Keys = {"extruded", "elevationScale"}
  Colours = {greens, oranges}
  Columns = {"age", "sex"}
  Numeric = {"age"}
  GeomType = "point"
  None = None
SPECIFICATION Spec
SYMMETRY Symmetry
INVARIANTS TypeOK SettingsAgree PaletteFollowed
