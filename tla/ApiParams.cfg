CONSTANTS
  HistoryStrings = {"defaultURL"}
  OtherStrings = {"column"}
  Flags = {"dark", "hideSidebar"}
  Undefined = "undefined"
  Texts = {"u", "u&", "u%26"}
  Reread <- RereadMC
  Objects = {"o"}
  Backings <- BackingsMC
  MaxRenders = 2
SPECIFICATION ApiSpec
INVARIANTS HostFollowed RestForgotten
PROPERTIES OwnWritesWin
