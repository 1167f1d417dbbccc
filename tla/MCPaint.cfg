SPECIFICATION PaintSpec
CONSTANTS
  Images <- MCImages
  Channels = {0, 3, 4}
  Cuts = {0, 3, 9, 10, 12, 30}
  FB_WIDTH = 3
  FB_HEIGHT = 2
  Wallpapers <- MCWallpapers
  Rects <- MCRects
  Glyphs <- MCGlyphs
  TextColor <- MCTextColor
INVARIANTS PaintTypeOK StaysInside RoundTrip InsideBuffer PictureIsRight
